----------------------------- MODULE DealProofs -----------------------------
(***************************************************************************)
(* Proofs about the deal contract (TokenContract) and about the weekly     *)
(* keeper beside it (SubscriptionKeeper), for every price, size, fee,      *)
(* window and length of behaviour.                                         *)
(*                                                                         *)
(* The deal: type correctness (no settlement underflows), solvency, claim  *)
(* bounds, the independence of every exit from who settled what first, the *)
(* books, what each way out costs, and the bill of a deal that ends        *)
(* undisputed.  These theorems are about Spec of TokenContract and use     *)
(* none of the keeper's assumptions.  The first argument is one inductive  *)
(* invariant, "the storage is well typed and the balance covers the        *)
(* earmarks".  Covers(d, extra) states it for a storage record d with      *)
(* extra to spare, and there is one lemma per private function of the      *)
(* contract saying what it does to that slack; the lemmas about the public *)
(* functions only compose them.                                            *)
(*                                                                         *)
(* The keeper, in the last part: its task ends only when the deal has, and *)
(* fails only for a cause outside it.                                      *)
(***************************************************************************)
EXTENDS DealInv, TLAPS

-----------------------------------------------------------------------------
(***************************************************************************)
(* Lemmas about types and amounts.                                         *)
(***************************************************************************)
\* The platform fee on an amount is a natural number.
LEMMA FeeNat == ASSUME NEW a \in Nat PROVE Fee(a) \in Nat
  BY PriceAssumption DEF Fee

\* The price of n tokens and the fee on it are natural numbers.
LEMMA ValueNat == ASSUME NEW n \in Nat PROVE PayOf(n) \in Nat /\ FeeOf(n) \in Nat
<1>1. n * P \in Nat
  BY PriceAssumption
<1>2. PayOf(n) \in Nat
  BY <1>1, PriceAssumption DEF PayOf
<1> QED
  BY <1>2, FeeNat DEF FeeOf

\* The rebate on n ticks is a natural number.
LEMMA RebateNat == ASSUME NEW n \in Nat PROVE Rebate(n) \in Nat
<1> DEFINE rate == Lesser(REBATE_SLOPE_BPS * n, REBATE_MAX_BPS)
<1>1. rate \in Nat
  BY PriceAssumption DEF Lesser
<1>2. rate * n * P \in Nat
  BY <1>1, PriceAssumption
<1> QED
  BY <1>2, PriceAssumption DEF Rebate

\* Crediting a ledger keeps it a ledger, whoever is credited.
LEMMA CreditType ==
  ASSUME NEW ledger \in [Notes -> Nat], NEW n, NEW amount \in Nat
  PROVE  Credit(ledger, n, amount) \in [Notes -> Nat]
<1>1. CASE n \in Notes
  BY <1>1 DEF Credit
<1>2. CASE n \notin Notes
  BY <1>2 DEF Credit
<1> QED
  BY <1>1, <1>2

\* The number of elapsed weeks is an integer.
LEMMA WeeksInt ==
  ASSUME NEW d, Typed(d), NEW t \in Nat
  PROVE  WeeksElapsedAt(d, t) \in Int /\ WeeksStartedAt(d, t) \in Int
<1>1. d.periodStart \in Nat /\ d.subWeeks \in Nat
  BY TimeAssumption DEF Typed
<1>2. (t - d.periodStart) \div SUB_WEEK_LEN \in Int
  BY <1>1, TimeAssumption
<1>3. WeeksElapsedAt(d, t) \in Int
  BY <1>1, <1>2 DEF WeeksElapsedAt, Lesser
<1> QED
  BY <1>1, <1>3 DEF WeeksStartedAt
-----------------------------------------------------------------------------
(***************************************************************************)
(* Money in and out.                                                       *)
(***************************************************************************)
\* Received money is slack until something is promised against it.
LEMMA ReceiveCovers ==
  ASSUME NEW d, NEW n, NEW amount \in Nat, NEW extra \in Nat, Covers(d, extra)
  PROVE  Covers(Receive(d, n, amount), extra + amount)
<1>1. Credit(d.put, n, amount) \in [Notes -> Nat]
  BY CreditType DEF Covers, Typed
<1> QED
  BY <1>1 DEF Covers, Typed, DealFields, Earmarks, Receive

\* A payment made out of slack leaves every promise covered.
LEMMA PayShellCovers ==
  ASSUME NEW d, NEW n, NEW amount \in Nat, NEW extra \in Nat, Covers(d, extra + amount)
  PROVE  Covers(PayShell(d, n, amount), extra)
<1>1. Credit(d.got, n, amount) \in [Notes -> Nat]
  BY CreditType DEF Covers, Typed
<1> QED
  BY <1>1 DEF Covers, Typed, DealFields, Earmarks, PayShell

\* So does a write-off made out of slack.
LEMMA BurnShellCovers ==
  ASSUME NEW d, NEW amount \in Nat, NEW extra \in Nat, Covers(d, extra + amount)
  PROVE  Covers(BurnShell(d, amount), extra)
  BY DEF Covers, Typed, DealFields, Earmarks, BurnShell

\* Charging tokens moves escrow to earnings and fees and never takes more
\* than the escrow holds.
LEMMA ChargeTokensCovers ==
  ASSUME NEW d, NEW n \in Nat, NEW extra \in Nat, Covers(d, extra)
  PROVE  Covers(ChargeTokens(d, n), extra)
<1> DEFINE short == PayOf(n) + FeeOf(n) > d.deposit
           fee   == IF short THEN Lesser(d.deposit, FeeOf(n)) ELSE FeeOf(n)
           pay   == IF short THEN d.deposit - fee ELSE PayOf(n)
<1>1. d.deposit \in Nat
  BY DEF Covers, Typed
<1>2. pay \in Nat /\ fee \in Nat /\ pay + fee <= d.deposit
  BY <1>1, ValueNat DEF Lesser
<1> HIDE DEF pay, fee
<1>3. Covers([d EXCEPT !.deposit = @ - (pay + fee), !.finalizedOwed = @ + pay,
                       !.feeAccrued = @ + fee], extra)
  BY <1>2 DEF Covers, Typed, DealFields, Earmarks
<1> QED
  BY <1>3 DEF ChargeTokens, pay, fee
-----------------------------------------------------------------------------
(***************************************************************************)
(* Claims and weeks touch no promise, except that a charged week moves     *)
(* escrow to earnings and fees.                                            *)
(***************************************************************************)
\* Promoting the pending claim, or leaving it, moves no money.
LEMMA PromoteCovers ==
  ASSUME NEW d, NEW t \in Nat, NEW extra \in Nat, Covers(d, extra)
  PROVE  Covers(Promote(d), extra) /\ Covers(PromoteDue(d, t), extra)
  BY DEF Covers, Typed, DealFields, Earmarks, Promote, PromoteDue, Greater

\* Dropping the contested claim moves no money, and keeps the bonds and escrow.
LEMMA VoidClaimsCovers ==
  ASSUME NEW d, NEW extra \in Nat, Covers(d, extra)
  PROVE  /\ Covers(VoidClaims(d), extra)
         /\ Covers([VoidClaims(d) EXCEPT !.disputed = FALSE], extra)
         /\ [VoidClaims(d) EXCEPT !.disputed = FALSE].deposit = d.deposit
  BY DEF Covers, Typed, DealFields, Earmarks, VoidClaims

\* Counting delivered ticks moves no money.
LEMMA RecordDeliveredCovers ==
  ASSUME NEW d, NEW extra \in Nat, Covers(d, extra)
  PROVE  /\ Covers(RecordDelivered(d), extra)
         /\ RecordDelivered(d).deposit = d.deposit
<1> DEFINE delivered == IF d.probeAccepted THEN Greater(d.tokensFinal, TICK_SIZE)
                        ELSE d.tokensFinal
           ticks     == delivered \div TICK_SIZE
<1>1. delivered \in Nat
  BY PriceAssumption DEF Covers, Typed, Greater
<1>2. ticks \in Nat
  BY <1>1, PriceAssumption
<1> HIDE DEF ticks
<1>3. /\ Covers([d EXCEPT !.ticksFinalized = ticks], extra)
      /\ [d EXCEPT !.ticksFinalized = ticks].deposit = d.deposit
  BY <1>2 DEF Covers, Typed, DealFields, Earmarks
<1> QED
  BY <1>3 DEF RecordDelivered, ticks

\* Reporting the tick count to the book moves no money.
LEMMA ReportFinalizedCovers ==
  ASSUME NEW d, NEW extra \in Nat, Covers(d, extra)
  PROVE  Covers(ReportFinalized(d), extra)
  BY DEF Covers, Typed, DealFields, Earmarks, ReportFinalized

\* One week's charge keeps every promise covered.
LEMMA ChargeOneWeekCovers ==
  ASSUME NEW d, NEW extra \in Nat, Covers(d, extra)
  PROVE  Covers(ChargeOneWeek(d), extra)
<1> DEFINE target == (d.weekIndex + 1) * d.tokensPerWeek
           due    == IF target > d.tokensPaid THEN target - d.tokensPaid ELSE 0
           c      == ChargeTokens(d, due)
           mark   == Greater(d.tokensFinal, d.tokensPend)
<1>1. target \in Nat /\ mark \in Nat
  BY DEF Covers, Typed, Greater
<1>2. due \in Nat
  BY <1>1 DEF Covers, Typed
<1>3. Covers(c, extra)
  BY <1>2, ChargeTokensCovers
<1> HIDE DEF target, mark, c
<1>4. Covers([c EXCEPT !.tokensPaid = target, !.weekIndex = @ + 1,
                       !.weekBaseTokens = mark], extra)
  BY <1>1, <1>3 DEF Covers, Typed, DealFields, Earmarks
<1> QED
  BY <1>4 DEF ChargeOneWeek, target, mark, c

\* So does any number of weeks.
LEMMA ChargeWeeksCovers ==
  ASSUME NEW d, NEW target \in Int, NEW extra \in Nat, Covers(d, extra)
  PROVE  Covers(ChargeWeeksThrough(d, target), extra)
<1> DEFINE Step(e) == IF e.weekIndex < target THEN ChargeOneWeek(e) ELSE e
<1>1. ASSUME NEW e, Covers(e, extra) PROVE Covers(Step(e), extra)
  BY <1>1, ChargeOneWeekCovers
<1> HIDE DEF Step
<1>2. Covers(Step(Step(Step(Step(d)))), extra)
  BY <1>1
<1> QED
  BY <1>2 DEF ChargeWeeksThrough, Step

\* Charging the weeks that are due, counting and reporting.
LEMMA SettleBoundariesCovers ==
  ASSUME NEW d, NEW due \in Int, NEW extra \in Nat, Covers(d, extra)
  PROVE  Covers(SettleBoundaries(d, due), extra)
  BY ChargeWeeksCovers, RecordDeliveredCovers, ReportFinalizedCovers DEF SettleBoundaries
-----------------------------------------------------------------------------
(***************************************************************************)
(* Closing.                                                                *)
(***************************************************************************)
\* The probe tick and the buyer's bond join the escrow they refund with.
LEMMA ReleaseCovers ==
  ASSUME NEW d, NEW extra \in Nat, Covers(d, extra)
  PROVE  Covers(ReleaseProbe(d), extra) /\ Covers(ReleaseBuyerBond(d), extra)
  BY DEF Covers, Typed, DealFields, Earmarks, ReleaseProbe, ReleaseBuyerBond

\* The seller's bond goes home out of its own earmark.
LEMMA ReturnBondCovers ==
  ASSUME NEW d, NEW extra \in Nat, Covers(d, extra)
  PROVE  Covers(ReturnBond(d), extra)
<1> DEFINE e == [d EXCEPT !.sellerBond = 0, !.sellerBondFunded = FALSE]
<1>1. Covers(e, extra + d.sellerBond) /\ d.sellerBond \in Nat
  BY DEF Covers, Typed, DealFields, Earmarks
<1>2. Covers(PayShell(e, Seller, d.sellerBond), extra)
  BY <1>1, PayShellCovers
<1> QED
  BY <1>2 DEF ReturnBond

\* A forfeit is clamped to the bonds it is taken from.
LEMMA ForfeitBondsCovers ==
  ASSUME NEW d, NEW x \in Nat, NEW y \in Nat, NEW extra \in Nat, Covers(d, extra)
  PROVE  Covers(ForfeitBonds(d, x, y), extra)
<1> DEFINE b == Lesser(x, d.buyerBond)
           s == Lesser(y, d.sellerBond)
           e == [d EXCEPT !.buyerBond = @ - b, !.sellerBond = @ - s]
<1>1. b \in Nat /\ s \in Nat /\ b <= d.buyerBond /\ s <= d.sellerBond
  BY DEF Covers, Typed, Lesser
<1> HIDE DEF b, s
<1>2. Covers(e, extra + (b + s))
  BY <1>1 DEF Covers, Typed, DealFields, Earmarks
<1>3. Covers(BurnShell(e, b + s), extra)
  BY <1>1, <1>2, BurnShellCovers
<1> QED
  BY <1>3 DEF ForfeitBonds, b, s

\* Accrued fees split into the seller's rebate and the burn.
LEMMA SettleFeesCovers ==
  ASSUME NEW d, NEW clean \in BOOLEAN, NEW extra \in Nat, Covers(d, extra)
  PROVE  Covers(SettleFees(d, clean), extra)
<1> DEFINE rebate == IF clean /\ ~d.everDisputed
                     THEN Lesser(Rebate(d.ticksFinalized), d.feeAccrued) ELSE 0
           e      == [d EXCEPT !.finalizedOwed = @ + rebate, !.feeAccrued = 0]
<1>1. d.ticksFinalized \in Nat /\ d.feeAccrued \in Nat
  BY DEF Covers, Typed
<1>2. Rebate(d.ticksFinalized) \in Nat
  BY <1>1, RebateNat
<1>3. rebate \in Nat /\ rebate <= d.feeAccrued
  BY <1>1, <1>2 DEF Lesser
<1> HIDE DEF rebate
<1>4. Covers(e, extra + (d.feeAccrued - rebate)) /\ d.feeAccrued - rebate \in Nat
  BY <1>1, <1>3 DEF Covers, Typed, DealFields, Earmarks
<1>5. Covers(BurnShell(e, d.feeAccrued - rebate), extra)
  BY <1>4, BurnShellCovers
<1>6. Covers(ReportFinalized(BurnShell(e, d.feeAccrued - rebate)), extra)
  BY <1>5, ReportFinalizedCovers
<1> QED
  BY <1>6 DEF SettleFees, rebate

\* Paying a balance out to its last unit leaves a typed storage.
LEMMA SweepTyped ==
  ASSUME NEW d, NEW n, Typed(d)
  PROVE  Typed(PayShell(d, n, d.balance)) /\ Typed(Die(PayShell(d, n, d.balance)))
<1>1. Credit(d.got, n, d.balance) \in [Notes -> Nat]
  BY CreditType DEF Typed
<1> QED
  BY <1>1 DEF Typed, DealFields, PayShell, Die

\* The last payout: what is owed, then the residue.
LEMMA PayOwedAndDieTyped ==
  ASSUME NEW d, Covers(d, 0)
  PROVE  Gone(PayOwedAndDie(d))
<1> DEFINE e == [d EXCEPT !.finalizedOwed = 0]
           paid == PayShell(e, Seller, d.finalizedOwed)
<1>1. Covers(e, 0 + d.finalizedOwed) /\ d.finalizedOwed \in Nat
  BY DEF Covers, Typed, DealFields, Earmarks
<1>2. Covers(paid, 0)
  BY <1>1, PayShellCovers
<1> HIDE DEF paid
<1>3. Typed(Die(PayShell(paid, Seller, paid.balance))) /\ Typed(PayShell(paid, Seller, paid.balance))
  BY <1>2, SweepTyped DEF Covers
<1>4. ~Die(PayShell(paid, Seller, paid.balance)).alive
  BY <1>3 DEF Die, Typed, DealFields
<1> QED
  BY <1>3, <1>4 DEF PayOwedAndDie, paid, Gone

\* Refunding no more than the escrow and the buyer's bond closes safely.
LEMMA RefundAndDieEnds ==
  ASSUME NEW d, NEW clean \in BOOLEAN, NEW refund \in Nat, Covers(d, 0),
         refund <= d.deposit + d.buyerBond
  PROVE  Gone(RefundAndDie(d, clean, refund))
<1> DEFINE moved == [d EXCEPT !.deposit = 0, !.buyerBond = 0, !.opened = FALSE,
                              !.finalizedOwed = @ + d.sellerBond, !.sellerBond = 0]
<1>1. Covers(moved, 0 + refund)
  BY DEF Covers, Typed, DealFields, Earmarks
<1> HIDE DEF moved
<1>2. Covers(SettleFees(moved, clean), 0 + refund)
  BY <1>1, SettleFeesCovers
<1>3. Covers(PayShell(SettleFees(moved, clean), d.buyer, refund), 0)
  BY <1>2, PayShellCovers
<1> QED
  BY <1>3, PayOwedAndDieTyped DEF RefundAndDie, moved

\* A clean close is safe.
LEMMA CloseCleanEnds == ASSUME NEW d, Covers(d, 0) PROVE Gone(CloseClean(d))
<1> DEFINE c == RecordDelivered(ReleaseBuyerBond(ReleaseProbe(d)))
<1>1. Covers(c, 0)
  BY ReleaseCovers, RecordDeliveredCovers
<1> HIDE DEF c
<1>2. c.deposit \in Nat /\ c.deposit <= c.deposit + c.buyerBond
  BY <1>1 DEF Covers, Typed
<1> QED
  BY <1>1, <1>2, RefundAndDieEnds DEF CloseClean, c

\* Paying the trusted claims and closing is safe.
LEMMA PayFinalAndCloseEnds == ASSUME NEW d, Covers(d, 0) PROVE Gone(PayFinalAndClose(d))
<1> DEFINE owed == IF ~IsSubscription(d) /\ d.tokensFinal > d.tokensPaid
                   THEN d.tokensFinal - d.tokensPaid ELSE 0
           paid == ChargeTokens(d, owed)
           mark == IF owed > 0 THEN d.tokensFinal ELSE paid.tokensPaid
<1>1. owed \in Nat
  BY DEF Covers, Typed
<1> HIDE DEF owed
<1>2. Covers(paid, 0)
  BY <1>1, ChargeTokensCovers
<1>3. mark \in Nat
  BY <1>2 DEF Covers, Typed
<1> HIDE DEF paid, mark
<1>4. Covers([paid EXCEPT !.tokensPaid = mark], 0)
  BY <1>2, <1>3 DEF Covers, Typed, DealFields, Earmarks
<1> QED
  BY <1>4, CloseCleanEnds DEF PayFinalAndClose, owed, paid, mark

\* The stake of a dispute is a natural number.
LEMMA DisputeStakeNat == ASSUME NEW d, Typed(d) PROVE DisputeStake(d) \in Nat
<1> DEFINE n == IF d.tokensPend > ClaimBase(d) THEN d.tokensPend - ClaimBase(d) ELSE 0
<1>1. ClaimBase(d) \in Nat
  BY DEF Typed, ClaimBase
<1>2. n \in Nat
  BY <1>1 DEF Typed
<1>3. ClaimedUnpaidValue(d) \in Nat
  BY <1>2, ValueNat DEF ClaimedUnpaidValue
<1> QED
  BY <1>3, PriceAssumption DEF DisputeStake, BondAmount, Lesser, Greater, Typed

\* What a dispute refunds is at most the escrow.
LEMMA RefundableBound ==
  ASSUME NEW d, Typed(d)
  PROVE  Refundable(d) \in Nat /\ Refundable(d) <= d.deposit
<1> DEFINE started   == WeeksStartedAt(d, d.disputeTime)
           unstarted == IF d.subWeeks > started THEN d.subWeeks - started ELSE 0
           n         == unstarted * d.tokensPerWeek
<1>1. d.disputeTime \in Nat /\ d.subWeeks \in Nat /\ d.tokensPerWeek \in Nat /\ d.deposit \in Nat
  BY TimeAssumption DEF Typed
<1>2. started \in Int
  BY <1>1, WeeksInt
<1> HIDE DEF started
<1>3. unstarted \in Nat
  BY <1>1, <1>2
<1> HIDE DEF unstarted
<1>4. n \in Nat
  BY <1>1, <1>3
<1> HIDE DEF n
<1>5. PayOf(n) + FeeOf(n) \in Nat
  BY <1>4, ValueNat
<1> QED
  BY <1>1, <1>5 DEF Refundable, Lesser, started, unstarted, n

\* Settling a dispute is safe, whatever the stakes.
LEMMA SettleTrustedAndCloseEnds ==
  ASSUME NEW d, NEW x \in Nat, NEW y \in Nat, Covers(d, 0)
  PROVE  Gone(SettleTrustedAndClose(d, x, y))
<1> DEFINE weeks   == ChargeWeeksThrough(ReleaseProbe(d), WeeksElapsedAt(d, d.disputeTime))
           base    == ClaimBase(weeks)
           owed    == IF weeks.tokensFinal > base THEN weeks.tokensFinal - base ELSE 0
           charged == RecordDelivered(ChargeTokens(weeks, owed))
           mark    == Greater(charged.tokensPaid, weeks.tokensFinal)
           trusted == [charged EXCEPT !.tokensPaid = mark]
           fined   == ForfeitBonds(trusted, x, y)
           refund  == Refundable(fined)
           burnt   == BurnShell(fined, fined.deposit - refund)
<1>1. WeeksElapsedAt(d, d.disputeTime) \in Int
  BY WeeksInt DEF Covers, Typed
<1>2. Covers(weeks, 0)
  BY <1>1, ReleaseCovers, ChargeWeeksCovers
<1> HIDE DEF weeks
<1>3. base \in Nat
  BY <1>2 DEF ClaimBase, Covers, Typed
<1> HIDE DEF base
<1>4. owed \in Nat
  BY <1>2, <1>3 DEF Covers, Typed
<1> HIDE DEF owed
<1>5. Covers(charged, 0)
  BY <1>2, <1>4, ChargeTokensCovers, RecordDeliveredCovers
<1> HIDE DEF charged
<1>6. mark \in Nat
  BY <1>2, <1>5 DEF Covers, Typed, Greater
<1> HIDE DEF mark
<1>7. Covers(trusted, 0)
  BY <1>5, <1>6 DEF Covers, Typed, DealFields, Earmarks
<1> HIDE DEF trusted
<1>8. Covers(fined, 0)
  BY <1>7, ForfeitBondsCovers
<1> HIDE DEF fined
<1>9. refund \in Nat /\ refund <= fined.deposit
  BY <1>8, RefundableBound DEF Covers
<1> HIDE DEF refund
\* The unrefunded part of the escrow is burned before the escrow is closed out.
<1>10. Gone(RefundAndDie(burnt, FALSE, refund + fined.buyerBond))
  <2> DEFINE gone  == [burnt EXCEPT !.deposit = 0, !.buyerBond = 0, !.opened = FALSE,
                                  !.finalizedOwed = @ + burnt.sellerBond, !.sellerBond = 0]
             back  == refund + fined.buyerBond
  <2>1. back \in Nat /\ 0 + back \in Nat
    BY <1>8, <1>9 DEF Covers, Typed
  <2>2. Covers(gone, 0 + back)
    <3>1. Typed(burnt)
      BY <1>8, <1>9 DEF Covers, Typed, DealFields, Earmarks, BurnShell
    <3>2. /\ burnt.balance = fined.balance - (fined.deposit - refund)
          /\ burnt.finalizedOwed = fined.finalizedOwed /\ burnt.feeAccrued = fined.feeAccrued
          /\ burnt.sellerBond = fined.sellerBond /\ burnt.probeTick = fined.probeTick
      BY <1>8 DEF Covers, Typed, DealFields, BurnShell
    <3> HIDE DEF burnt
    <3>3. Typed(gone)
      BY <3>1 DEF Typed, DealFields
    <3>4. Earmarks(gone) + (0 + back) <= gone.balance
      BY <3>1, <3>2, <1>8, <1>9 DEF Covers, Typed, DealFields, Earmarks
    <3> QED
      BY <3>3, <3>4 DEF Covers
  <2> HIDE DEF gone, back
  <2>3. Covers(SettleFees(gone, FALSE), 0 + back)
    BY <2>1, <2>2, SettleFeesCovers, Zenon
  <2>4. Covers(PayShell(SettleFees(gone, FALSE), burnt.buyer, back), 0)
    BY <2>1, <2>3, PayShellCovers
  <2>5. Gone(PayOwedAndDie(PayShell(SettleFees(gone, FALSE), burnt.buyer, back)))
    BY <2>4, PayOwedAndDieTyped
  <2> QED
    BY <2>5 DEF RefundAndDie, gone, back
<1> QED
  BY <1>10 DEF SettleTrustedAndClose, weeks, base, owed, charged, mark, trusted, fined, refund
-----------------------------------------------------------------------------
(***************************************************************************)
(* The public functions preserve the invariant.                            *)
(***************************************************************************)
\* How the three forms of the invariant relate.
LEMMA SafeForms ==
  ASSUME NEW d
  PROVE  /\ Safe(d) /\ d.alive => Covers(d, 0)
         /\ Covers(d, 0) => Safe(d)
         /\ Gone(d) => Safe(d)
<1>1. Typed(d) => Earmarks(d) \in Nat /\ d.balance \in Nat
  BY DEF Typed, Earmarks
<1> QED
  BY <1>1 DEF Safe, Covers, Gone

\* The price of a tick with its fee, and a bond, are natural numbers.
LEMMA UnitNat == Unit \in Nat /\ Unit > 0 /\ BondAmount \in Nat
<1>1. P \in Nat /\ P > 0
  BY PriceAssumption
<1>2. Fee(P) \in Nat
  BY <1>1, FeeNat
<1> QED
  BY <1>1, <1>2 DEF Unit, BondAmount

\* A hand-over is either recorded against the money that came with it or
\* sent straight back.
LEMMA FundFromOrderBookSafe ==
  ASSUME NEW d, Covers(d, 0), NEW t \in Nat, NEW b \in Buyers, NEW paid \in Nat,
         NEW sub \in BOOLEAN
  PROVE  Safe(FundFromOrderBookEffect(d, t, b, paid, sub))
<1> DEFINE got    == Receive(d, b, paid)
           held   == [got EXCEPT !.fills = @ + 1]
           bond   == IF sub THEN BondAmount ELSE 0
           escrow == paid - bond
           bonded == [held EXCEPT !.buyerBond = bond, !.buyerBondFunded = @ \/ bond > 0]
           rec    == RecordFunding(bonded, t, b, escrow)
           ticks  == escrow \div Unit
           tokens == ticks * TICK_SIZE
           shaped == RecordDealShape(rec, t, sub, ticks)
<1>1. Covers(got, 0 + paid)
  BY ReceiveCovers
<1> HIDE DEF got
<1>2. Covers(held, 0 + paid)
  BY <1>1 DEF Covers, Typed, DealFields, Earmarks
<1> HIDE DEF held
<1>3. bond \in Nat
  BY UnitNat
<1>4. CASE ~(d.funded \/ paid < bond \/ escrow < 2 * Unit \/ escrow > MaxTicks * Unit)
  <2>1. escrow \in Nat
    BY <1>3, <1>4
  <2>2. ticks \in Nat
    BY <2>1, UnitNat
  <2>3. tokens \in Nat
    BY <2>2, PriceAssumption
  <2> DEFINE perWeek == IF sub THEN tokens \div SUB_WEEKS ELSE tokens
             weeks   == IF sub THEN SUB_WEEKS ELSE 0
             flag    == held.buyerBondFunded \/ bond > 0
  <2>4. perWeek \in Nat /\ weeks \in {0, SUB_WEEKS}
    BY <2>3, TimeAssumption
  <2>5. flag \in BOOLEAN
    OBVIOUS
  <2>6. bond + escrow = paid
    BY <1>3
  <2> HIDE DEF escrow, ticks, tokens, perWeek, weeks, bond, flag
  <2> DEFINE bonded2 == [held EXCEPT !.buyerBond = bond, !.buyerBondFunded = flag]
             rec2    == [bonded2 EXCEPT !.buyer = b, !.deposit = escrow, !.funded = TRUE,
                                        !.offerPosted = FALSE, !.fundedTime = t]
  <2>7. Typed(bonded2) /\ bonded2.buyerBond = bond /\ bonded2.balance = held.balance
        /\ bonded2.finalizedOwed = held.finalizedOwed /\ bonded2.feeAccrued = held.feeAccrued
        /\ bonded2.sellerBond = held.sellerBond /\ bonded2.probeTick = held.probeTick
    BY <1>2, <1>3, <2>5 DEF Covers, Typed, DealFields
  <2> HIDE DEF bonded2
  <2>8. Typed(rec2) /\ rec2.deposit = escrow /\ rec2.buyerBond = bond
        /\ rec2.balance = held.balance
        /\ rec2.finalizedOwed = held.finalizedOwed /\ rec2.feeAccrued = held.feeAccrued
        /\ rec2.sellerBond = held.sellerBond /\ rec2.probeTick = held.probeTick
    BY <2>1, <2>7 DEF Typed, DealFields
  <2>9. Covers(rec2, 0)
    BY <1>2, <1>3, <2>1, <2>6, <2>8 DEF Covers, Typed, Earmarks
  <2> HIDE DEF rec2
  <2>10. Covers([rec2 EXCEPT !.subWeeks = weeks, !.weekIndex = 0, !.periodStart = t,
                   !.tokensPerWeek = perWeek, !.fundedTokens = tokens,
                   !.lastClaimTime = t], 0)
    BY <2>3, <2>4, <2>9 DEF Covers, Typed, DealFields, Earmarks
  <2>11. Covers(shaped, 0)
    BY <2>10 DEF RecordDealShape, RecordFunding, rec2, bonded2, flag, weeks, perWeek, tokens
  <2>12. Safe(shaped)
    BY <2>11, SafeForms
  <2> QED
    BY <1>4, <2>12 DEF FundFromOrderBookEffect, held, got, bond, escrow, ticks
<1>5. CASE d.funded \/ paid < bond \/ escrow < 2 * Unit \/ escrow > MaxTicks * Unit
  <2>1. Covers(PayShell(held, b, paid), 0)
    BY <1>2, PayShellCovers
  <2>2. Safe(PayShell(held, b, paid))
    BY <2>1, SafeForms
  <2> QED
    BY <1>5, <2>2 DEF FundFromOrderBookEffect, held, got
<1> QED
  BY <1>4, <1>5

\* Listing and delisting move no money.
LEMMA ListingSafe ==
  ASSUME NEW d, Covers(d, 0)
  PROVE  Safe(PostFromNoteEffect(d)) /\ Safe(OnSellClosedEffect(d))
<1> DEFINE on  == d.offerPosted \/ ~d.funded
           off == d.funded /\ d.offerPosted
<1>1. on \in BOOLEAN /\ off \in BOOLEAN
  OBVIOUS
<1> HIDE DEF on, off
<1>2. Covers([d EXCEPT !.authorized = TRUE, !.offerPosted = on], 0)
  BY <1>1 DEF Covers, Typed, DealFields, Earmarks
<1>3. Covers([d EXCEPT !.offerPosted = off], 0)
  BY <1>1 DEF Covers, Typed, DealFields, Earmarks
<1> QED
  BY <1>2, <1>3, SafeForms DEF PostFromNoteEffect, OnSellClosedEffect, on, off

\* Dying after a sweep is safe.
LEMMA SweepEnds == ASSUME NEW d, Typed(d) PROVE Gone(Die(PayShell(d, Seller, d.balance)))
<1> DEFINE e == PayShell(d, Seller, d.balance)
<1>1. Typed(e)
  BY SweepTyped
<1> HIDE DEF e
<1>2. Gone(Die(e))
  BY <1>1 DEF Gone, Die, Typed, DealFields
<1> QED
  BY <1>2 DEF e

\* Withdrawing an idle deal returns the bond and dies.
LEMMA CloseEnds == ASSUME NEW d, Covers(d, 0) PROVE Gone(CloseEffect(d))
<1>1. Typed(ReturnBond(d))
  BY ReturnBondCovers DEF Covers
<1> QED
  BY <1>1, SweepEnds DEF CloseEffect

\* A posted bond is earmarked out of the money that came with it.
LEMMA BondsSafe ==
  ASSUME NEW d, Covers(d, 0), NEW amount \in Nat, amount >= BondAmount
  PROVE  Safe(FundDealEffect(d, amount)) /\ Safe(FundBuyerBondEffect(d, amount))
<1>1. amount - BondAmount \in Nat /\ BondAmount \in Nat
  BY UnitNat
<1>2. Safe(FundDealEffect(d, amount))
  <2> DEFINE r == Receive(d, Seller, amount)
             s == [r EXCEPT !.sellerBond = BondAmount, !.sellerBondFunded = TRUE]
  <2>1. Covers(r, 0 + amount)
    BY ReceiveCovers
  <2> HIDE DEF r
  <2>2. Covers(s, 0 + (amount - BondAmount))
    BY <1>1, <2>1 DEF Covers, Typed, DealFields, Earmarks
  <2> HIDE DEF s
  <2>3. Covers(PayShell(s, Seller, amount - BondAmount), 0)
    BY <1>1, <2>2, PayShellCovers
  <2> QED
    BY <2>3, SafeForms DEF FundDealEffect, r, s
<1>3. Safe(FundBuyerBondEffect(d, amount))
  <2> DEFINE r == Receive(d, d.buyer, amount)
             s == [r EXCEPT !.buyerBond = BondAmount, !.buyerBondFunded = TRUE]
  <2>1. Covers(r, 0 + amount)
    BY ReceiveCovers
  <2> HIDE DEF r
  <2>2. Covers(s, 0 + (amount - BondAmount))
    BY <1>1, <2>1 DEF Covers, Typed, DealFields, Earmarks
  <2> HIDE DEF s
  <2>3. Covers(PayShell(s, d.buyer, amount - BondAmount), 0)
    BY <1>1, <2>2, PayShellCovers
  <2> QED
    BY <2>3, SafeForms DEF FundBuyerBondEffect, r, s
<1> QED
  BY <1>2, <1>3

\* Opening moves one tick of escrow into the probe.
LEMMA OpenSafe ==
  ASSUME NEW d, Covers(d, 0), NEW t \in Nat, d.deposit >= P
  PROVE  Safe(OpenEffect(d, t))
<1>1. Covers(OpenEffect(d, t), 0)
  BY PriceAssumption DEF Covers, Typed, DealFields, Earmarks, OpenEffect
<1> QED
  BY <1>1, SafeForms

\* Accepting the probe pays it to the seller and takes its fee.
LEMMA AcceptProbeSafe ==
  ASSUME NEW d, Covers(d, 0), NEW t \in Nat
  PROVE  Safe(AcceptProbeEffect(d, t))
<1> DEFINE fee == Lesser(Fee(P), d.deposit)
<1>1. Fee(P) \in Nat
  BY PriceAssumption, FeeNat
<1>2. fee \in Nat /\ fee <= d.deposit
  BY <1>1 DEF Covers, Typed, Lesser
<1> HIDE DEF fee
<1> DEFINE e1 == [d EXCEPT !.finalizedOwed = @ + d.probeTick, !.feeAccrued = @ + fee,
                !.deposit = @ - fee, !.probeTick = 0, !.probeAccepted = TRUE]
           e2 == [e1 EXCEPT !.periodStart = t, !.tokensPaid = TICK_SIZE,
                !.tokensFinal = TICK_SIZE, !.tokensPend = TICK_SIZE]
           e  == [e2 EXCEPT !.weekBaseTokens = 0, !.ticksFinalized = 1, !.lastClaimTime = t]
<1>3. Covers(e1, 0)
  BY <1>2 DEF Covers, Typed, DealFields, Earmarks
<1> HIDE DEF e1
<1>4. Covers(e2, 0)
  BY <1>3, PriceAssumption DEF Covers, Typed, DealFields, Earmarks
<1> HIDE DEF e2
<1>5. Covers(e, 0)
  BY <1>4 DEF Covers, Typed, DealFields, Earmarks
<1>6. Safe(e)
  BY <1>5, SafeForms
<1> QED
  BY <1>6 DEF AcceptProbeEffect, e, e1, e2, fee

\* A claim moves no money beyond the weeks it finds due.
LEMMA ClaimTokensSafe ==
  ASSUME NEW d, Covers(d, 0), NEW t \in Nat, NEW c \in Nat
  PROVE  Safe(ClaimTokensEffect(d, t, c))
<1>1. WeeksElapsedAt(d, t) \in Int
  BY WeeksInt DEF Covers
<1>2. Covers(BeforeClaim(d, t), 0)
  BY <1>1, SettleBoundariesCovers, PromoteCovers DEF BeforeClaim
<1>3. Covers([BeforeClaim(d, t) EXCEPT !.tokensPend = c, !.lastClaimTime = t], 0)
  BY <1>2 DEF Covers, Typed, DealFields, Earmarks
<1> QED
  BY <1>3, SafeForms DEF ClaimTokensEffect

\* finalize and settleWeek, whether or not they close the deal.
LEMMA SettlingSafe ==
  ASSUME NEW d, Covers(d, 0), NEW t \in Nat
  PROVE  Safe(FinalizeEffect(d, t)) /\ Safe(SettleWeekEffect(d, t))
<1>1. Safe(FinalizeEffect(d, t))
  <2>1. Covers(PromoteDue(d, t), 0)
    BY PromoteCovers
  <2> QED
    BY <2>1, PayFinalAndCloseEnds, SafeForms DEF FinalizeEffect
<1>2. Safe(SettleWeekEffect(d, t))
  <2> DEFINE s == SettleBoundaries(d, WeeksElapsedAt(d, t))
  <2>1. WeeksElapsedAt(d, t) \in Int
    BY WeeksInt DEF Covers
  <2>2. Covers(s, 0)
    BY <2>1, SettleBoundariesCovers
  <2> HIDE DEF s
  <2>3. Covers(PromoteDue(s, t), 0)
    BY <2>2, PromoteCovers
  <2> QED
    BY <2>2, <2>3, PayFinalAndCloseEnds, SafeForms DEF SettleWeekEffect, s
<1> QED
  BY <1>1, <1>2

\* The buyer's exit, during the trial and after it.
LEMMA StopEnds ==
  ASSUME NEW d, Covers(d, 0), NEW t \in Nat
  PROVE  Gone(StopEffect(d, t))
<1>1. CASE d.probeAccepted
  <2> DEFINE due     == PromoteDue(d, t)
             settled == IF IsSubscription(due) THEN due ELSE ForfeitBonds(Promote(due), P, 0)
  <2>1. Covers(due, 0)
    BY PromoteCovers
  <2> HIDE DEF due
  <2>2. Covers(Promote(due), 0)
    BY <2>1, PromoteCovers
  <2>3. Covers(settled, 0)
    BY <2>1, <2>2, ForfeitBondsCovers, PriceAssumption
  <2> HIDE DEF settled
  <2>4. WeeksStartedAt(d, t) \in Int
    BY WeeksInt DEF Covers
  <2>5. Covers(ChargeWeeksThrough(settled, WeeksStartedAt(d, t)), 0)
    BY <2>3, <2>4, ChargeWeeksCovers
  <2>6. Gone(PayFinalAndClose(ChargeWeeksThrough(settled, WeeksStartedAt(d, t))))
    BY <2>5, PayFinalAndCloseEnds
  <2> QED
    BY <1>1, <2>6 DEF StopEffect, settled, due
<1>2. CASE ~d.probeAccepted
  <2> DEFINE bondBurn == Lesser(d.probeTick, d.sellerBond)
             r        == ReleaseBuyerBond(d)
             cleared  == [r EXCEPT !.finalizedOwed = @ + (d.sellerBond - bondBurn),
                                   !.sellerBond = 0, !.probeTick = 0, !.deposit = 0,
                                   !.opened = FALSE]
             burn     == d.probeTick + bondBurn
  <2>1. bondBurn \in Nat /\ bondBurn <= d.sellerBond /\ burn \in Nat
    BY DEF Covers, Typed, Lesser
  <2>2. Covers(r, 0) /\ r.sellerBond = d.sellerBond /\ r.probeTick = d.probeTick
    <3>1. Covers(r, 0)
      BY ReleaseCovers
    <3>2. r.sellerBond = d.sellerBond /\ r.probeTick = d.probeTick
      BY DEF Covers, Typed, DealFields, ReleaseBuyerBond
    <3> QED
      BY <3>1, <3>2
  <2> HIDE DEF bondBurn, r
  <2>3. r.deposit \in Nat
    BY <2>2 DEF Covers, Typed
  <2>4. Covers(cleared, (0 + r.deposit) + burn)
    <3>1. r.finalizedOwed + (d.sellerBond - bondBurn) \in Nat
      BY <2>1, <2>2 DEF Covers, Typed
    <3>2. Typed(cleared)
      BY <2>2, <3>1 DEF Covers, Typed, DealFields
    <3>3. cleared.finalizedOwed = r.finalizedOwed + (d.sellerBond - bondBurn)
          /\ cleared.sellerBond = 0 /\ cleared.probeTick = 0 /\ cleared.deposit = 0
          /\ cleared.balance = r.balance /\ cleared.feeAccrued = r.feeAccrued
          /\ cleared.buyerBond = r.buyerBond
      BY <2>2 DEF Covers, Typed, DealFields
    <3> HIDE DEF cleared
    <3> QED
      BY <2>1, <2>2, <3>2, <3>3 DEF Covers, Typed, Earmarks
  <2> HIDE DEF cleared, burn
  <2>5. Covers(BurnShell(cleared, burn), 0 + r.deposit)
    BY <2>1, <2>3, <2>4, BurnShellCovers
  <2>6. Covers(PayShell(BurnShell(cleared, burn), d.buyer, r.deposit), 0)
    BY <2>3, <2>5, PayShellCovers
  <2>7. Gone(PayOwedAndDie(PayShell(BurnShell(cleared, burn), d.buyer, r.deposit)))
    BY <2>6, PayOwedAndDieTyped
  <2>8. Gone(StopDuringProbe(d))
    BY <2>7 DEF StopDuringProbe, cleared, burn, r, bondBurn
  <2> QED
    BY <1>2, <2>8 DEF StopEffect
<1> QED
  BY <1>1, <1>2

\* The seller's exit.
LEMMA SellerStopEnds ==
  ASSUME NEW d, Covers(d, 0), NEW t \in Nat
  PROVE  Gone(SellerStopEffect(d, t))
<1> DEFINE trial   == IF d.probeAccepted THEN d ELSE ForfeitBonds(d, 0, P)
           due     == PromoteDue(trial, t)
           dropped == [due EXCEPT !.tokensPend = due.tokensFinal]
           settled == IF d.probeAccepted /\ ~IsSubscription(d)
                      THEN ForfeitBonds(dropped, 0, P) ELSE due
<1>1. Covers(trial, 0)
  BY ForfeitBondsCovers, PriceAssumption
<1> HIDE DEF trial
<1>2. Covers(due, 0)
  BY <1>1, PromoteCovers
<1> HIDE DEF due
<1>3. Covers(dropped, 0)
  BY <1>2 DEF Covers, Typed, DealFields, Earmarks
<1> HIDE DEF dropped
<1>4. Covers(settled, 0)
  BY <1>2, <1>3, ForfeitBondsCovers, PriceAssumption
<1> HIDE DEF settled
<1>5. WeeksElapsedAt(d, t) \in Int
  BY WeeksInt DEF Covers
<1>6. Covers(ChargeWeeksThrough(settled, WeeksElapsedAt(d, t)), 0)
  BY <1>4, <1>5, ChargeWeeksCovers
<1>7. Gone(PayFinalAndClose(ChargeWeeksThrough(settled, WeeksElapsedAt(d, t))))
  BY <1>6, PayFinalAndCloseEnds
<1> QED
  BY <1>7 DEF SellerStopEffect, settled, dropped, due, trial

\* Raising a dispute only freezes the deal.
LEMMA DisputeSafe ==
  ASSUME NEW d, Covers(d, 0), NEW t \in Nat
  PROVE  Safe(DisputeEffect(d, t))
<1>1. Covers(DisputeEffect(d, t), 0)
  BY DEF Covers, Typed, DealFields, Earmarks, DisputeEffect
<1> QED
  BY <1>1, SafeForms

\* The seller concedes.
LEMMA ReleaseDisputeEnds == ASSUME NEW d, Covers(d, 0) PROVE Gone(ReleaseDisputeEffect(d))
<1> DEFINE weeks == ChargeWeeksThrough(d, WeeksElapsedAt(d, d.disputeTime))
           void  == [VoidClaims(weeks) EXCEPT !.disputed = FALSE]
<1>1. WeeksElapsedAt(d, d.disputeTime) \in Int
  BY WeeksInt DEF Covers, Typed
<1>2. Covers(weeks, 0)
  BY <1>1, ChargeWeeksCovers
<1> HIDE DEF weeks
<1>3. Covers(void, 0)
  BY <1>2, VoidClaimsCovers
<1> HIDE DEF void
<1>4. DisputeStake(void) \in Nat /\ P \in Nat
  BY <1>3, DisputeStakeNat, PriceAssumption DEF Covers
<1>5. /\ Gone(SettleTrustedAndClose(void, DisputeStake(void), 0))
      /\ Gone(SettleTrustedAndClose(void, P, P))
  BY <1>3, <1>4, SettleTrustedAndCloseEnds
<1> QED
  BY <1>5 DEF ReleaseDisputeEffect, void, weeks

\* Nobody concedes: the burn of the pending tick is clamped to the escrow.
LEMMA ResolveDisputeTimeoutEnds ==
  ASSUME NEW d, Covers(d, 0)
  PROVE  Gone(ResolveDisputeTimeoutEffect(d))
<1> DEFINE weeks    == ChargeWeeksThrough(d, WeeksElapsedAt(d, d.disputeTime))
           void     == [VoidClaims(weeks) EXCEPT !.disputed = FALSE]
           stake    == DisputeStake(weeks)
           pending  == IF d.tokensPend > d.tokensFinal THEN d.tokensPend - d.tokensFinal ELSE 0
           burnPend == Lesser(PayOf(pending) + FeeOf(pending), d.deposit)
           cut      == [void EXCEPT !.deposit = @ - burnPend]
           burnt    == BurnShell(cut, burnPend)
<1>1. WeeksElapsedAt(d, d.disputeTime) \in Int
  BY WeeksInt DEF Covers, Typed
<1>2. Covers(weeks, 0)
  BY <1>1, ChargeWeeksCovers
<1>3. ~IsSubscription(d) => weeks = d
  BY DEF ChargeWeeksThrough
<1> HIDE DEF weeks
<1>4. Covers(void, 0) /\ void.deposit = weeks.deposit
  BY <1>2, VoidClaimsCovers
<1> HIDE DEF void
<1>5. stake \in Nat
  BY <1>2, DisputeStakeNat DEF Covers
<1>6. CASE IsSubscription(d)
  <2>1. Gone(SettleTrustedAndClose(void, stake, stake))
    BY <1>4, <1>5, SettleTrustedAndCloseEnds
  <2> QED
    BY <1>6, <2>1 DEF ResolveDisputeTimeoutEffect, void, weeks
<1>7. CASE ~IsSubscription(d)
  <2>1. pending \in Nat
    BY DEF Covers, Typed
  <2> HIDE DEF pending
  <2>2. PayOf(pending) + FeeOf(pending) \in Nat
    BY <2>1, ValueNat
  <2>3. burnPend \in Nat /\ burnPend <= void.deposit
    BY <2>2, <1>3, <1>4, <1>7 DEF Lesser, Covers, Typed
  <2> HIDE DEF burnPend
  <2>4. Covers(cut, 0 + burnPend)
    BY <1>4, <2>3 DEF Covers, Typed, DealFields, Earmarks
  <2> HIDE DEF cut
  <2>5. Covers(burnt, 0)
    BY <2>3, <2>4, BurnShellCovers
  <2> HIDE DEF burnt
  <2>6. 2 * P \in Nat
    BY PriceAssumption
  <2>7. Gone(SettleTrustedAndClose(burnt, 2 * P, 2 * P))
    BY <2>5, <2>6, SettleTrustedAndCloseEnds
  <2> QED
    BY <1>7, <2>7 DEF ResolveDisputeTimeoutEffect, burnt, cut, burnPend, pending, void, weeks
<1> QED
  BY <1>6, <1>7

\* The no-show refund pays both parties out of their own earmarks and burns
\* whatever is left, so nothing is promised afterwards but what was owed.
LEMMA CleanupUnopenedSafe ==
  ASSUME NEW d, Covers(d, 0), d.finalizedOwed + d.feeAccrued + d.probeTick = 0
  PROVE  Safe(CleanupUnopenedEffect(d))
<1> DEFINE r       == ReleaseBuyerBond(d)
           cleared == [r EXCEPT !.deposit = 0, !.sellerBond = 0, !.funded = FALSE,
                                !.sellerBondFunded = FALSE, !.buyerBondFunded = FALSE,
                                !.offerPosted = FALSE]
           paid1   == PayShell(cleared, d.buyer, r.deposit)
           paid    == PayShell(paid1, Seller, d.sellerBond)
<1>1. Covers(r, 0)
  BY ReleaseCovers
<1>2. /\ r.sellerBond = d.sellerBond /\ r.buyerBond = 0
      /\ r.finalizedOwed + r.feeAccrued + r.probeTick = 0
  BY DEF Covers, Typed, DealFields, ReleaseBuyerBond
<1>3. r.deposit \in Nat /\ d.sellerBond \in Nat
  BY <1>1, <1>2 DEF Covers, Typed
<1> HIDE DEF r
<1>4. Covers(cleared, (0 + d.sellerBond) + r.deposit)
  BY <1>1, <1>2, <1>3 DEF Covers, Typed, DealFields, Earmarks
<1>5. Earmarks(cleared) = 0
  BY <1>1, <1>2 DEF Covers, Typed, DealFields, Earmarks
<1> HIDE DEF cleared
<1>6. Covers(paid1, 0 + d.sellerBond) /\ Earmarks(paid1) = Earmarks(cleared)
  <2>1. Covers(paid1, 0 + d.sellerBond)
    BY <1>3, <1>4, PayShellCovers
  <2>2. Earmarks(paid1) = Earmarks(cleared)
    BY <1>4 DEF Covers, Typed, DealFields, Earmarks, PayShell
  <2> QED
    BY <2>1, <2>2
<1> HIDE DEF paid1
<1>7. Covers(paid, 0) /\ Earmarks(paid) = Earmarks(paid1)
  <2>1. Covers(paid, 0)
    BY <1>3, <1>6, PayShellCovers
  <2>2. Earmarks(paid) = Earmarks(paid1)
    BY <1>6 DEF Covers, Typed, DealFields, Earmarks, PayShell
  <2> QED
    BY <2>1, <2>2
<1> HIDE DEF paid
<1>8. Covers(paid, 0 + paid.balance) /\ paid.balance \in Nat
  BY <1>5, <1>6, <1>7 DEF Covers, Typed
<1>9. Covers(BurnShell(paid, paid.balance), 0)
  BY <1>8, BurnShellCovers
<1> QED
  BY <1>9, SafeForms DEF CleanupUnopenedEffect, paid, paid1, cleared, r

\* Earnings about to be drawn are slack.
LEMMA DrawCovers ==
  ASSUME NEW d, Covers(d, 0), NEW amount \in Nat, amount <= d.finalizedOwed
  PROVE  Covers([d EXCEPT !.finalizedOwed = @ - amount], 0 + amount)
  BY DEF Covers, Typed, DealFields, Earmarks

\* The seller draws earnings mid-life.
LEMMA WithdrawShellSafe ==
  ASSUME NEW d, Covers(d, 0), NEW amount \in Nat, amount <= d.finalizedOwed
  PROVE  Safe(WithdrawShellEffect(d, amount))
<1> DEFINE e    == [d EXCEPT !.finalizedOwed = @ - amount]
           paid == PayShell(e, Seller, amount)
<1>1. Covers(e, 0 + amount)
  BY DrawCovers
<1> HIDE DEF e
<1>2. Covers(paid, 0)
  BY <1>1, PayShellCovers
<1> HIDE DEF paid
<1>3. Gone(Die(PayShell(paid, Seller, paid.balance)))
  BY <1>2, SweepEnds DEF Covers
<1> QED
  BY <1>2, <1>3, SafeForms DEF WithdrawShellEffect, paid, e

\* Destroying an idle deal refunds the buyer first.
LEMMA DestroyEnds == ASSUME NEW d, Covers(d, 0) PROVE Gone(DestroyEffect(d))
<1> DEFINE r      == ReleaseBuyerBond(ReleaseProbe(d))
           e      == [r EXCEPT !.deposit = 0, !.funded = FALSE]
           refund == PayShell(e, d.buyer, r.deposit)
           back   == ReturnBond(IF d.funded THEN refund ELSE d)
<1>1. Covers(r, 0)
  BY ReleaseCovers
<1> HIDE DEF r
<1>2. Covers(e, 0 + r.deposit) /\ r.deposit \in Nat
  BY <1>1 DEF Covers, Typed, DealFields, Earmarks
<1> HIDE DEF e
<1>3. Covers(refund, 0)
  BY <1>2, PayShellCovers
<1> HIDE DEF refund
<1>4. Covers(back, 0)
  BY <1>3, ReturnBondCovers
<1> HIDE DEF back
<1>5. Gone(Die(PayShell(back, Seller, back.balance)))
  BY <1>4, SweepEnds DEF Covers
<1> QED
  BY <1>5 DEF DestroyEffect, back, refund, e, r
-----------------------------------------------------------------------------
(***************************************************************************)
(* What the helpers leave alone.                                           *)
(***************************************************************************)
\* Charging tokens leaves status and claims alone.
LEMMA ChargeTokensSame ==
  ASSUME NEW d, NEW n, Typed(d) PROVE Same(d, ChargeTokens(d, n))
  BY DEF Typed, DealFields, Same, SameStatus, SameClaims, ChargeTokens

\* So does charging one week,
LEMMA ChargeOneWeekSame ==
  ASSUME NEW d, Covers(d, 0) PROVE Same(d, ChargeOneWeek(d))
<1> DEFINE target == (d.weekIndex + 1) * d.tokensPerWeek
           due    == IF target > d.tokensPaid THEN target - d.tokensPaid ELSE 0
           c      == ChargeTokens(d, due)
           mark   == Greater(d.tokensFinal, d.tokensPend)
<1>1. target \in Nat
  BY DEF Covers, Typed
<1> HIDE DEF target
<1>2. due \in Nat
  BY <1>1 DEF Covers, Typed
<1> HIDE DEF due
<1>3. Covers(c, 0)
  BY <1>2, ChargeTokensCovers
<1>4. Same(d, c)
  BY ChargeTokensSame DEF Covers
<1> HIDE DEF mark, c
<1>5. Same(c, [c EXCEPT !.tokensPaid = target, !.weekIndex = @ + 1, !.weekBaseTokens = mark])
  BY <1>3 DEF Covers, Typed, DealFields, Same, SameStatus, SameClaims
<1> QED
  BY <1>4, <1>5 DEF ChargeOneWeek, target, due, mark, c, Same, SameStatus, SameClaims

\* several weeks,
LEMMA ChargeWeeksSame ==
  ASSUME NEW d, NEW target \in Int, Covers(d, 0)
  PROVE  Same(d, ChargeWeeksThrough(d, target))
<1> DEFINE Step(e) == IF e.weekIndex < target THEN ChargeOneWeek(e) ELSE e
           Good(e) == Covers(e, 0) /\ Same(d, e)
<1>1. ASSUME NEW e, Good(e) PROVE Good(Step(e))
  <2>1. CASE e.weekIndex < target
    <3>1. Covers(ChargeOneWeek(e), 0) /\ Same(e, ChargeOneWeek(e))
      BY <1>1, ChargeOneWeekCovers, ChargeOneWeekSame
    <3> QED
      BY <1>1, <2>1, <3>1 DEF Same, SameStatus, SameClaims
  <2>2. CASE ~(e.weekIndex < target)
    BY <1>1, <2>2
  <2> QED
    BY <2>1, <2>2
<1>2. Good(d)
  BY DEF Same, SameStatus, SameClaims
<1> HIDE DEF Step, Good
<1>3. Good(Step(Step(Step(Step(d)))))
  BY <1>1, <1>2
<1> QED
  BY <1>2, <1>3 DEF ChargeWeeksThrough, Step, Good

\* and settling the boundaries that are due.
LEMMA SettleBoundariesSame ==
  ASSUME NEW d, NEW due \in Int, Covers(d, 0)
  PROVE  Same(d, SettleBoundaries(d, due))
<1> DEFINE c == ChargeWeeksThrough(d, due)
           r == RecordDelivered(c)
<1>1. Covers(c, 0) /\ Same(d, c)
  BY ChargeWeeksCovers, ChargeWeeksSame
<1> HIDE DEF c
<1>2. Covers(r, 0)
  BY <1>1, RecordDeliveredCovers
<1>3. Same(c, r)
  BY <1>1 DEF RecordDelivered, Covers, Typed, DealFields, Same, SameStatus, SameClaims
<1> HIDE DEF r
<1>4. Same(r, ReportFinalized(r))
  BY <1>2 DEF ReportFinalized, Covers, Typed, DealFields, Same, SameStatus, SameClaims
<1>5. Same(d, ReportFinalized(r))
  BY <1>1, <1>3, <1>4 DEF Same, SameStatus, SameClaims
<1>6. Same(d, d)
  BY DEF Same, SameStatus, SameClaims
<1> QED
  BY <1>5, <1>6 DEF SettleBoundaries, r, c
-----------------------------------------------------------------------------
(***************************************************************************)
(* Steps that keep a deal sound.                                           *)
(***************************************************************************)
\* A deal that is gone is sound: nothing is asked of it but its types.
LEMMA EndedSound == ASSUME NEW d, Gone(d) PROVE Sound(d)
  BY SafeForms DEF Sound, Gone, Lifecycle, ClaimsBounded

\* A living sound deal can pay its promises.
LEMMA SoundCovers == ASSUME NEW d, Sound(d), d.alive PROVE Covers(d, 0) /\ Typed(d)
  BY SafeForms DEF Sound, Safe

\* A step that changes no status, claim or debt keeps a deal sound.
LEMMA SameSound ==
  ASSUME NEW d, NEW e, Sound(d), Safe(e), Same(d, e), d.opened \/ SameDebts(d, e)
  PROVE  Sound(e)
<1>1. Lifecycle(e)
  BY DEF Sound, Lifecycle, Same, SameStatus, SameClaims, SameDebts
<1>2. ClaimsBounded(e)
  BY DEF Sound, ClaimsBounded, Same, SameStatus, SameClaims
<1> QED
  BY <1>1, <1>2 DEF Sound

\* Money that comes in and goes out leaves status, claims and debts alone.
LEMMA MoneySame ==
  ASSUME NEW d, Typed(d), NEW n, NEW amount
  PROVE  /\ Same(d, Receive(d, n, amount)) /\ SameDebts(d, Receive(d, n, amount))
         /\ Same(d, PayShell(d, n, amount)) /\ SameDebts(d, PayShell(d, n, amount))
         /\ Same(d, BurnShell(d, amount)) /\ SameDebts(d, BurnShell(d, amount))
<1>1. Same(d, Receive(d, n, amount)) /\ SameDebts(d, Receive(d, n, amount))
  BY DEF Typed, DealFields, Same, SameStatus, SameClaims, SameDebts, Receive
<1>2. Same(d, PayShell(d, n, amount)) /\ SameDebts(d, PayShell(d, n, amount))
  BY DEF Typed, DealFields, Same, SameStatus, SameClaims, SameDebts, PayShell
<1>3. Same(d, BurnShell(d, amount)) /\ SameDebts(d, BurnShell(d, amount))
  BY DEF Typed, DealFields, Same, SameStatus, SameClaims, SameDebts, BurnShell
<1> QED
  BY <1>1, <1>2, <1>3

\* Frames compose.
LEMMA SameTrans ==
  ASSUME NEW c, NEW d, NEW e, Same(c, d), Same(d, e), SameDebts(c, d), SameDebts(d, e)
  PROVE  Same(c, e) /\ SameDebts(c, e)
  BY DEF Same, SameStatus, SameClaims, SameDebts
-----------------------------------------------------------------------------
(***************************************************************************)
(* Every public function keeps a living deal sound.                        *)
(***************************************************************************)
\* Listing and delisting.
LEMMA ListingSound ==
  ASSUME NEW d, Sound(d), d.alive
  PROVE  Sound(PostFromNoteEffect(d)) /\ Sound(OnSellClosedEffect(d))
<1>1. Covers(d, 0) /\ Typed(d)
  BY SoundCovers
<1>2. Same(d, PostFromNoteEffect(d)) /\ SameDebts(d, PostFromNoteEffect(d))
  BY <1>1 DEF Typed, DealFields, Same, SameStatus, SameClaims, SameDebts, PostFromNoteEffect
<1>3. Same(d, OnSellClosedEffect(d)) /\ SameDebts(d, OnSellClosedEffect(d))
  BY <1>1 DEF Typed, DealFields, Same, SameStatus, SameClaims, SameDebts, OnSellClosedEffect
<1> QED
  BY <1>1, <1>2, <1>3, ListingSafe, SameSound

\* Posting a bond.
LEMMA BondsSound ==
  ASSUME NEW d, Sound(d), d.alive, NEW amount \in Nat, amount >= BondAmount
  PROVE  Sound(FundDealEffect(d, amount)) /\ Sound(FundBuyerBondEffect(d, amount))
<1>1. Covers(d, 0) /\ Typed(d)
  BY SoundCovers
<1>2. ASSUME NEW n PROVE Covers(Receive(d, n, amount), 0 + amount)
  BY <1>1, ReceiveCovers
<1>3. Same(d, FundDealEffect(d, amount)) /\ SameDebts(d, FundDealEffect(d, amount))
  <2> DEFINE r == Receive(d, Seller, amount)
             s == [r EXCEPT !.sellerBond = BondAmount, !.sellerBondFunded = TRUE]
  <2>1. Typed(r) /\ Same(d, r) /\ SameDebts(d, r)
    BY <1>1, <1>2, MoneySame DEF Covers
  <2> HIDE DEF r
  <2>2. Typed(s) /\ Same(r, s) /\ SameDebts(r, s)
    <3>1. Typed(s)
      BY <2>1, UnitNat DEF Typed, DealFields
    <3>2. DOMAIN r = DealFields
      BY <2>1 DEF Typed
    <3>3. Same(r, s) /\ SameDebts(r, s)
      BY <3>2 DEF DealFields, Same, SameStatus, SameClaims, SameDebts
    <3> QED
      BY <3>1, <3>3
  <2> HIDE DEF s
  <2>3. Same(d, PayShell(s, Seller, amount - BondAmount))
        /\ SameDebts(d, PayShell(s, Seller, amount - BondAmount))
    BY <2>1, <2>2, MoneySame, SameTrans
  <2> QED
    BY <2>3 DEF FundDealEffect, s, r
<1>4. Same(d, FundBuyerBondEffect(d, amount)) /\ SameDebts(d, FundBuyerBondEffect(d, amount))
  <2> DEFINE r == Receive(d, d.buyer, amount)
             s == [r EXCEPT !.buyerBond = BondAmount, !.buyerBondFunded = TRUE]
  <2>1. Typed(r) /\ Same(d, r) /\ SameDebts(d, r)
    BY <1>1, <1>2, MoneySame DEF Covers
  <2> HIDE DEF r
  <2>2. Typed(s) /\ Same(r, s) /\ SameDebts(r, s)
    <3>1. Typed(s)
      BY <2>1, UnitNat DEF Typed, DealFields
    <3>2. DOMAIN r = DealFields
      BY <2>1 DEF Typed
    <3>3. Same(r, s) /\ SameDebts(r, s)
      BY <3>2 DEF DealFields, Same, SameStatus, SameClaims, SameDebts
    <3> QED
      BY <3>1, <3>3
  <2> HIDE DEF s
  <2>3. Same(d, PayShell(s, d.buyer, amount - BondAmount))
        /\ SameDebts(d, PayShell(s, d.buyer, amount - BondAmount))
    BY <2>1, <2>2, MoneySame, SameTrans
  <2> QED
    BY <2>3 DEF FundBuyerBondEffect, s, r
<1>5. Safe(FundDealEffect(d, amount)) /\ Safe(FundBuyerBondEffect(d, amount))
  BY <1>1, BondsSafe
<1>6. Sound(FundDealEffect(d, amount))
  BY <1>3, <1>5, SameSound
<1>7. Sound(FundBuyerBondEffect(d, amount))
  BY <1>4, <1>5, SameSound
<1> QED
  BY <1>6, <1>7

\* A hand-over, recorded or sent back.
LEMMA FundFromOrderBookSound ==
  ASSUME NEW d, Sound(d), d.alive, NEW t \in Nat, NEW b \in Buyers, NEW paid \in Nat,
         NEW sub \in BOOLEAN
  PROVE  Sound(FundFromOrderBookEffect(d, t, b, paid, sub))
<1> DEFINE got    == Receive(d, b, paid)
           held   == [got EXCEPT !.fills = @ + 1]
           bond   == IF sub THEN BondAmount ELSE 0
           escrow == paid - bond
           bonded == [held EXCEPT !.buyerBond = bond, !.buyerBondFunded = @ \/ bond > 0]
           rec    == RecordFunding(bonded, t, b, escrow)
           e      == FundFromOrderBookEffect(d, t, b, paid, sub)
           back   == d.funded \/ paid < bond \/ escrow < 2 * Unit \/ escrow > MaxTicks * Unit
<1>1. Covers(d, 0) /\ Typed(d)
  BY SoundCovers
<1>2. Safe(e)
  BY <1>1, FundFromOrderBookSafe
<1>3. Typed(got) /\ Same(d, got) /\ SameDebts(d, got)
  BY <1>1, ReceiveCovers, MoneySame DEF Covers
<1> HIDE DEF got
<1>4. Typed(held) /\ Same(got, held) /\ SameDebts(got, held)
  <2>1. Typed(held)
    BY <1>3 DEF Typed, DealFields
  <2>2. Same(got, held) /\ SameDebts(got, held)
    BY <1>3 DEF Typed, DealFields, Same, SameStatus, SameClaims, SameDebts
  <2> QED
    BY <2>1, <2>2
<1>5. Same(d, held) /\ SameDebts(d, held)
  BY <1>3, <1>4, SameTrans
<1> HIDE DEF held
<1>6. CASE back
  <2>1. Same(d, PayShell(held, b, paid)) /\ SameDebts(d, PayShell(held, b, paid))
    BY <1>4, <1>5, MoneySame, SameTrans
  <2>2. e = PayShell(held, b, paid)
    BY <1>6 DEF FundFromOrderBookEffect, held, got
  <2> HIDE DEF e
  <2>3. Sound(e)
    BY <1>2, <2>1, <2>2, SameSound
  <2> QED
    BY <2>3 DEF e
<1>7. CASE ~back
  <2> DEFINE shaped == RecordDealShape(rec, t, sub, escrow \div Unit)
  <2>1. /\ DOMAIN bonded = DealFields /\ Same(held, bonded) /\ SameDebts(held, bonded)
    BY <1>4 DEF Typed, DealFields, Same, SameStatus, SameClaims, SameDebts
  <2> HIDE DEF bonded, bond, escrow
  <2>2. /\ DOMAIN rec = DealFields /\ SameDebts(bonded, rec) /\ SameClaims(bonded, rec)
        /\ rec.alive = bonded.alive /\ rec.opened = bonded.opened
        /\ rec.everOpened = bonded.everOpened /\ rec.disputed = bonded.disputed
        /\ rec.probeAccepted = bonded.probeAccepted
    BY <2>1 DEF DealFields, SameClaims, SameDebts, RecordFunding
  <2> HIDE DEF rec
  <2>3. /\ SameDebts(rec, shaped) /\ SameStatus(rec, shaped)
        /\ shaped.tokensFinal = rec.tokensFinal /\ shaped.tokensPend = rec.tokensPend
    BY <2>2 DEF DealFields, SameStatus, SameDebts, RecordDealShape
  <2>4. e = shaped
    BY <1>7 DEF FundFromOrderBookEffect, held, got, bonded, rec, bond, escrow
  <2>5. ~d.opened
    BY <1>7 DEF Sound, Lifecycle
  <2> HIDE DEF shaped
  <2>6. Lifecycle(shaped)
    BY <1>5, <2>1, <2>2, <2>3, <2>5 DEF Sound, Lifecycle, Same, SameStatus, SameClaims, SameDebts
  <2>7. ClaimsBounded(shaped)
    BY <1>5, <2>1, <2>2, <2>3, <2>5 DEF Sound, ClaimsBounded, Same, SameStatus, SameClaims
  <2> QED
    BY <1>2, <2>4, <2>6, <2>7 DEF Sound
<1> QED
  BY <1>6, <1>7

\* Opening starts the trial: nothing is claimed yet.
LEMMA OpenSound ==
  ASSUME NEW d, Sound(d), d.alive, NEW t \in Nat, d.deposit >= P, d.funded
  PROVE  Sound(OpenEffect(d, t))
<1> DEFINE e == OpenEffect(d, t)
<1>1. Covers(d, 0) /\ Typed(d)
  BY SoundCovers
<1>2. Safe(e)
  BY <1>1, OpenSafe
<1>3. /\ e.alive = d.alive /\ e.funded = d.funded /\ e.opened /\ e.everOpened
      /\ ~e.probeAccepted /\ e.tokensFinal = d.tokensFinal /\ e.tokensPend = d.tokensPend
  BY <1>1 DEF Typed, DealFields, OpenEffect
<1> HIDE DEF e
<1>4. e.everOpened \in BOOLEAN /\ e.opened \in BOOLEAN
  BY <1>2 DEF Safe, Typed
<1>5. Lifecycle(e)
  BY <1>3, <1>4 DEF Sound, Lifecycle
<1>6. ClaimsBounded(e)
  BY <1>3 DEF Sound, ClaimsBounded
<1>7. Sound(e)
  BY <1>2, <1>5, <1>6 DEF Sound
<1> QED
  BY <1>7 DEF e

\* Accepting the probe trusts exactly one tick.
LEMMA AcceptProbeSound ==
  ASSUME NEW d, Sound(d), d.alive, NEW t \in Nat, d.opened
  PROVE  Sound(AcceptProbeEffect(d, t))
<1> DEFINE e == AcceptProbeEffect(d, t)
<1>1. Covers(d, 0) /\ Typed(d)
  BY SoundCovers
<1>2. Safe(e)
  BY <1>1, AcceptProbeSafe
<1>3. /\ e.alive = d.alive /\ e.funded = d.funded /\ e.opened = d.opened
      /\ e.everOpened = d.everOpened
      /\ e.tokensFinal = TICK_SIZE /\ e.tokensPend = TICK_SIZE
      /\ e.lastClaimTime = t /\ e.periodStart = t
  BY <1>1 DEF Typed, DealFields, AcceptProbeEffect
<1> HIDE DEF e
<1>4. Lifecycle(e)
  BY <1>3 DEF Sound, Lifecycle
<1>5. (TICK_SIZE - TICK_SIZE) * MIN_SECONDS_PER_TICK <= (t - t) * TICK_SIZE
  BY PriceAssumption, TimeAssumption
<1>6. ClaimsBounded(e)
  BY <1>3, <1>5, PriceAssumption DEF ClaimsBounded
<1>7. Sound(e)
  BY <1>2, <1>4, <1>6 DEF Sound
<1> QED
  BY <1>7 DEF e

\* Promotion trusts the pending claim and changes nothing else that counts.
LEMMA PromoteDueFrame ==
  ASSUME NEW d, Typed(d), NEW t
  PROVE  /\ SameStatus(d, PromoteDue(d, t)) /\ SameDebts(d, PromoteDue(d, t))
         /\ PromoteDue(d, t).tokensPend = d.tokensPend
         /\ PromoteDue(d, t).lastClaimTime = d.lastClaimTime
         /\ PromoteDue(d, t).periodStart = d.periodStart
         /\ \/ PromoteDue(d, t).tokensFinal = d.tokensFinal
            \/ PromoteDue(d, t).tokensFinal = Greater(d.tokensFinal, d.tokensPend)
  BY DEF Typed, DealFields, SameStatus, SameDebts, PromoteDue, Promote

\* Promotion keeps a deal sound.
LEMMA PromoteDueSound ==
  ASSUME NEW d, Sound(d), d.alive, NEW t \in Nat
  PROVE  Sound(PromoteDue(d, t))
<1> DEFINE e == PromoteDue(d, t)
<1>1. Covers(d, 0) /\ Typed(d)
  BY SoundCovers
<1>2. Safe(e)
  BY <1>1, PromoteCovers, SafeForms
<1>3. /\ SameStatus(d, e) /\ SameDebts(d, e) /\ e.tokensPend = d.tokensPend
      /\ e.lastClaimTime = d.lastClaimTime /\ e.periodStart = d.periodStart
      /\ e.tokensFinal = d.tokensFinal \/ e.tokensFinal = Greater(d.tokensFinal, d.tokensPend)
  BY <1>1, PromoteDueFrame
<1> HIDE DEF e
<1>4. Lifecycle(e)
  BY <1>3 DEF Sound, Lifecycle, SameStatus, SameDebts
<1>5. d.tokensFinal \in Nat /\ d.tokensPend \in Nat /\ TICK_SIZE \in Nat
  BY <1>1, PriceAssumption DEF Typed
<1>6. e.tokensFinal <= e.tokensPend /\ e.tokensPend <= e.tokensFinal + TICK_SIZE
  BY <1>3, <1>5 DEF Sound, ClaimsBounded, Greater
<1>7. ClaimsBounded(e)
  BY <1>3, <1>6 DEF Sound, ClaimsBounded, SameStatus
<1>8. Sound(e)
  BY <1>2, <1>4, <1>7 DEF Sound
<1> QED
  BY <1>8 DEF e

\* finalize and settleWeek, whether or not they close the deal.
LEMMA SettlingSound ==
  ASSUME NEW d, Sound(d), d.alive, d.opened, NEW t \in Nat
  PROVE  Sound(FinalizeEffect(d, t)) /\ Sound(SettleWeekEffect(d, t))
<1>1. Covers(d, 0) /\ Typed(d)
  BY SoundCovers
<1>2. Sound(FinalizeEffect(d, t))
  <2> DEFINE p == PromoteDue(d, t)
  <2>1. Sound(p) /\ Covers(p, 0)
    BY <1>1, PromoteDueSound, PromoteCovers
  <2> HIDE DEF p
  <2>2. Sound(PayFinalAndClose(p))
    BY <2>1, PayFinalAndCloseEnds, EndedSound
  <2> QED
    BY <2>1, <2>2 DEF FinalizeEffect, p
<1>3. Sound(SettleWeekEffect(d, t))
  <2> DEFINE s == SettleBoundaries(d, WeeksElapsedAt(d, t))
  <2>1. WeeksElapsedAt(d, t) \in Int
    BY <1>1, WeeksInt
  <2>2. Covers(s, 0) /\ Same(d, s)
    BY <1>1, <2>1, SettleBoundariesCovers, SettleBoundariesSame
  <2> HIDE DEF s
  <2>3. Sound(s)
    BY <2>2, SafeForms, SameSound
  <2>4. Covers(PromoteDue(s, t), 0)
    BY <2>2, PromoteCovers
  <2>5. Sound(PayFinalAndClose(PromoteDue(s, t)))
    BY <2>4, PayFinalAndCloseEnds, EndedSound
  <2> QED
    BY <2>3, <2>5 DEF SettleWeekEffect, s
<1> QED
  BY <1>2, <1>3

\* A claim stays within one tick of what is trusted and within the rate.
LEMMA ClaimTokensSound ==
  ASSUME NEW d, Sound(d), d.alive, d.opened, d.probeAccepted, NEW t \in Nat, NEW c \in Nat,
         c > d.tokensPend, c - d.tokensPend <= TICK_SIZE,
         (c - d.tokensPend) * MIN_SECONDS_PER_TICK <= (t - d.lastClaimTime) * TICK_SIZE,
         BeforeClaim(d, t).tokensPend = BeforeClaim(d, t).tokensFinal
  PROVE  Sound(ClaimTokensEffect(d, t, c))
<1> DEFINE s == SettleBoundaries(d, WeeksElapsedAt(d, t))
           r == PromoteDue(s, t)
           e == [r EXCEPT !.tokensPend = c, !.lastClaimTime = t]
<1>1. Covers(d, 0) /\ Typed(d)
  BY SoundCovers
<1>2. Safe(e)
  BY <1>1, ClaimTokensSafe DEF ClaimTokensEffect, BeforeClaim
<1>3. WeeksElapsedAt(d, t) \in Int
  BY <1>1, WeeksInt
<1>4. Covers(s, 0) /\ Typed(s) /\ Same(d, s)
  BY <1>1, <1>3, SettleBoundariesCovers, SettleBoundariesSame DEF Covers
<1>5. r.tokensPend = r.tokensFinal
  BY DEF BeforeClaim
<1> HIDE DEF s
<1>6. /\ SameStatus(s, r) /\ r.tokensPend = s.tokensPend /\ r.periodStart = s.periodStart
  BY <1>4, PromoteDueFrame
<1>7. Typed(r)
  BY <1>4, PromoteCovers DEF Covers
<1> HIDE DEF r
<1>8. /\ e.tokensPend = c /\ e.lastClaimTime = t /\ e.tokensFinal = r.tokensFinal
      /\ e.periodStart = r.periodStart /\ SameStatus(r, e)
  BY <1>7 DEF Typed, DealFields, SameStatus
<1> HIDE DEF e
<1>9. Lifecycle(e)
  BY <1>4, <1>6, <1>8 DEF Sound, Lifecycle, Same, SameStatus
<1>10. e.tokensFinal = d.tokensPend /\ e.periodStart = d.periodStart
  BY <1>4, <1>5, <1>6, <1>8 DEF Same, SameClaims
<1>11. /\ d.tokensPend \in Nat /\ d.lastClaimTime \in Nat /\ d.periodStart \in Nat
       /\ TICK_SIZE \in Nat /\ MIN_SECONDS_PER_TICK \in Nat
  BY <1>1, PriceAssumption, TimeAssumption DEF Typed
<1>12. (c - TICK_SIZE) * MIN_SECONDS_PER_TICK <= (t - d.periodStart) * TICK_SIZE
  <2>1. (d.tokensPend - TICK_SIZE) * MIN_SECONDS_PER_TICK
          <= (d.lastClaimTime - d.periodStart) * TICK_SIZE
    BY DEF Sound, ClaimsBounded
  <2>2. (c - TICK_SIZE) * MIN_SECONDS_PER_TICK
          = (d.tokensPend - TICK_SIZE) * MIN_SECONDS_PER_TICK
            + (c - d.tokensPend) * MIN_SECONDS_PER_TICK
    BY <1>11
  <2>3. (t - d.periodStart) * TICK_SIZE
          = (d.lastClaimTime - d.periodStart) * TICK_SIZE + (t - d.lastClaimTime) * TICK_SIZE
    BY <1>11
  <2> DEFINE a1 == (d.tokensPend - TICK_SIZE) * MIN_SECONDS_PER_TICK
             a2 == (c - d.tokensPend) * MIN_SECONDS_PER_TICK
             b1 == (d.lastClaimTime - d.periodStart) * TICK_SIZE
             b2 == (t - d.lastClaimTime) * TICK_SIZE
  <2>4. a1 \in Int /\ a2 \in Int /\ b1 \in Int /\ b2 \in Int /\ a1 <= b1 /\ a2 <= b2
    BY <1>11, <2>1
  <2> HIDE DEF a1, a2, b1, b2
  <2>5. a1 + a2 <= b1 + b2
    BY <2>4
  <2> QED
    BY <2>2, <2>3, <2>5 DEF a1, a2, b1, b2
<1>13. ClaimsBounded(e)
  BY <1>8, <1>10, <1>11, <1>12 DEF ClaimsBounded
<1>14. Sound(e)
  BY <1>2, <1>9, <1>13 DEF Sound
<1> QED
  BY <1>14 DEF ClaimTokensEffect, BeforeClaim, e, r, s

\* Raising a dispute.
LEMMA DisputeSound ==
  ASSUME NEW d, Sound(d), d.alive, d.opened, NEW t \in Nat
  PROVE  Sound(DisputeEffect(d, t))
<1> DEFINE e == DisputeEffect(d, t)
<1>1. Covers(d, 0) /\ Typed(d)
  BY SoundCovers
<1>2. Safe(e)
  BY <1>1, DisputeSafe
<1>3. /\ e.alive = d.alive /\ e.funded = d.funded /\ e.opened = d.opened
      /\ e.everOpened = d.everOpened /\ e.probeAccepted = d.probeAccepted
      /\ SameClaims(d, e) /\ SameDebts(d, e)
  BY <1>1 DEF Typed, DealFields, SameClaims, SameDebts, DisputeEffect
<1> HIDE DEF e
<1>4. Lifecycle(e)
  BY <1>3 DEF Sound, Lifecycle, SameClaims, SameDebts
<1>5. ClaimsBounded(e)
  BY <1>3 DEF Sound, ClaimsBounded, SameClaims
<1>6. Sound(e)
  BY <1>2, <1>4, <1>5 DEF Sound
<1> QED
  BY <1>6 DEF e

\* The no-show refund: an unopened deal owes nothing, so the burned residue is
\* nobody's.
LEMMA CleanupUnopenedSound ==
  ASSUME NEW d, Sound(d), d.alive, ~d.opened
  PROVE  Sound(CleanupUnopenedEffect(d))
<1> DEFINE r       == ReleaseBuyerBond(d)
           cleared == [r EXCEPT !.deposit = 0, !.sellerBond = 0, !.funded = FALSE,
                                !.sellerBondFunded = FALSE, !.buyerBondFunded = FALSE,
                                !.offerPosted = FALSE]
           paid1   == PayShell(cleared, d.buyer, r.deposit)
           paid    == PayShell(paid1, Seller, d.sellerBond)
           e       == BurnShell(paid, paid.balance)
           Kept(x) == /\ x.alive = d.alive /\ x.opened = d.opened
                      /\ x.everOpened = d.everOpened /\ x.disputed = d.disputed
                      /\ x.probeAccepted = d.probeAccepted
                      /\ SameClaims(d, x) /\ SameDebts(d, x)
<1>1. Covers(d, 0) /\ Typed(d)
  BY SoundCovers
<1>2. d.finalizedOwed = 0 /\ d.feeAccrued = 0 /\ d.probeTick = 0
  BY DEF Sound, Lifecycle
<1>3. d.finalizedOwed + d.feeAccrued + d.probeTick = 0
  BY <1>2
<1>4. Safe(CleanupUnopenedEffect(d))
  BY <1>1, <1>3, CleanupUnopenedSafe
<1>5. DOMAIN r = DealFields /\ Kept(r)
  BY <1>1 DEF Typed, DealFields, SameClaims, SameDebts, ReleaseBuyerBond
<1> HIDE DEF r
<1>6. DOMAIN cleared = DealFields /\ Kept(cleared)
  BY <1>5 DEF DealFields, SameClaims, SameDebts
<1> HIDE DEF cleared
<1>7. DOMAIN paid1 = DealFields /\ Kept(paid1)
  BY <1>6 DEF DealFields, SameClaims, SameDebts, PayShell
<1> HIDE DEF paid1
<1>8. DOMAIN paid = DealFields /\ Kept(paid)
  BY <1>7 DEF DealFields, SameClaims, SameDebts, PayShell
<1> HIDE DEF paid
<1>9. Kept(e)
  BY <1>8 DEF DealFields, SameClaims, SameDebts, BurnShell
<1>10. e = CleanupUnopenedEffect(d)
  BY DEF CleanupUnopenedEffect, paid, paid1, cleared, r
<1> HIDE DEF e
<1>11. Lifecycle(e)
  BY <1>9 DEF Sound, Lifecycle, SameClaims, SameDebts
<1>12. ClaimsBounded(e)
  BY <1>9 DEF Sound, ClaimsBounded, SameClaims
<1> QED
  BY <1>4, <1>10, <1>11, <1>12 DEF Sound

\* Drawing earnings: only an open deal has any.
LEMMA WithdrawShellSound ==
  ASSUME NEW d, Sound(d), d.alive, NEW amount \in Nat, 0 < amount, amount <= d.finalizedOwed
  PROVE  Sound(WithdrawShellEffect(d, amount))
<1> DEFINE e    == [d EXCEPT !.finalizedOwed = @ - amount]
           paid == PayShell(e, Seller, amount)
<1>1. Covers(d, 0) /\ Typed(d)
  BY SoundCovers
<1>2. d.opened
  BY <1>1 DEF Sound, Lifecycle, Typed
<1>3. Safe(WithdrawShellEffect(d, amount))
  BY <1>1, WithdrawShellSafe
<1>4. Typed(e) /\ Same(d, e)
  <2>0. Covers(d, 0)
    BY <1>1
  <2>1. Covers(e, 0 + amount)
    BY <2>0, DrawCovers
  <2>2. Same(d, e)
    BY <1>1 DEF Typed, DealFields, Same, SameStatus, SameClaims
  <2> QED
    BY <2>1, <2>2 DEF Covers
<1> HIDE DEF e
<1>5. Same(e, paid)
  BY <1>4, MoneySame
<1> HIDE DEF paid
<1>6. Same(d, paid)
  BY <1>4, <1>5 DEF Same, SameStatus, SameClaims
<1>7. WithdrawShellEffect(d, amount) = paid
  BY <1>2, <1>6 DEF WithdrawShellEffect, paid, e, Same, SameStatus
<1> QED
  BY <1>2, <1>3, <1>6, <1>7, SameSound
-----------------------------------------------------------------------------
(***************************************************************************)
(* The specification.                                                      *)
(***************************************************************************)
\* A freshly deployed deal is sound.
LEMMA InitIndInv == Init => IndInv
<1> SUFFICES ASSUME Init PROVE IndInv
  OBVIOUS
<1> DEFINE zero == [n \in Notes |-> 0]
<1>1. zero \in [Notes -> Nat]
  OBVIOUS
<1> HIDE DEF zero
<1>2. Typed(deal)
  BY <1>1, TimeAssumption DEF Init, NewDeal, Typed, DealFields, zero
<1>3. /\ deal.deposit = 0 /\ deal.finalizedOwed = 0 /\ deal.feeAccrued = 0
      /\ deal.buyerBond = 0 /\ deal.sellerBond = 0 /\ deal.probeTick = 0 /\ deal.balance = 0
      /\ deal.opened = FALSE /\ deal.everOpened = FALSE /\ deal.disputed = FALSE
      /\ deal.probeAccepted = FALSE /\ deal.tokensFinal = 0 /\ deal.tokensPend = 0
  BY DEF Init, NewDeal
<1>4. Safe(deal)
  BY <1>2, <1>3 DEF Safe, Earmarks
<1>5. Lifecycle(deal) /\ ClaimsBounded(deal)
  <2>1. Lifecycle(deal)
    BY <1>3 DEF Lifecycle
  <2>2. ClaimsBounded(deal)
    BY <1>3, PriceAssumption DEF ClaimsBounded
  <2> QED
    BY <2>1, <2>2
<1>6. now \in 0..MaxTime
  BY TimeAssumption DEF Init, NewDeal
<1> QED
  BY <1>4, <1>5, <1>6 DEF IndInv, Sound

\* Every call, and every block, keeps the deal sound.
LEMMA NextIndInv == IndInv /\ [Next]_vars => IndInv'
<1> SUFFICES ASSUME IndInv, [Next]_vars PROVE IndInv'
  OBVIOUS
<1> now \in Nat /\ Sound(deal) /\ now \in 0..MaxTime
  BY TimeAssumption DEF IndInv
<1>0. ASSUME NEW e, Call(e), Sound(e) PROVE IndInv'
  BY <1>0 DEF Call, IndInv
<1>a. deal.alive => Covers(deal, 0) /\ Typed(deal)
  BY SoundCovers
<1>1. ASSUME NEW b \in Buyers, NEW ticks \in FillTicks, NEW sub \in Shapes,
             FundFromOrderBook(b, ticks, sub)
      PROVE  IndInv'
  <2> DEFINE paid == ticks * Unit + (IF sub THEN BondAmount ELSE 0)
  <2>1. ticks \in Nat /\ sub \in BOOLEAN
    BY InputAssumption
  <2>2. paid \in Nat
    BY <2>1, UnitNat
  <2> HIDE DEF paid
  <2>3. deal.alive /\ Call(FundFromOrderBookEffect(deal, now, b, paid, sub))
    BY <1>1 DEF FundFromOrderBook, Call, paid
  <2>4. Sound(FundFromOrderBookEffect(deal, now, b, paid, sub))
    BY <2>1, <2>2, <2>3, FundFromOrderBookSound
  <2> QED
    BY <1>0, <2>3, <2>4
<1>2. CASE PostFromNote
  BY <1>0, <1>2, ListingSound DEF PostFromNote, Call
<1>3. CASE OnSellClosed
  BY <1>0, <1>3, ListingSound DEF OnSellClosed, Call
<1>4. CASE Close
  BY <1>0, <1>4, <1>a, CloseEnds, EndedSound DEF Close, Call
<1>5. ASSUME NEW amount \in BondPayments, FundDeal(amount) PROVE IndInv'
  BY <1>0, <1>5, BondsSound, InputAssumption DEF FundDeal, Call
<1>6. ASSUME NEW amount \in BondPayments, FundBuyerBond(amount) PROVE IndInv'
  BY <1>0, <1>6, BondsSound, InputAssumption DEF FundBuyerBond, Call
<1>7. CASE Open
  BY <1>0, <1>7, OpenSound DEF Open, Call
<1>8. CASE AcceptProbe
  BY <1>0, <1>8, AcceptProbeSound DEF AcceptProbe, Call
<1>9. ASSUME NEW c \in 0..MaxTicks * TICK_SIZE, ClaimTokens(c) PROVE IndInv'
  <2>1. deal.alive /\ deal.opened /\ deal.probeAccepted
    BY <1>9 DEF ClaimTokens, Call
  <2>2. MaxTicks * TICK_SIZE \in Nat
    BY PriceAssumption
  <2>3. c \in Nat
    BY <2>2
  <2>4. /\ c > deal.tokensPend /\ c - deal.tokensPend <= TICK_SIZE
        /\ (c - deal.tokensPend) * MIN_SECONDS_PER_TICK
             <= (now - deal.lastClaimTime) * TICK_SIZE
        /\ BeforeClaim(deal, now).tokensPend = BeforeClaim(deal, now).tokensFinal
        /\ Call(ClaimTokensEffect(deal, now, c))
    BY <1>9 DEF ClaimTokens, MAX_CLAIM_DELTA
  <2>5. Sound(ClaimTokensEffect(deal, now, c))
    BY <2>1, <2>3, <2>4, ClaimTokensSound
  <2> QED
    BY <1>0, <2>4, <2>5
<1>10. CASE Finalize
  BY <1>0, <1>10, SettlingSound DEF Finalize, FinalizeReady, Call
<1>11. CASE SettleWeek
  BY <1>0, <1>11, SettlingSound DEF SettleWeek, SettleWeekReady, Call
<1>12. CASE Stop
  BY <1>0, <1>12, <1>a, StopEnds, EndedSound DEF Stop, Call
<1>13. CASE SellerStop
  BY <1>0, <1>13, <1>a, SellerStopEnds, EndedSound DEF SellerStop, Call
<1>14. CASE Dispute
  BY <1>0, <1>14, DisputeSound DEF Dispute, Call
<1>15. CASE ReleaseDispute
  BY <1>0, <1>15, <1>a, ReleaseDisputeEnds, EndedSound DEF ReleaseDispute, Call
<1>16. CASE ResolveDisputeTimeout
  BY <1>0, <1>16, <1>a, ResolveDisputeTimeoutEnds, EndedSound DEF ResolveDisputeTimeout, ResolveReady, Call
<1>17. ASSUME NEW byBuyer \in BOOLEAN, CleanupUnopened(byBuyer) PROVE IndInv'
  BY <1>0, <1>17, CleanupUnopenedSound DEF CleanupUnopened, CleanupReady, Call
<1>18. ASSUME NEW amount \in Withdrawals, WithdrawShell(amount) PROVE IndInv'
  BY <1>0, <1>18, WithdrawShellSound, InputAssumption DEF WithdrawShell, Call
<1>19. CASE Destroy
  BY <1>0, <1>19, <1>a, DestroyEnds, EndedSound DEF Destroy, Call
<1>20. CASE AdvanceTime
  BY <1>20, TimeAssumption DEF AdvanceTime, IndInv
<1>21. CASE Destroyed \/ UNCHANGED vars
  BY <1>21 DEF Destroyed, vars, IndInv
<1> QED
  BY <1>1, <1>2, <1>3, <1>4, <1>5, <1>6, <1>7, <1>8, <1>9, <1>10, <1>11, <1>12, <1>13,
     <1>14, <1>15, <1>16, <1>17, <1>18, <1>19, <1>20, <1>21 DEF Next

\* The inductive invariant holds throughout.
THEOREM Soundness == Spec => []IndInv
  BY InitIndInv, NextIndInv, PTL DEF Spec

\* No settlement underflows and no figure leaves its type, whatever the order
\* of calls: no exit of the deal contract can revert and lock the escrow.
THEOREM TypeCorrect == Spec => []TypeOK
<1>1. IndInv => TypeOK
  BY DEF IndInv, Sound, Safe, TypeOK
<1> QED
  BY <1>1, Soundness, PTL

\* A living deal can pay everything it has promised at once: escrow, earnings,
\* fees, bonds and the probe tick, across re-funded and refused hand-overs.
THEOREM AlwaysSolvent == Spec => []Solvent
<1>1. IndInv => Solvent
  BY DEF IndInv, Sound, Safe, Solvent
<1> QED
  BY <1>1, Soundness, PTL

\* Every close of an opened deal is final: pay, then die.
THEOREM ClosesAreFinal == Spec => []NoDebtBehindLivingDeal
<1>1. IndInv => NoDebtBehindLivingDeal
  BY DEF IndInv, Sound, Lifecycle, NoDebtBehindLivingDeal
<1> QED
  BY <1>1, Soundness, PTL

\* At most one tick of claims is ever untrusted.
THEOREM AtMostOneTickAtRisk == Spec => []OneTickAtRisk
<1>1. IndInv => OneTickAtRisk
  BY DEF IndInv, Sound, ClaimsBounded, OneTickAtRisk
<1> QED
  BY <1>1, Soundness, PTL

\* Claims never outrun one tick per MIN_SECONDS_PER_TICK since the probe.
THEOREM ClaimsWithinRate == Spec => []ClaimRate
<1>1. IndInv => ClaimRate
  BY DEF IndInv, Sound, ClaimsBounded, ClaimRate
<1> QED
  BY <1>1, Soundness, PTL

\* The two bounds claimTokens keeps, together: one tick at risk and the rate.
THEOREM ClaimsWithinBounds == Spec => []ClaimBounds
<1>1. OneTickAtRisk /\ ClaimRate => ClaimBounds
  BY DEF ClaimBounds
<1> QED
  BY <1>1, AtMostOneTickAtRisk, ClaimsWithinRate, PTL
-----------------------------------------------------------------------------
(***************************************************************************)
(* Who settles when does not matter.  Two storage records that agree       *)
(* outside X are compared step by step through an exit: X starts as what   *)
(* the early call changed and shrinks to what no payment depends on.       *)
(***************************************************************************)
\* Agreement is symmetric.
LEMMA AgreeSym == ASSUME NEW d, NEW e, NEW X, Agree(d, e, X) PROVE Agree(e, d, X)
  BY DEF Agree

\* Agreement is transitive.
LEMMA AgreeTrans ==
  ASSUME NEW c, NEW d, NEW e, NEW X, Agree(c, d, X), Agree(d, e, X)
  PROVE  Agree(c, e, X)
  BY DEF Agree

\* Agreement outside a set is agreement outside any larger one.
LEMMA AgreeWeaker ==
  ASSUME NEW d, NEW e, NEW X, NEW Y, Agree(d, e, X), X \subseteq Y
  PROVE  Agree(d, e, Y)
  BY DEF Agree

\* What records that agree outside unread fields have in common.
LEMMA AgreeFields ==
  ASSUME NEW d, NEW e, NEW X, X \subseteq Unread, Agree(d, e, X)
  PROVE  /\ d.deposit = e.deposit /\ d.finalizedOwed = e.finalizedOwed
         /\ d.feeAccrued = e.feeAccrued /\ d.tokensPaid = e.tokensPaid
         /\ d.weekIndex = e.weekIndex /\ d.weekBaseTokens = e.weekBaseTokens
         /\ d.tokensPerWeek = e.tokensPerWeek /\ d.tokensPend = e.tokensPend
         /\ d.subWeeks = e.subWeeks /\ d.probeAccepted = e.probeAccepted
         /\ d.probeTick = e.probeTick /\ d.buyerBond = e.buyerBond
         /\ d.sellerBond = e.sellerBond /\ d.balance = e.balance /\ d.got = e.got
         /\ d.burned = e.burned /\ d.buyer = e.buyer /\ d.periodStart = e.periodStart
         /\ d.lastClaimTime = e.lastClaimTime /\ d.authorized = e.authorized
  BY DEF Agree, DealFields, Unread

\* Charging tokens.
LEMMA AgreeCharge ==
  ASSUME NEW d, NEW e, NEW X, X \subseteq Unread, Agree(d, e, X), NEW n
  PROVE  Agree(ChargeTokens(d, n), ChargeTokens(e, n), X)
<1> DEFINE short == PayOf(n) + FeeOf(n) > d.deposit
           fee   == IF short THEN Lesser(d.deposit, FeeOf(n)) ELSE FeeOf(n)
           pay   == IF short THEN d.deposit - fee ELSE PayOf(n)
           x     == d.deposit - (pay + fee)
           y     == d.finalizedOwed + pay
           z     == d.feeAccrued + fee
<1>1. /\ d.deposit = e.deposit /\ d.finalizedOwed = e.finalizedOwed
      /\ d.feeAccrued = e.feeAccrued /\ DOMAIN d = DealFields /\ DOMAIN e = DealFields
  BY AgreeFields DEF Agree
<1>2. ChargeTokens(d, n) = [d EXCEPT !.deposit = x, !.finalizedOwed = y, !.feeAccrued = z]
  BY <1>1 DEF ChargeTokens, DealFields
<1>3. ChargeTokens(e, n) = [e EXCEPT !.deposit = x, !.finalizedOwed = y, !.feeAccrued = z]
  BY <1>1 DEF ChargeTokens, DealFields
<1> HIDE DEF short, fee, pay, x, y, z
<1> QED
  BY <1>2, <1>3 DEF Agree

\* Charging tokens leaves the rest alone.
LEMMA ChargeOnly ==
  ASSUME NEW d, DOMAIN d = DealFields, NEW n
  PROVE  Agree(ChargeTokens(d, n), d, Charges)
<1> DEFINE short == PayOf(n) + FeeOf(n) > d.deposit
           fee   == IF short THEN Lesser(d.deposit, FeeOf(n)) ELSE FeeOf(n)
           pay   == IF short THEN d.deposit - fee ELSE PayOf(n)
<1>1. ChargeTokens(d, n) = [d EXCEPT !.deposit = @ - (pay + fee),
                              !.finalizedOwed = @ + pay, !.feeAccrued = @ + fee]
  BY DEF ChargeTokens
<1> HIDE DEF short, fee, pay
<1> QED
  BY <1>1 DEF Agree, Charges

\* Money paid or burned.
LEMMA AgreeMoney ==
  ASSUME NEW d, NEW e, NEW X, X \subseteq Unread, Agree(d, e, X), NEW n, NEW amount
  PROVE  /\ Agree(PayShell(d, n, amount), PayShell(e, n, amount), X)
         /\ Agree(BurnShell(d, amount), BurnShell(e, amount), X)
<1> DEFINE bal == d.balance - amount
           led == Credit(d.got, n, amount)
           brn == d.burned + amount
<1>1. /\ d.balance = e.balance /\ d.got = e.got /\ d.burned = e.burned
      /\ DOMAIN d = DealFields /\ DOMAIN e = DealFields
  BY AgreeFields DEF Agree
<1>2. /\ PayShell(d, n, amount) = [d EXCEPT !.balance = bal, !.got = led]
      /\ PayShell(e, n, amount) = [e EXCEPT !.balance = bal, !.got = led]
      /\ BurnShell(d, amount) = [d EXCEPT !.balance = bal, !.burned = brn]
      /\ BurnShell(e, amount) = [e EXCEPT !.balance = bal, !.burned = brn]
  BY <1>1 DEF PayShell, BurnShell, DealFields
<1> HIDE DEF bal, led, brn
<1> QED
  BY <1>2 DEF Agree

\* One week.
LEMMA AgreeOneWeek ==
  ASSUME NEW d, NEW e, NEW X, X \subseteq Unread, Agree(d, e, X), Peak(d) = Peak(e)
  PROVE  /\ Agree(ChargeOneWeek(d), ChargeOneWeek(e), X)
         /\ Agree(ChargeOneWeek(d), d, Charges)
<1> DEFINE target == (d.weekIndex + 1) * d.tokensPerWeek
           due    == IF target > d.tokensPaid THEN target - d.tokensPaid ELSE 0
           c      == ChargeTokens(d, due)
           g      == ChargeTokens(e, due)
           w      == d.weekIndex + 1
           base   == Peak(d)
<1>1. /\ d.weekIndex = e.weekIndex /\ d.tokensPerWeek = e.tokensPerWeek
      /\ d.tokensPaid = e.tokensPaid /\ DOMAIN d = DealFields
  BY AgreeFields DEF Agree
<1>2. Agree(c, g, X)
  BY AgreeCharge
<1>3. Agree(c, d, Charges)
  BY <1>1, ChargeOnly
<1>4. c.weekIndex = d.weekIndex /\ g.weekIndex = d.weekIndex /\ DOMAIN c = DealFields
  <2>1. c.weekIndex = d.weekIndex
    BY <1>1 DEF ChargeTokens, DealFields
  <2>2. g.weekIndex = c.weekIndex
    BY <1>2, AgreeFields
  <2> QED
    BY <2>1, <2>2, <1>2 DEF Agree
<1>5. ChargeOneWeek(d) = [c EXCEPT !.tokensPaid = target, !.weekIndex = w, !.weekBaseTokens = base]
  BY <1>4 DEF ChargeOneWeek, Peak, DealFields
<1>6. ChargeOneWeek(e) = [g EXCEPT !.tokensPaid = target, !.weekIndex = w, !.weekBaseTokens = base]
  BY <1>1, <1>2, <1>4 DEF ChargeOneWeek, Peak, DealFields, Agree
<1> HIDE DEF target, due, c, g, w, base
<1>7. Agree(ChargeOneWeek(d), ChargeOneWeek(e), X)
  BY <1>2, <1>5, <1>6 DEF Agree
<1>8. Agree(ChargeOneWeek(d), d, Charges)
  BY <1>3, <1>5 DEF Agree, Charges
<1> QED
  BY <1>7, <1>8

\* Weeks leave claims, dispute and term alone.
LEMMA ChargesKeep ==
  ASSUME NEW c, NEW d, Agree(c, d, Charges)
  PROVE  /\ c.tokensFinal = d.tokensFinal /\ c.tokensPend = d.tokensPend /\ Peak(c) = Peak(d)
         /\ c.lastClaimTime = d.lastClaimTime /\ c.disputeTime = d.disputeTime
         /\ c.subWeeks = d.subWeeks /\ c.probeAccepted = d.probeAccepted
         /\ c.periodStart = d.periodStart /\ c.disputed = d.disputed
         /\ c.everDisputed = d.everDisputed
  BY DEF Agree, Charges, DealFields, Peak

\* All weeks up to a target.
LEMMA AgreeWeeks ==
  ASSUME NEW d, NEW e, NEW X, X \subseteq Unread, Agree(d, e, X), Peak(d) = Peak(e), NEW target
  PROVE  /\ Agree(ChargeWeeksThrough(d, target), ChargeWeeksThrough(e, target), X)
         /\ Agree(ChargeWeeksThrough(d, target), d, Charges)
<1> DEFINE Step(c) == IF c.weekIndex < target THEN ChargeOneWeek(c) ELSE c
           Pair(c, g) == /\ Agree(c, g, X) /\ Agree(c, d, Charges) /\ Peak(c) = Peak(g)
                         /\ Agree(g, e, Charges)
<1>1. ASSUME NEW c, NEW g, Pair(c, g) PROVE Pair(Step(c), Step(g))
  <2>1. c.weekIndex = g.weekIndex
    BY <1>1, AgreeFields
  <2>2. CASE c.weekIndex < target
    <3>1. /\ Agree(ChargeOneWeek(c), ChargeOneWeek(g), X) /\ Agree(ChargeOneWeek(c), c, Charges)
      BY <1>1, AgreeOneWeek
    <3>2. Agree(ChargeOneWeek(g), g, Charges)
      BY <1>1, AgreeSym, AgreeOneWeek
    <3>3. Peak(ChargeOneWeek(c)) = Peak(ChargeOneWeek(g))
      BY <1>1, <3>1, <3>2, ChargesKeep
    <3>4. Agree(ChargeOneWeek(c), d, Charges) /\ Agree(ChargeOneWeek(g), e, Charges)
      BY <1>1, <3>1, <3>2, AgreeTrans
    <3> QED
      BY <2>1, <2>2, <3>1, <3>3, <3>4
  <2>3. CASE ~(c.weekIndex < target)
    BY <1>1, <2>1, <2>3
  <2> QED
    BY <2>2, <2>3
<1>2. Pair(d, e)
  BY DEF Agree
<1>3. (IsSubscription(d) /\ d.probeAccepted) <=> (IsSubscription(e) /\ e.probeAccepted)
  BY AgreeFields DEF IsSubscription
<1>4. \/ /\ ChargeWeeksThrough(d, target) = Step(Step(Step(Step(d))))
         /\ ChargeWeeksThrough(e, target) = Step(Step(Step(Step(e))))
      \/ ChargeWeeksThrough(d, target) = d /\ ChargeWeeksThrough(e, target) = e
  BY <1>3 DEF ChargeWeeksThrough
<1> HIDE DEF Step, Pair
<1>5. Pair(Step(Step(Step(Step(d)))), Step(Step(Step(Step(e)))))
  BY <1>1, <1>2
<1> QED
  BY <1>2, <1>4, <1>5 DEF Pair

\* Records that agree outside X and on X agree.
LEMMA AgreeOn ==
  ASSUME NEW d, NEW e, NEW X, Agree(d, e, X), \A f \in X : d[f] = e[f]
  PROVE  Agree(d, e, {})
  BY DEF Agree

\* What records that agree outside the tick count have in common besides.
LEMMA AgreeSlack ==
  ASSUME NEW d, NEW e, NEW X, X \subseteq Slack, Agree(d, e, X)
  PROVE  /\ d.tokensFinal = e.tokensFinal /\ Peak(d) = Peak(e)
         /\ d.disputed = e.disputed /\ d.everDisputed = e.everDisputed
         /\ d.disputeTime = e.disputeTime /\ X \subseteq Unread
  BY DEF Agree, DealFields, Slack, Unread, Peak

\* The weeks elapsed, the mark disputes are measured from, their stake and the refund are
\* read from fields that no early call changes.
LEMMA AgreeReads ==
  ASSUME NEW d, NEW e, NEW X, X \subseteq Unread, Agree(d, e, X)
  PROVE  /\ \A t : WeeksElapsedAt(d, t) = WeeksElapsedAt(e, t)
         /\ \A t : WeeksStartedAt(d, t) = WeeksStartedAt(e, t)
         /\ \A t : WindowPassed(d, t) = WindowPassed(e, t)
         /\ IsSubscription(d) <=> IsSubscription(e)
         /\ ClaimBase(d) = ClaimBase(e)
         /\ DisputeStake(d) = DisputeStake(e)
<1>1. /\ d.deposit = e.deposit /\ d.tokensPaid = e.tokensPaid
      /\ d.weekIndex = e.weekIndex /\ d.weekBaseTokens = e.weekBaseTokens
      /\ d.tokensPend = e.tokensPend /\ d.subWeeks = e.subWeeks
      /\ d.buyerBond = e.buyerBond /\ d.sellerBond = e.sellerBond
      /\ d.periodStart = e.periodStart /\ d.lastClaimTime = e.lastClaimTime
  BY AgreeFields
<1>2. /\ \A t : WeeksElapsedAt(d, t) = WeeksElapsedAt(e, t)
      /\ \A t : WindowPassed(d, t) = WindowPassed(e, t)
      /\ IsSubscription(d) <=> IsSubscription(e)
  BY <1>1 DEF WeeksElapsedAt, WindowPassed, IsSubscription
<1>3. \A t : WeeksStartedAt(d, t) = WeeksStartedAt(e, t)
  BY <1>1, <1>2 DEF WeeksStartedAt
<1>4. ClaimBase(d) = ClaimBase(e)
  BY <1>1, <1>2 DEF ClaimBase
<1>5. ClaimedUnpaidValue(d) = ClaimedUnpaidValue(e)
  BY <1>1, <1>4 DEF ClaimedUnpaidValue
<1>6. DisputeStake(d) = DisputeStake(e)
  BY <1>1, <1>2, <1>5 DEF DisputeStake
<1> QED
  BY <1>2, <1>3, <1>4, <1>6

\* Forfeiting bonds treats such records alike.
LEMMA AgreeForfeit ==
  ASSUME NEW d, NEW e, NEW X, X \subseteq Unread, Agree(d, e, X), NEW b, NEW s
  PROVE  Agree(ForfeitBonds(d, b, s), ForfeitBonds(e, b, s), X)
<1> DEFINE x == Lesser(b, d.buyerBond)
           y == Lesser(s, d.sellerBond)
           bb == d.buyerBond - x
           sb == d.sellerBond - y
           m == [d EXCEPT !.buyerBond = bb, !.sellerBond = sb]
           n == [e EXCEPT !.buyerBond = bb, !.sellerBond = sb]
<1>1. /\ d.buyerBond = e.buyerBond /\ d.sellerBond = e.sellerBond
      /\ DOMAIN d = DealFields /\ DOMAIN e = DealFields
  BY AgreeFields DEF Agree
<1>2. ForfeitBonds(d, b, s) = BurnShell(m, x + y) /\ ForfeitBonds(e, b, s) = BurnShell(n, x + y)
  BY <1>1 DEF ForfeitBonds, DealFields
<1>3. Agree(m, n, X)
  <2> HIDE DEF bb, sb
  <2> QED
    BY DEF Agree
<1> HIDE DEF m, n, x, y
<1> QED
  BY <1>2, <1>3, AgreeMoney

\* So does releasing the probe tick or the buyer's bond into the escrow.
LEMMA AgreeRelease ==
  ASSUME NEW d, NEW e, NEW X, X \subseteq Unread, Agree(d, e, X)
  PROVE  /\ Agree(ReleaseProbe(d), ReleaseProbe(e), X)
         /\ Agree(ReleaseBuyerBond(d), ReleaseBuyerBond(e), X)
<1> DEFINE x == d.deposit + d.probeTick
           y == d.deposit + d.buyerBond
<1>1. /\ d.buyerBond = e.buyerBond /\ d.probeTick = e.probeTick /\ d.deposit = e.deposit
      /\ d.probeAccepted = e.probeAccepted /\ DOMAIN d = DealFields /\ DOMAIN e = DealFields
  BY AgreeFields DEF Agree
<1>2. Agree([d EXCEPT !.deposit = x, !.probeTick = 0], [e EXCEPT !.deposit = x, !.probeTick = 0], X)
  <2> HIDE DEF x
  <2> QED
    BY DEF Agree
<1>3. Agree([d EXCEPT !.deposit = y, !.buyerBond = 0], [e EXCEPT !.deposit = y, !.buyerBond = 0], X)
  <2> HIDE DEF y
  <2> QED
    BY DEF Agree
<1>4. /\ ReleaseBuyerBond(d) = [d EXCEPT !.deposit = y, !.buyerBond = 0]
      /\ ReleaseBuyerBond(e) = [e EXCEPT !.deposit = y, !.buyerBond = 0]
  BY <1>1 DEF ReleaseBuyerBond, DealFields
<1>5. \/ ReleaseProbe(d) = d /\ ReleaseProbe(e) = e
      \/ /\ ReleaseProbe(d) = [d EXCEPT !.deposit = x, !.probeTick = 0]
         /\ ReleaseProbe(e) = [e EXCEPT !.deposit = x, !.probeTick = 0]
  BY <1>1 DEF ReleaseProbe, DealFields
<1> HIDE DEF x, y
<1> QED
  BY <1>2, <1>3, <1>4, <1>5

\* Recounting the delivered ticks removes a difference in the count.
LEMMA AgreeRecord ==
  ASSUME NEW d, NEW e, NEW X, X \subseteq Slack, Agree(d, e, X)
  PROVE  Agree(RecordDelivered(d), RecordDelivered(e), {"reported"})
<1> DEFINE n == (IF d.probeAccepted THEN Greater(d.tokensFinal, TICK_SIZE)
                 ELSE d.tokensFinal) \div TICK_SIZE
<1>1. d.tokensFinal = e.tokensFinal /\ d.probeAccepted = e.probeAccepted
  BY AgreeSlack, AgreeFields
<1>2. /\ RecordDelivered(d) = [d EXCEPT !.ticksFinalized = n]
      /\ RecordDelivered(e) = [e EXCEPT !.ticksFinalized = n]
  BY <1>1 DEF RecordDelivered
<1> HIDE DEF n
<1> QED
  BY <1>2 DEF Agree, Slack

\* Settling fees.
LEMMA AgreeFees ==
  ASSUME NEW d, NEW e, Agree(d, e, {"reported"}), NEW clean
  PROVE  Agree(SettleFees(d, clean), SettleFees(e, clean), {"reported"})
<1> DEFINE rebate == IF clean /\ ~d.everDisputed
                     THEN Lesser(Rebate(d.ticksFinalized), d.feeAccrued) ELSE 0
           owed == d.finalizedOwed + rebate
           fee == d.feeAccrued - rebate
           m == [d EXCEPT !.finalizedOwed = owed, !.feeAccrued = 0]
           n == [e EXCEPT !.finalizedOwed = owed, !.feeAccrued = 0]
           bm == BurnShell(m, fee)
           bn == BurnShell(n, fee)
<1>1. {"reported"} \subseteq Slack /\ {"reported"} \subseteq Unread
  BY DEF Slack, Unread
<1>2. /\ d.everDisputed = e.everDisputed /\ d.feeAccrued = e.feeAccrued
      /\ d.finalizedOwed = e.finalizedOwed
      /\ DOMAIN d = DealFields /\ DOMAIN e = DealFields
  BY <1>1, AgreeSlack, AgreeFields DEF Agree
<1>3. d.ticksFinalized = e.ticksFinalized
  BY DEF Agree, DealFields
<1>4. SettleFees(d, clean) = ReportFinalized(bm) /\ SettleFees(e, clean) = ReportFinalized(bn)
  BY <1>2, <1>3 DEF SettleFees, DealFields
<1>5. Agree(m, n, {"reported"})
  <2> HIDE DEF owed
  <2> QED
    BY DEF Agree
<1> HIDE DEF m, n, fee
<1>6. Agree(bm, bn, {"reported"})
  BY <1>1, <1>5, AgreeMoney
<1> HIDE DEF bm, bn
<1>7. Agree(ReportFinalized(bm), ReportFinalized(bn), {"reported"})
  BY <1>6 DEF Agree, ReportFinalized, DealFields
<1> QED
  BY <1>4, <1>7

\* The last payment.
LEMMA AgreePayOwed ==
  ASSUME NEW d, NEW e, NEW X, X \subseteq Unread, Agree(d, e, X)
  PROVE  Agree(PayOwedAndDie(d), PayOwedAndDie(e), X)
<1> DEFINE m == [d EXCEPT !.finalizedOwed = 0]
           n == [e EXCEPT !.finalizedOwed = 0]
           pm == PayShell(m, Seller, d.finalizedOwed)
           pn == PayShell(n, Seller, d.finalizedOwed)
           qm == PayShell(pm, Seller, pm.balance)
           qn == PayShell(pn, Seller, pm.balance)
<1>1. d.finalizedOwed = e.finalizedOwed
  BY AgreeFields
<1>2. Agree(m, n, X)
  BY DEF Agree
<1> HIDE DEF m, n
<1>3. Agree(pm, pn, X)
  BY <1>2, AgreeMoney
<1> HIDE DEF pm, pn
<1>4. Agree(qm, qn, X) /\ pm.balance = pn.balance
  BY <1>3, AgreeMoney, AgreeFields
<1>5. PayOwedAndDie(d) = Die(qm) /\ PayOwedAndDie(e) = Die(qn)
  BY <1>1, <1>4 DEF PayOwedAndDie, m, n, pm, pn
<1> HIDE DEF qm, qn
<1> QED
  BY <1>4, <1>5 DEF Die, Agree

\* Refund and end.
LEMMA AgreeRefund ==
  ASSUME NEW d, NEW e, Agree(d, e, {"reported"}), NEW clean, NEW refund
  PROVE  Agree(RefundAndDie(d, clean, refund), RefundAndDie(e, clean, refund), {"reported"})
<1> DEFINE owed == d.finalizedOwed + d.sellerBond
           m == [d EXCEPT !.deposit = 0, !.buyerBond = 0, !.opened = FALSE,
                          !.finalizedOwed = owed, !.sellerBond = 0]
           n == [e EXCEPT !.deposit = 0, !.buyerBond = 0, !.opened = FALSE,
                          !.finalizedOwed = owed, !.sellerBond = 0]
           fm == SettleFees(m, clean)
           fn == SettleFees(n, clean)
           pm == PayShell(fm, d.buyer, refund)
           pn == PayShell(fn, d.buyer, refund)
<1>0. {"reported"} \subseteq Unread
  BY DEF Unread
<1>1. d.finalizedOwed = e.finalizedOwed /\ d.sellerBond = e.sellerBond /\ d.buyer = e.buyer
      /\ DOMAIN d = DealFields /\ DOMAIN e = DealFields
  BY <1>0, AgreeFields DEF Agree
<1>2. /\ RefundAndDie(d, clean, refund) = PayOwedAndDie(pm)
      /\ RefundAndDie(e, clean, refund) = PayOwedAndDie(pn)
  BY <1>1 DEF RefundAndDie, DealFields
<1>3. Agree(m, n, {"reported"})
  <2> HIDE DEF owed
  <2> QED
    BY DEF Agree
<1> HIDE DEF m, n
<1>4. Agree(fm, fn, {"reported"})
  BY <1>3, AgreeFees
<1> HIDE DEF fm, fn
<1>5. Agree(pm, pn, {"reported"})
  BY <1>0, <1>4, AgreeMoney
<1> HIDE DEF pm, pn
<1> QED
  BY <1>0, <1>2, <1>5, AgreePayOwed

\* A clean close pays the same whatever was counted and reported before.
LEMMA AgreeClose ==
  ASSUME NEW d, NEW e, NEW X, X \subseteq Slack, Agree(d, e, X)
  PROVE  Agree(PayFinalAndClose(d), PayFinalAndClose(e), {"reported"})
<1> DEFINE owed == IF ~IsSubscription(d) /\ d.tokensFinal > d.tokensPaid
                   THEN d.tokensFinal - d.tokensPaid ELSE 0
           cd == ChargeTokens(d, owed)
           ce == ChargeTokens(e, owed)
           mark == IF owed > 0 THEN d.tokensFinal ELSE cd.tokensPaid
           m == [cd EXCEPT !.tokensPaid = mark]
           n == [ce EXCEPT !.tokensPaid = mark]
           rm == RecordDelivered(ReleaseBuyerBond(ReleaseProbe(m)))
           rn == RecordDelivered(ReleaseBuyerBond(ReleaseProbe(n)))
<1>1. X \subseteq Unread /\ d.tokensFinal = e.tokensFinal
  BY AgreeSlack
<1>2. /\ d.tokensPaid = e.tokensPaid /\ (IsSubscription(d) <=> IsSubscription(e))
  BY <1>1, AgreeFields, AgreeReads
<1>3. Agree(cd, ce, X)
  BY <1>1, AgreeCharge
<1>4. cd.tokensPaid = ce.tokensPaid /\ DOMAIN cd = DealFields /\ DOMAIN ce = DealFields
  BY <1>1, <1>3, AgreeFields DEF Agree
<1>5. PayFinalAndClose(d) = CloseClean(m) /\ PayFinalAndClose(e) = CloseClean(n)
  BY <1>1, <1>2, <1>4 DEF PayFinalAndClose, DealFields
<1>6. Agree(m, n, X)
  <2> HIDE DEF mark, cd, ce
  <2> QED
    BY <1>3 DEF Agree
<1> HIDE DEF m, n
<1>7. Agree(rm, rn, {"reported"})
  BY <1>1, <1>6, AgreeRelease, AgreeRecord
<1> HIDE DEF rm, rn
<1>8. rm.deposit = rn.deposit
  BY <1>7, AgreeFields DEF Unread
<1>9. /\ CloseClean(m) = RefundAndDie(rm, TRUE, rm.deposit)
      /\ CloseClean(n) = RefundAndDie(rn, TRUE, rm.deposit)
  BY <1>8 DEF CloseClean, rm, rn
<1> QED
  BY <1>5, <1>7, <1>9, AgreeRefund

\* The refund of a settled dispute.
LEMMA AgreeRefundable ==
  ASSUME NEW d, NEW e, NEW X, X \subseteq Slack, Agree(d, e, X)
  PROVE  Refundable(d) = Refundable(e)
<1>1. X \subseteq Unread /\ d.disputeTime = e.disputeTime
  BY AgreeSlack
<1>2. /\ d.deposit = e.deposit /\ d.subWeeks = e.subWeeks /\ d.tokensPerWeek = e.tokensPerWeek
      /\ d.probeAccepted = e.probeAccepted
  BY <1>1, AgreeFields
<1>3. /\ WeeksStartedAt(d, d.disputeTime) = WeeksStartedAt(e, e.disputeTime)
      /\ IsSubscription(d) <=> IsSubscription(e)
  BY <1>1, AgreeReads
<1> QED
  BY <1>2, <1>3 DEF Refundable

\* A settled dispute pays the same whatever was counted and reported before.
LEMMA AgreeTrusted ==
  ASSUME NEW d, NEW e, NEW X, X \subseteq Slack, Agree(d, e, X), NEW b, NEW s
  PROVE  Agree(SettleTrustedAndClose(d, b, s), SettleTrustedAndClose(e, b, s), {"reported"})
<1> DEFINE a  == WeeksElapsedAt(d, d.disputeTime)
           wd == ChargeWeeksThrough(ReleaseProbe(d), a)
           we == ChargeWeeksThrough(ReleaseProbe(e), a)
           owed == IF wd.tokensFinal > ClaimBase(wd) THEN wd.tokensFinal - ClaimBase(wd) ELSE 0
           rd == RecordDelivered(ChargeTokens(wd, owed))
           re == RecordDelivered(ChargeTokens(we, owed))
           mark == Greater(rd.tokensPaid, wd.tokensFinal)
           td == [rd EXCEPT !.tokensPaid = mark]
           te == [re EXCEPT !.tokensPaid = mark]
           fd == ForfeitBonds(td, b, s)
           fe == ForfeitBonds(te, b, s)
           refund == Refundable(fd)
           bd == BurnShell(fd, fd.deposit - refund)
           be == BurnShell(fe, fd.deposit - refund)
           back == refund + fd.buyerBond
<1>0. {"reported"} \subseteq Slack /\ {"reported"} \subseteq Unread
  BY DEF Slack, Unread
<1>1. /\ X \subseteq Unread /\ d.disputeTime = e.disputeTime
      /\ WeeksElapsedAt(e, e.disputeTime) = a
  BY AgreeSlack, AgreeReads
<1>2. Agree(wd, we, X)
  BY <1>1, AgreeRelease, AgreeSlack, AgreeWeeks
<1>3. /\ SettleTrustedAndClose(d, b, s) = RefundAndDie(bd, FALSE, back)
      /\ SettleTrustedAndClose(e, b, s) = RefundAndDie(be, FALSE, back)
  <2> HIDE DEF a, wd, we
  <2>1. wd.tokensFinal = we.tokensFinal /\ ClaimBase(wd) = ClaimBase(we)
    BY <1>1, <1>2, AgreeSlack, AgreeReads
  <2>2. Agree(rd, re, {"reported"})
    BY <1>1, <1>2, AgreeCharge, AgreeRecord
  <2> HIDE DEF owed
  <2>3. rd.tokensPaid = re.tokensPaid /\ DOMAIN rd = DealFields /\ DOMAIN re = DealFields
    BY <1>0, <2>2, AgreeFields DEF Agree
  <2>4. /\ td = [rd EXCEPT !.tokensPaid = Greater(@, wd.tokensFinal)]
        /\ te = [re EXCEPT !.tokensPaid = Greater(@, we.tokensFinal)]
    <3> HIDE DEF rd, re
    <3> QED
      BY <2>1, <2>3 DEF DealFields
  <2>5. Agree(td, te, {"reported"})
    <3> HIDE DEF rd, re, mark
    <3> QED
      BY <2>2 DEF Agree
  <2> HIDE DEF td, te
  <2>6. Agree(fd, fe, {"reported"})
    BY <1>0, <2>5, AgreeForfeit
  <2> HIDE DEF fd, fe
  <2>7. fd.deposit = fe.deposit /\ fd.buyerBond = fe.buyerBond /\ Refundable(fd) = Refundable(fe)
    BY <1>0, <2>6, AgreeFields, AgreeRefundable
  <2>8. SettleTrustedAndClose(d, b, s) = RefundAndDie(bd, FALSE, back)
    BY <2>4 DEF SettleTrustedAndClose, a, wd, owed, rd, fd
  <2>9. SettleTrustedAndClose(e, b, s) = RefundAndDie(be, FALSE, back)
    BY <1>1, <2>1, <2>4, <2>7 DEF SettleTrustedAndClose, we, owed, re, fe
  <2> QED
    BY <2>8, <2>9
<1>4. Agree(bd, be, {"reported"})
  <2> HIDE DEF wd, we, owed
  <2>1. Agree(rd, re, {"reported"})
    BY <1>1, <1>2, AgreeCharge, AgreeRecord
  <2>2. Agree(td, te, {"reported"})
    <3> HIDE DEF rd, re, mark
    <3> QED
      BY <2>1 DEF Agree
  <2> HIDE DEF td, te
  <2>3. Agree(fd, fe, {"reported"})
    BY <1>0, <2>2, AgreeForfeit
  <2> HIDE DEF fd, fe
  <2> QED
    BY <1>0, <2>3, AgreeMoney
<1> HIDE DEF bd, be, back
<1> QED
  BY <1>3, <1>4, AgreeRefund

\* Lifting a dispute treats records alike that agree outside the tick count.
LEMMA AgreeLifted ==
  ASSUME NEW d, NEW e, NEW X, X \subseteq Slack, Agree(d, e, X)
  PROVE  Agree(Lifted(d), Lifted(e), X)
<1> DEFINE kept == IF d.tokensPend > d.tokensFinal
                      /\ d.lastClaimTime + CLAIM_PROMOTE_WINDOW <= d.disputeTime
                   THEN d.tokensPend ELSE d.tokensFinal
<1>1. X \subseteq Unread /\ d.tokensFinal = e.tokensFinal /\ d.disputeTime = e.disputeTime
  BY AgreeSlack
<1>2. d.tokensPend = e.tokensPend /\ d.lastClaimTime = e.lastClaimTime
  BY <1>1, AgreeFields
<1>3. /\ Lifted(d) = [d EXCEPT !.tokensFinal = kept, !.tokensPend = kept, !.disputed = FALSE]
      /\ Lifted(e) = [e EXCEPT !.tokensFinal = kept, !.tokensPend = kept, !.disputed = FALSE]
  BY <1>1, <1>2 DEF Lifted, VoidClaims
<1> HIDE DEF kept
<1> QED
  BY <1>3 DEF Agree

\* Of records that differ in the trusted mark, one of them promoted, the claim that has stood
\* its window at the dispute leaves the same mark.
LEMMA AgreePromotedLifted ==
  ASSUME NEW d, NEW e, Agree(d, e, {"tokensFinal"}),
         d.tokensFinal \in Nat, d.tokensPend \in Nat,
         e.tokensFinal = Peak(d),
         d.lastClaimTime + CLAIM_PROMOTE_WINDOW <= d.disputeTime
  PROVE  Agree(Lifted(d), Lifted(e), {})
<1> DEFINE kept == Peak(d)
<1>1. DOMAIN d = DealFields /\ DOMAIN e = DealFields
  BY DEF Agree
<1>2. d.tokensPend = e.tokensPend /\ d.lastClaimTime = e.lastClaimTime /\ d.disputeTime = e.disputeTime
  BY DEF Agree, DealFields
<1> DEFINE K(r) == IF r.tokensPend > r.tokensFinal
                      /\ r.lastClaimTime + CLAIM_PROMOTE_WINDOW <= r.disputeTime
                   THEN r.tokensPend ELSE r.tokensFinal
           V(r, k) == [[r EXCEPT !.tokensFinal = k, !.tokensPend = k] EXCEPT !.disputed = FALSE]
<1>3. K(d) = kept /\ K(e) = kept
  BY <1>1, <1>2 DEF Peak, Greater
<1>4. Lifted(d) = V(d, K(d)) /\ Lifted(e) = V(e, K(e))
  BY DEF Lifted, VoidClaims
<1>5. Lifted(d) = V(d, kept) /\ Lifted(e) = V(e, kept)
  <2> HIDE DEF K, V, kept
  <2> QED
    BY <1>3, <1>4
<1> HIDE DEF kept
<1> QED
  BY <1>5 DEF Agree

\* A conceded dispute pays the same when the records agree once weeks are charged and the
\* dispute lifted.
LEMMA AgreeConceded ==
  ASSUME NEW d, NEW e, NEW X, X \subseteq Slack,
         NEW w, w = ChargeWeeksThrough(d, WeeksElapsedAt(d, d.disputeTime)),
         NEW v, v = ChargeWeeksThrough(e, WeeksElapsedAt(e, e.disputeTime)),
         Agree(Lifted(w), Lifted(v), X), IsSubscription(d) <=> IsSubscription(e)
  PROVE  Agree(ReleaseDisputeEffect(d), ReleaseDisputeEffect(e), {"reported"})
<1> DEFINE x == Lifted(w)
           y == Lifted(v)
           st == DisputeStake(x)
<1>1. st = DisputeStake(y)
  BY AgreeSlack, AgreeReads
<1>2. /\ ReleaseDisputeEffect(d) = IF IsSubscription(d) THEN SettleTrustedAndClose(x, st, 0)
                                   ELSE SettleTrustedAndClose(x, P, P)
      /\ ReleaseDisputeEffect(e) = IF IsSubscription(d) THEN SettleTrustedAndClose(y, st, 0)
                                   ELSE SettleTrustedAndClose(y, P, P)
  BY <1>1 DEF ReleaseDisputeEffect, Lifted
<1> HIDE DEF x, y, st
<1>3. Agree(x, y, X)
  BY DEF x, y
<1>4. /\ Agree(SettleTrustedAndClose(x, st, 0), SettleTrustedAndClose(y, st, 0), {"reported"})
      /\ Agree(SettleTrustedAndClose(x, P, P), SettleTrustedAndClose(y, P, P), {"reported"})
  BY <1>3, AgreeTrusted
<1> QED
  BY <1>2, <1>4

\* So does a subscription's dispute that times out, when the stakes are the same.
LEMMA AgreeRefused ==
  ASSUME NEW d, NEW e, NEW X, X \subseteq Slack,
         NEW w, w = ChargeWeeksThrough(d, WeeksElapsedAt(d, d.disputeTime)),
         NEW v, v = ChargeWeeksThrough(e, WeeksElapsedAt(e, e.disputeTime)),
         Agree(Lifted(w), Lifted(v), X), IsSubscription(d), IsSubscription(e),
         DisputeStake(w) = DisputeStake(v)
  PROVE  Agree(ResolveDisputeTimeoutEffect(d), ResolveDisputeTimeoutEffect(e), {"reported"})
<1> DEFINE x == Lifted(w)
           y == Lifted(v)
           st == DisputeStake(w)
<1>1. /\ ResolveDisputeTimeoutEffect(d) = SettleTrustedAndClose(x, st, st)
      /\ ResolveDisputeTimeoutEffect(e) = SettleTrustedAndClose(y, st, st)
  BY DEF ResolveDisputeTimeoutEffect, Lifted
<1> QED
  BY <1>1, AgreeTrusted

\* A week moves the index by one.
LEMMA WeekAdvances ==
  ASSUME NEW d, DOMAIN d = DealFields
  PROVE  /\ ChargeOneWeek(d).weekIndex = d.weekIndex + 1
         /\ DOMAIN ChargeOneWeek(d) = DealFields
<1> DEFINE target == (d.weekIndex + 1) * d.tokensPerWeek
           due    == IF target > d.tokensPaid THEN target - d.tokensPaid ELSE 0
           c      == ChargeTokens(d, due)
           base   == Greater(d.tokensFinal, d.tokensPend)
<1>1. DOMAIN c = DealFields /\ c.weekIndex = d.weekIndex
  <2> HIDE DEF due
  <2> QED
    BY DEF ChargeTokens, DealFields
<1>2. ChargeOneWeek(d) = [c EXCEPT !.tokensPaid = target, !.weekIndex = @ + 1, !.weekBaseTokens = base]
  BY DEF ChargeOneWeek
<1> HIDE DEF target, c, base
<1> QED
  BY <1>1, <1>2 DEF DealFields

\* Charging up to a week and then up to a later one is charging up to the later one: the
\* loop makes up for any keeper that came late.
LEMMA WeeksTwice ==
  ASSUME NEW d, DOMAIN d = DealFields, d.weekIndex \in Nat,
         NEW a \in Int, NEW b \in Int, a <= b, b <= 4
  PROVE  ChargeWeeksThrough(ChargeWeeksThrough(d, a), b) = ChargeWeeksThrough(d, b)
<1> DEFINE A(c) == IF c.weekIndex < a THEN ChargeOneWeek(c) ELSE c
           B(c) == IF c.weekIndex < b THEN ChargeOneWeek(c) ELSE c
           Good(c) == DOMAIN c = DealFields /\ c.weekIndex \in Nat
           Up(c, n) == c.weekIndex >= b \/ c.weekIndex >= n
<1>1. ASSUME NEW c, Good(c)
      PROVE  /\ Good(A(c)) /\ Good(B(c)) /\ (c.weekIndex >= b => B(c) = c)
             /\ \A n \in 0..3 : Up(c, n) => Up(B(c), n + 1)
             /\ A(c) = c \/ A(c) = B(c)
  BY <1>1, WeekAdvances
<1>2. ASSUME NEW c, Good(c) PROVE B(B(B(B(A(c))))) = B(B(B(B(c))))
  <2>1. Up(c, 0)
    BY <1>2
  <2> HIDE DEF A, B, Good, Up
  <2>2. Good(B(c)) /\ Up(B(c), 1)
    BY <1>1, <1>2, <2>1
  <2>3. Good(B(B(c))) /\ Up(B(B(c)), 2)
    BY <1>1, <2>2
  <2>4. Good(B(B(B(c)))) /\ Up(B(B(B(c))), 3)
    BY <1>1, <2>3
  <2>5. Good(B(B(B(B(c))))) /\ Up(B(B(B(B(c)))), 4)
    BY <1>1, <2>4
  <2>6. B(B(B(B(c)))).weekIndex >= b
    BY <2>5 DEF Up, Good
  <2>7. B(B(B(B(B(c))))) = B(B(B(B(c))))
    BY <1>1, <2>5, <2>6
  <2> QED
    BY <1>1, <1>2, <2>7
<1>3. Good(d)
  OBVIOUS
<1>4. CASE IsSubscription(d) /\ d.probeAccepted
  <2> DEFINE c == ChargeWeeksThrough(d, a)
  <2>1. c = A(A(A(A(d))))
    BY <1>4 DEF ChargeWeeksThrough
  <2>2. Agree(c, d, Charges)
    BY AgreeWeeks DEF Agree
  <2>3. IsSubscription(c) /\ c.probeAccepted
    BY <1>4, <2>2, ChargesKeep DEF IsSubscription
  <2>4. ChargeWeeksThrough(c, b) = B(B(B(B(c)))) /\ ChargeWeeksThrough(d, b) = B(B(B(B(d))))
    BY <1>4, <2>3 DEF ChargeWeeksThrough
  <2> HIDE DEF A, B, Good, Up, c
  <2>5. Good(A(d)) /\ Good(A(A(d))) /\ Good(A(A(A(d))))
    BY <1>1, <1>3
  <2>6. B(B(B(B(A(A(A(A(d)))))))) = B(B(B(B(d))))
    BY <1>2, <1>3, <2>5
  <2> QED
    BY <2>1, <2>4, <2>6 DEF c
<1>5. CASE ~(IsSubscription(d) /\ d.probeAccepted)
  BY <1>5 DEF ChargeWeeksThrough
<1> QED
  BY <1>4, <1>5

\* A target already reached charges nothing.
LEMMA WeeksIdle ==
  ASSUME NEW d, NEW a \in Int, d.weekIndex \in Nat, a <= d.weekIndex
  PROVE  ChargeWeeksThrough(d, a) = d
  BY DEF ChargeWeeksThrough

\* The weeks that have elapsed have started, and there are at most four.
LEMMA WeeksOrdered ==
  ASSUME NEW d, Typed(d), NEW t \in Nat
  PROVE  /\ WeeksElapsedAt(d, t) \in Int /\ WeeksStartedAt(d, t) \in Int
         /\ WeeksElapsedAt(d, t) <= WeeksStartedAt(d, t)
         /\ WeeksStartedAt(d, t) <= 4
<1>1. d.periodStart \in Nat /\ d.subWeeks \in Nat /\ d.subWeeks <= 4
  BY TimeAssumption DEF Typed
<1>2. (t - d.periodStart) \div SUB_WEEK_LEN \in Int
  BY <1>1, TimeAssumption
<1>3. WeeksElapsedAt(d, t) \in Int /\ WeeksElapsedAt(d, t) <= d.subWeeks
  BY <1>1, <1>2 DEF WeeksElapsedAt, Lesser
<1> QED
  BY <1>1, <1>3 DEF WeeksStartedAt

\* The keeper's call, up to the tick count, charges the weeks.
LEMMA KeeperCharges ==
  ASSUME NEW d, Typed(d), NEW a \in Int
  PROVE  Agree(SettleBoundaries(d, a), ChargeWeeksThrough(d, a), Slack)
<1> DEFINE c == ChargeWeeksThrough(d, a)
<1>0. DOMAIN d = DealFields /\ d.weekIndex \in Nat
  BY DEF Typed
<1>1. Agree(c, d, Charges)
  BY <1>0, AgreeWeeks DEF Agree
<1>2. DOMAIN c = DealFields
  BY <1>1 DEF Agree
<1> HIDE DEF c
<1>3. CASE a <= d.weekIndex
  BY <1>0, <1>3, WeeksIdle DEF SettleBoundaries, Agree
<1>4. CASE ~(a <= d.weekIndex)
  <2> DEFINE n == (IF c.probeAccepted THEN Greater(c.tokensFinal, TICK_SIZE)
                   ELSE c.tokensFinal) \div TICK_SIZE
             r == [c EXCEPT !.ticksFinalized = n]
  <2>1. SettleBoundaries(d, a) = ReportFinalized(r)
    BY <1>4 DEF SettleBoundaries, RecordDelivered, c
  <2> HIDE DEF n
  <2>2. Agree(r, c, Slack)
    BY <1>2 DEF Agree, Slack
  <2> HIDE DEF r
  <2>3. Agree(ReportFinalized(r), c, Slack)
    BY <2>2 DEF Agree, Slack, ReportFinalized
  <2> QED
    BY <2>1, <2>3 DEF c
<1> QED
  BY <1>3, <1>4

\* What promoting does: the trusted mark rises to the peak, which stays, and nothing else.
LEMMA Promoted ==
  ASSUME NEW d, Typed(d), NEW t \in Nat, WindowPassed(d, t)
  PROVE  /\ Agree(d, PromoteDue(d, t), {"tokensFinal"})
         /\ PromoteDue(d, t).tokensFinal = Peak(d)
         /\ Peak(PromoteDue(d, t)) = Peak(d)
  BY DEF Typed, DealFields, Agree, PromoteDue, Promote, Peak, Greater

\* Promoting twice is promoting once.
LEMMA PromoteTwice ==
  ASSUME NEW d, Typed(d), NEW t \in Nat
  PROVE  PromoteDue(PromoteDue(d, t), t) = PromoteDue(d, t)
<1>1. CASE WindowPassed(d, t)
  <2> DEFINE p == PromoteDue(d, t)
  <2>1. /\ p = [d EXCEPT !.tokensFinal = Peak(d)] /\ DOMAIN d = DealFields
    BY <1>1 DEF PromoteDue, Promote, Peak, Typed
  <2>2. Peak(p) = Peak(d) /\ p.lastClaimTime = d.lastClaimTime
    BY <1>1, <2>1, Promoted DEF DealFields
  <2> HIDE DEF p
  <2>3. Promote(p) = [p EXCEPT !.tokensFinal = Peak(d)]
    BY <2>2 DEF Promote, Peak
  <2>4. Promote(p) = p
    BY <2>1, <2>3
  <2> QED
    BY <1>1, <2>2, <2>4 DEF PromoteDue, WindowPassed, p
<1>2. CASE ~WindowPassed(d, t)
  BY <1>2 DEF PromoteDue
<1> QED
  BY <1>1, <1>2

\* Promoting treats records alike that agree outside the tick count.
LEMMA AgreePromote ==
  ASSUME NEW d, NEW e, NEW X, X \subseteq Slack, Agree(d, e, X), NEW t
  PROVE  Agree(PromoteDue(d, t), PromoteDue(e, t), X)
<1>1. /\ X \subseteq Unread /\ Peak(d) = Peak(e)
      /\ WindowPassed(d, t) = WindowPassed(e, t)
  BY AgreeSlack, AgreeReads
<1>2. /\ Promote(d) = [d EXCEPT !.tokensFinal = Peak(d)]
      /\ Promote(e) = [e EXCEPT !.tokensFinal = Peak(d)]
  BY <1>1 DEF Promote, Peak
<1> DEFINE m == Peak(d)
<1>3. Agree([d EXCEPT !.tokensFinal = m], [e EXCEPT !.tokensFinal = m], X)
  <2> HIDE DEF m
  <2> QED
    BY DEF Agree
<1> QED
  BY <1>1, <1>2, <1>3 DEF PromoteDue

\* So does raising a dispute.
LEMMA AgreeDispute ==
  ASSUME NEW d, NEW e, NEW X, Agree(d, e, X), NEW t
  PROVE  Agree(DisputeEffect(d, t), DisputeEffect(e, t), X)
  BY DEF Agree, DisputeEffect

\* Promotion and weeks commute: the week's base is the highest claim, trusted or not.
LEMMA PromoteWeeks ==
  ASSUME NEW d, Typed(d), NEW t \in Nat, NEW a
  PROVE  Agree(PromoteDue(ChargeWeeksThrough(d, a), t), ChargeWeeksThrough(PromoteDue(d, t), a), {})
<1> DEFINE c == ChargeWeeksThrough(d, a)
           p == PromoteDue(d, t)
           q == ChargeWeeksThrough(p, a)
<1>0. DOMAIN d = DealFields /\ Agree(d, d, {})
  BY DEF Typed, Agree
<1>1. Agree(c, d, Charges)
  BY <1>0, AgreeWeeks
<1>2. /\ c.tokensFinal = d.tokensFinal /\ Peak(c) = Peak(d) /\ DOMAIN c = DealFields
      /\ WindowPassed(c, t) <=> WindowPassed(d, t)
  BY <1>1, ChargesKeep DEF Agree, WindowPassed
<1>3. CASE WindowPassed(d, t)
  <2>1. Agree(d, p, {"tokensFinal"}) /\ p.tokensFinal = Peak(d) /\ Peak(p) = Peak(d)
    BY <1>3, Promoted
  <2>2. Agree(c, q, {"tokensFinal"})
    BY <2>1, AgreeWeeks DEF Unread
  <2>3. Agree(q, p, Charges)
    BY <2>1, AgreeSym, AgreeWeeks DEF Unread
  <2>4. q.tokensFinal = Peak(d)
    BY <2>1, <2>3, ChargesKeep
  <2>5. PromoteDue(c, t) = [c EXCEPT !.tokensFinal = Peak(d)]
    BY <1>2, <1>3 DEF PromoteDue, Promote, Peak
  <2> HIDE DEF c, p, q
  <2> QED
    BY <1>2, <2>2, <2>4, <2>5 DEF Agree, c, p, q
<1>4. CASE ~WindowPassed(d, t)
  BY <1>2, <1>4 DEF PromoteDue, Agree
<1> QED
  BY <1>3, <1>4

\* Raising a dispute and charging weeks commute.
LEMMA DisputeWeeks ==
  ASSUME NEW d, Typed(d), NEW t, NEW a
  PROVE  Agree(DisputeEffect(ChargeWeeksThrough(d, a), t), ChargeWeeksThrough(DisputeEffect(d, t), a), {})
<1> DEFINE F == {"disputed", "everDisputed", "disputeTime"}
           c == ChargeWeeksThrough(d, a)
           x == DisputeEffect(d, t)
           q == ChargeWeeksThrough(x, a)
<1>1. DOMAIN d = DealFields
  BY DEF Typed
<1>2. Agree(d, x, F) /\ Peak(x) = Peak(d)
  BY <1>1 DEF Agree, DisputeEffect, Peak, DealFields
<1>3. x.disputed = TRUE /\ x.everDisputed = TRUE /\ x.disputeTime = t
  BY <1>1 DEF DisputeEffect, DealFields
<1>4. Agree(c, q, F)
  BY <1>2, AgreeWeeks DEF Unread
<1>5. Agree(q, x, Charges)
  BY <1>2, AgreeSym, AgreeWeeks DEF Unread
<1>6. q.disputed = TRUE /\ q.everDisputed = TRUE /\ q.disputeTime = t
  BY <1>3, <1>5, ChargesKeep
<1> HIDE DEF c, q
<1> QED
  BY <1>4, <1>6 DEF Agree, DisputeEffect, c, q

\* Payouts are read from the ledgers.
LEMMA SamePayouts ==
  ASSUME NEW x, NEW y, Agree(x, y, {"reported"}) PROVE Payouts(x) = Payouts(y)
<1>1. x.got = y.got /\ x.burned = y.burned
  BY AgreeFields DEF Unread
<1> QED
  BY <1>1 DEF Payouts

\* Every way out after an early promotion.
LEMMA AfterFinalize ==
  ASSUME NEW d, Typed(d), d.probeAccepted, NEW t \in Nat
  PROVE  /\ ExitPayouts(PromoteDue(d, t), t) = ExitPayouts(d, t)
         /\ IsSubscription(d) => RefusedPayouts(PromoteDue(d, t), t) = RefusedPayouts(d, t)
<1> DEFINE p == PromoteDue(d, t)
<1>0. CASE ~WindowPassed(d, t)
  BY <1>0 DEF PromoteDue
<1>1. CASE WindowPassed(d, t)
  <2>1. Agree(d, p, {"tokensFinal"}) /\ p.tokensFinal = Peak(d) /\ Peak(p) = Peak(d)
    BY <1>1, Promoted
  <2>2. PromoteDue(p, t) = PromoteDue(d, t)
    BY PromoteTwice
  <2> HIDE DEF p
  <2>3. /\ IsSubscription(p) <=> IsSubscription(d)
        /\ WeeksElapsedAt(p, t) = WeeksElapsedAt(d, t)
        /\ WeeksStartedAt(p, t) = WeeksStartedAt(d, t)
        /\ p.probeAccepted = d.probeAccepted
    <3>1. {"tokensFinal"} \subseteq Unread
      BY DEF Unread
    <3>2. d.probeAccepted = p.probeAccepted
      BY <2>1, <3>1, AgreeFields
    <3>3. /\ \A u : WeeksElapsedAt(d, u) = WeeksElapsedAt(p, u)
          /\ \A u : WeeksStartedAt(d, u) = WeeksStartedAt(p, u)
          /\ IsSubscription(d) <=> IsSubscription(p)
      BY <2>1, <3>1, AgreeReads
    <3> QED
      BY <3>2, <3>3
  <2>4. StopEffect(p, t) = StopEffect(d, t)
    BY <2>2, <2>3 DEF StopEffect
  <2>5. SellerStopEffect(p, t) = SellerStopEffect(d, t)
    BY <2>2, <2>3 DEF SellerStopEffect
  <2> DEFINE x == DisputeEffect(d, t)
             y == DisputeEffect(p, t)
             a == WeeksElapsedAt(d, t)
             w == ChargeWeeksThrough(x, a)
             v == ChargeWeeksThrough(y, a)
  <2>6. /\ x.disputeTime = t /\ y.disputeTime = t /\ Peak(x) = Peak(d) /\ Peak(y) = Peak(d)
        /\ x.tokensFinal = d.tokensFinal /\ x.tokensPend = d.tokensPend
        /\ y.tokensFinal = Peak(d) /\ x.lastClaimTime = d.lastClaimTime
    BY <2>1 DEF DisputeEffect, Agree, DealFields, Peak
  <2>7. Agree(x, y, {"tokensFinal"}) /\ {"tokensFinal"} \subseteq Unread
    BY <2>1, AgreeDispute DEF Unread
  <2>8. /\ WeeksElapsedAt(x, x.disputeTime) = a /\ WeeksElapsedAt(y, y.disputeTime) = a
        /\ IsSubscription(x) <=> IsSubscription(d)
        /\ IsSubscription(y) <=> IsSubscription(d)
    <3>1. Agree(d, x, {"disputed", "everDisputed", "disputeTime"})
      BY <2>1 DEF Agree, DisputeEffect
    <3>2. /\ \A u : WeeksElapsedAt(d, u) = WeeksElapsedAt(x, u)
          /\ IsSubscription(d) <=> IsSubscription(x)
      BY <3>1, AgreeReads DEF Unread
    <3>3. /\ \A u : WeeksElapsedAt(x, u) = WeeksElapsedAt(y, u)
          /\ IsSubscription(x) <=> IsSubscription(y)
      BY <2>7, AgreeReads
    <3> QED
      BY <2>6, <3>2, <3>3
  <2> HIDE DEF x, y, a
  <2>9. Agree(w, v, {"tokensFinal"}) /\ Agree(w, x, Charges)
    BY <2>6, <2>7, AgreeWeeks
  <2>10. Agree(v, y, Charges)
    BY <2>6, <2>7, AgreeSym, AgreeWeeks
  <2>11. /\ w.tokensFinal = d.tokensFinal /\ w.tokensPend = d.tokensPend /\ v.tokensFinal = Peak(w)
         /\ w.lastClaimTime = d.lastClaimTime /\ w.disputeTime = t
    BY <2>6, <2>9, <2>10, ChargesKeep
  <2>12. Agree(Lifted(w), Lifted(v), {})
    <3>1. w.tokensFinal \in Nat /\ w.tokensPend \in Nat
      BY <2>11 DEF Typed
    <3>2. w.lastClaimTime + CLAIM_PROMOTE_WINDOW <= w.disputeTime
      <4>1. d.lastClaimTime \in Nat /\ CLAIM_PROMOTE_WINDOW \in Nat
        BY TimeAssumption DEF Typed, CLAIM_PROMOTE_WINDOW
      <4> QED
        BY <1>1, <2>11, <4>1 DEF WindowPassed
    <3> QED
      BY <2>9, <2>11, <3>1, <3>2, AgreePromotedLifted
  <2>13. DisputeStake(w) = DisputeStake(v)
    BY <2>7, <2>9, AgreeReads
  <2>14. w = ChargeWeeksThrough(x, WeeksElapsedAt(x, x.disputeTime))
         /\ v = ChargeWeeksThrough(y, WeeksElapsedAt(y, y.disputeTime))
    BY <2>8
  <2> HIDE DEF w, v
  <2>15. {} \subseteq Slack
    OBVIOUS
  <2>16. Agree(ReleaseDisputeEffect(x), ReleaseDisputeEffect(y), {"reported"})
    BY <2>8, <2>12, <2>14, <2>15, AgreeConceded
  <2>17. IsSubscription(d) =>
           Agree(ResolveDisputeTimeoutEffect(x), ResolveDisputeTimeoutEffect(y), {"reported"})
    BY <2>8, <2>12, <2>13, <2>14, <2>15, AgreeRefused
  <2>18. Payouts(ReleaseDisputeEffect(x)) = Payouts(ReleaseDisputeEffect(y))
    BY <2>16, SamePayouts
  <2>19. IsSubscription(d) =>
           Payouts(ResolveDisputeTimeoutEffect(x)) = Payouts(ResolveDisputeTimeoutEffect(y))
    BY <2>17, SamePayouts
  <2>20. ExitPayouts(p, t) = ExitPayouts(d, t)
    BY <2>4, <2>5, <2>18 DEF ExitPayouts, x, y
  <2>21. IsSubscription(d) => RefusedPayouts(p, t) = RefusedPayouts(d, t)
    BY <2>19 DEF RefusedPayouts, x, y
  <2> QED
    BY <2>20, <2>21 DEF p
<1> QED
  BY <1>0, <1>1

\* Every way out of a subscription after an early keeper.
LEMMA AfterKeeper ==
  ASSUME NEW d, Typed(d), d.probeAccepted, IsSubscription(d), NEW t \in Nat
  PROVE  /\ ExitPayouts(SettleBoundaries(d, WeeksElapsedAt(d, t)), t) = ExitPayouts(d, t)
         /\ RefusedPayouts(SettleBoundaries(d, WeeksElapsedAt(d, t)), t) = RefusedPayouts(d, t)
<1> DEFINE a == WeeksElapsedAt(d, t)
           b == WeeksStartedAt(d, t)
           s == SettleBoundaries(d, a)
           c == ChargeWeeksThrough(d, a)
<1>0. /\ a \in Int /\ b \in Int /\ a <= b /\ b <= 4 /\ a <= 4
      /\ DOMAIN d = DealFields /\ d.weekIndex \in Nat
  <2>1. a \in Int /\ b \in Int /\ a <= b /\ b <= 4
    BY WeeksOrdered
  <2> HIDE DEF a, b
  <2> QED
    BY <2>1 DEF Typed
<1>1. Agree(s, c, Slack)
  BY <1>0, KeeperCharges
<1>2. Agree(c, d, Charges)
  <2>1. Agree(d, d, {})
    BY <1>0 DEF Agree
  <2> QED
    BY <2>1, AgreeWeeks
<1>3. Slack \subseteq Unread
  BY DEF Slack, Unread
<1>4. /\ s.subWeeks = d.subWeeks /\ s.periodStart = d.periodStart
      /\ s.probeAccepted = d.probeAccepted
  <2> HIDE DEF s, c
  <2>1. /\ s.subWeeks = c.subWeeks /\ s.periodStart = c.periodStart
        /\ s.probeAccepted = c.probeAccepted
    BY <1>1, <1>3, AgreeFields
  <2>2. /\ c.subWeeks = d.subWeeks /\ c.periodStart = d.periodStart
        /\ c.probeAccepted = d.probeAccepted
    BY <1>2, ChargesKeep
  <2> QED
    BY <2>1, <2>2
<1>5. /\ IsSubscription(s) <=> IsSubscription(d)
      /\ \A u : WeeksElapsedAt(s, u) = WeeksElapsedAt(d, u)
  BY <1>4 DEF IsSubscription, WeeksElapsedAt
<1>6. WeeksElapsedAt(s, t) = a /\ WeeksStartedAt(s, t) = b
  BY <1>4, <1>5 DEF WeeksStartedAt
<1> DEFINE p == PromoteDue(d, t)
           q == PromoteDue(s, t)
<1>7. Agree(q, ChargeWeeksThrough(p, a), Slack)
  <2>1. Agree(q, PromoteDue(c, t), Slack)
    BY <1>1, AgreePromote
  <2>2. Agree(PromoteDue(c, t), ChargeWeeksThrough(p, a), Slack)
    BY PromoteWeeks, AgreeWeaker
  <2> QED
    BY <2>1, <2>2, AgreeTrans
<1>8. DOMAIN p = DealFields /\ p.weekIndex \in Nat /\ (IsSubscription(p) <=> IsSubscription(d))
  BY <1>0 DEF PromoteDue, Promote, IsSubscription, DealFields
<1>9. IsSubscription(q)
  BY <1>4 DEF PromoteDue, Promote, IsSubscription
<1> HIDE DEF a, b, s, c, p, q
<1>10. ASSUME NEW n \in Int, a <= n, n <= 4
       PROVE  Agree(ChargeWeeksThrough(q, n), ChargeWeeksThrough(p, n), Slack)
  <2>1. Agree(ChargeWeeksThrough(q, n), ChargeWeeksThrough(ChargeWeeksThrough(p, a), n), Slack)
    BY <1>3, <1>7, AgreeSlack, AgreeWeeks
  <2> QED
    BY <1>0, <1>8, <1>10, <2>1, WeeksTwice
<1>11. /\ StopEffect(d, t) = PayFinalAndClose(ChargeWeeksThrough(p, b))
       /\ StopEffect(s, t) = PayFinalAndClose(ChargeWeeksThrough(q, b))
       /\ SellerStopEffect(d, t) = PayFinalAndClose(ChargeWeeksThrough(p, a))
       /\ SellerStopEffect(s, t) = PayFinalAndClose(ChargeWeeksThrough(q, a))
  <2>1. StopEffect(d, t) = PayFinalAndClose(ChargeWeeksThrough(p, b))
    BY <1>8 DEF StopEffect, p, b
  <2>2. StopEffect(s, t) = PayFinalAndClose(ChargeWeeksThrough(q, b))
    BY <1>4, <1>6, <1>9 DEF StopEffect, q
  <2>3. SellerStopEffect(d, t) = PayFinalAndClose(ChargeWeeksThrough(p, a))
    BY DEF SellerStopEffect, p, a
  <2>4. SellerStopEffect(s, t) = PayFinalAndClose(ChargeWeeksThrough(q, a))
    BY <1>4, <1>5, <1>6 DEF SellerStopEffect, q
  <2> QED
    BY <2>1, <2>2, <2>3, <2>4
<1>12. /\ Payouts(StopEffect(s, t)) = Payouts(StopEffect(d, t))
       /\ Payouts(SellerStopEffect(s, t)) = Payouts(SellerStopEffect(d, t))
  <2>1. Agree(PayFinalAndClose(ChargeWeeksThrough(q, b)), PayFinalAndClose(ChargeWeeksThrough(p, b)), {"reported"})
    BY <1>0, <1>10, AgreeClose
  <2>2. Agree(PayFinalAndClose(ChargeWeeksThrough(q, a)), PayFinalAndClose(ChargeWeeksThrough(p, a)), {"reported"})
    BY <1>0, <1>10, AgreeClose
  <2> QED
    BY <1>11, <2>1, <2>2, SamePayouts
<1> DEFINE x == DisputeEffect(d, t)
           y == DisputeEffect(s, t)
           w == ChargeWeeksThrough(x, a)
           v == ChargeWeeksThrough(y, a)
<1>13. Agree(y, w, Slack)
  <2>1. Agree(y, DisputeEffect(c, t), Slack)
    BY <1>1, AgreeDispute
  <2>2. Agree(DisputeEffect(c, t), w, Slack)
    BY DisputeWeeks, AgreeWeaker DEF c
  <2> QED
    BY <2>1, <2>2, AgreeTrans
<1>14. DOMAIN x = DealFields /\ x.weekIndex \in Nat
  BY <1>0 DEF DisputeEffect, DealFields
<1>15. Agree(v, w, Slack)
  <2>1. Agree(v, ChargeWeeksThrough(w, a), Slack)
    BY <1>3, <1>13, AgreeSlack, AgreeWeeks
  <2> QED
    BY <1>0, <1>14, <2>1, WeeksTwice
<1>16. /\ w = ChargeWeeksThrough(x, WeeksElapsedAt(x, x.disputeTime))
       /\ v = ChargeWeeksThrough(y, WeeksElapsedAt(y, y.disputeTime))
       /\ IsSubscription(x) /\ IsSubscription(y)
  <2>1. /\ x.disputeTime = t /\ x.periodStart = d.periodStart /\ x.subWeeks = d.subWeeks
    BY <1>0 DEF DisputeEffect, DealFields
  <2>2. DOMAIN s = DealFields
    BY <1>1 DEF Agree
  <2>3. /\ y.disputeTime = t /\ y.periodStart = d.periodStart /\ y.subWeeks = d.subWeeks
    BY <1>4, <2>2 DEF DisputeEffect, DealFields
  <2>4. WeeksElapsedAt(x, x.disputeTime) = a /\ WeeksElapsedAt(y, y.disputeTime) = a
    BY <2>1, <2>3 DEF WeeksElapsedAt, a
  <2> QED
    BY <2>1, <2>3, <2>4 DEF IsSubscription
<1> HIDE DEF x, y, w, v
<1>17. Agree(Lifted(v), Lifted(w), Slack) /\ DisputeStake(v) = DisputeStake(w)
  BY <1>3, <1>15, AgreeLifted, AgreeReads
<1>18. /\ Agree(ReleaseDisputeEffect(y), ReleaseDisputeEffect(x), {"reported"})
       /\ Agree(ResolveDisputeTimeoutEffect(y), ResolveDisputeTimeoutEffect(x), {"reported"})
  BY <1>16, <1>17, AgreeConceded, AgreeRefused
<1>19. /\ Payouts(ReleaseDisputeEffect(y)) = Payouts(ReleaseDisputeEffect(x))
       /\ Payouts(ResolveDisputeTimeoutEffect(y)) = Payouts(ResolveDisputeTimeoutEffect(x))
  BY <1>18, SamePayouts
<1>20. ExitPayouts(s, t) = ExitPayouts(d, t) /\ RefusedPayouts(s, t) = RefusedPayouts(d, t)
  BY <1>12, <1>19 DEF ExitPayouts, RefusedPayouts, x, y
<1> QED
  BY <1>20 DEF s, a

\* Stopping, quitting or conceding pays the same whether or not somebody called finalize
\* first and promoted a matured claim.
THEOREM FinalizeCanWait == Spec => []FinalizeTimingIrrelevant
<1>1. TypeOK => FinalizeTimingIrrelevant
  BY AfterFinalize, TimeAssumption DEF TypeOK, FinalizeTimingIrrelevant, Streaming
<1> QED
  BY <1>1, TypeCorrect, PTL

\* settleWeek and finalize may come late or never: every way out of a subscription, a
\* dispute that times out included, pays both parties and burns the same whether or not
\* one of them came first.
THEOREM KeeperCanWait == Spec => []KeeperTimingIrrelevant
<1>1. TypeOK => KeeperTimingIrrelevant
  <2> SUFFICES ASSUME TypeOK, Streaming, IsSubscription(deal) PROVE KeeperTimingIrrelevant
    BY DEF KeeperTimingIrrelevant
  <2> DEFINE s == SettleBoundaries(deal, WeeksElapsedAt(deal, now))
             p == PromoteDue(deal, now)
             O(d) == <<ExitPayouts(d, now), RefusedPayouts(d, now)>>
  <2>1. Typed(deal) /\ now \in Nat /\ deal.probeAccepted
    BY TimeAssumption DEF TypeOK, Streaming
  <2>2. O(s) = O(deal)
    BY <2>1, AfterKeeper
  <2>3. O(p) = O(deal)
    BY <2>1, AfterFinalize
  <2>4. \A d \in {deal, s, p} : O(d) = O(deal)
    <3> HIDE DEF O, s, p
    <3> QED
      BY <2>2, <2>3
  <2>5. KeeperTimingIrrelevant <=> \A o1, o2 \in { O(d) : d \in {deal, s, p} } : o1 = o2
    BY DEF KeeperTimingIrrelevant
  <2> HIDE DEF O, s, p
  <2> QED
    BY <2>4, <2>5
<1> QED
  BY <1>1, TypeCorrect, PTL
-----------------------------------------------------------------------------
(***************************************************************************)
(* Every way of closing a deal: it is gone and shut, its term is what it   *)
(* was, and no dispute is left behind that was not there.                  *)
(***************************************************************************)
\* The term is kept from step to step.
LEMMA SameTermTrans ==
  ASSUME NEW d, NEW e, NEW f, SameTerm(d, e), SameTerm(e, f)
  PROVE  SameTerm(d, f)
BY DEF SameTerm

\* Its fields too.
LEMMA TermFields == ASSUME NEW d, NEW e, SameTerm(d, e) PROVE DOMAIN e = DealFields
BY DEF SameTerm

\* Money that comes or goes.
LEMMA MoneyTerm ==
  ASSUME NEW d, DOMAIN d = DealFields, NEW n, NEW amount
  PROVE  SameTerm(d, PayShell(d, n, amount)) /\ SameTerm(d, BurnShell(d, amount))
<1>1. SameTerm(d, PayShell(d, n, amount))
  <2> DEFINE bal == d.balance - amount
             led == Credit(d.got, n, amount)
  <2>1. PayShell(d, n, amount) = [d EXCEPT !.balance = bal, !.got = led]
    BY DEF PayShell, DealFields
  <2> HIDE DEF bal, led
  <2> QED
    BY <2>1 DEF SameTerm, DealFields
<1>2. SameTerm(d, BurnShell(d, amount))
  BY DEF BurnShell, SameTerm, DealFields
<1> QED
  BY <1>1, <1>2

\* Charging weeks writes what charging writes.
LEMMA WeeksOnly ==
  ASSUME NEW d, DOMAIN d = DealFields, NEW a
  PROVE  Agree(ChargeWeeksThrough(d, a), d, Charges)
<1>1. Agree(d, d, {})
  BY DEF Agree
<1> QED
  BY <1>1, AgreeWeeks

\* A charge, of tokens or of weeks.
LEMMA ChargeTerm ==
  ASSUME NEW d, DOMAIN d = DealFields, NEW n
  PROVE  SameTerm(d, ChargeTokens(d, n)) /\ SameTerm(d, ChargeWeeksThrough(d, n))
<1>1. ASSUME NEW e, Agree(e, d, Charges) PROVE SameTerm(d, e)
  BY <1>1 DEF Agree, Charges, DealFields, SameTerm
<1> QED
  BY <1>1, ChargeOnly, WeeksOnly

\* Trusting, or voiding, a claim.
LEMMA PromoteTerm ==
  ASSUME NEW d, DOMAIN d = DealFields, NEW t
  PROVE  SameTerm(d, Promote(d)) /\ SameTerm(d, PromoteDue(d, t)) /\ SameTerm(d, VoidClaims(d))
<1>1. SameTerm(d, Promote(d)) /\ SameTerm(d, d)
  BY DEF Promote, SameTerm, DealFields
<1>2. SameTerm(d, PromoteDue(d, t))
  BY <1>1 DEF PromoteDue
<1>3. SameTerm(d, VoidClaims(d))
  BY DEF VoidClaims, SameTerm, DealFields
<1> QED
  BY <1>1, <1>2, <1>3

\* Reporting what was delivered.
LEMMA RecordTerm ==
  ASSUME NEW d, DOMAIN d = DealFields
  PROVE  SameTerm(d, RecordDelivered(d)) /\ SameTerm(d, ReportFinalized(d))
BY DEF RecordDelivered, ReportFinalized, SameTerm, DealFields

\* The probe tick and the buyer's bond go back to the escrow.
LEMMA ReleaseTerm ==
  ASSUME NEW d, DOMAIN d = DealFields
  PROVE  SameTerm(d, ReleaseProbe(d)) /\ SameTerm(d, ReleaseBuyerBond(d))
BY DEF ReleaseProbe, ReleaseBuyerBond, SameTerm, DealFields

\* Bonds are burned.
LEMMA ForfeitTerm ==
  ASSUME NEW d, DOMAIN d = DealFields, NEW x, NEW y
  PROVE  SameTerm(d, ForfeitBonds(d, x, y))
<1> DEFINE b == Lesser(x, d.buyerBond)
           s == Lesser(y, d.sellerBond)
           e == [d EXCEPT !.buyerBond = @ - b, !.sellerBond = @ - s]
<1>1. ForfeitBonds(d, x, y) = BurnShell(e, b + s)
  BY DEF ForfeitBonds
<1> HIDE DEF b, s
<1>2. SameTerm(d, e)
  BY DEF SameTerm, DealFields
<1> HIDE DEF e
<1>3. SameTerm(e, BurnShell(e, b + s))
  BY <1>2, MoneyTerm, TermFields
<1> QED
  BY <1>1, <1>2, <1>3, SameTermTrans

\* Fees are burned or rebated.
LEMMA SettleFeesTerm ==
  ASSUME NEW d, DOMAIN d = DealFields, NEW clean
  PROVE  SameTerm(d, SettleFees(d, clean))
<1> DEFINE rebate == IF clean /\ ~d.everDisputed
                     THEN Lesser(Rebate(d.ticksFinalized), d.feeAccrued) ELSE 0
           e == [d EXCEPT !.finalizedOwed = @ + rebate, !.feeAccrued = 0]
           b == BurnShell(e, d.feeAccrued - rebate)
<1>1. SettleFees(d, clean) = ReportFinalized(b)
  BY DEF SettleFees
<1> HIDE DEF rebate
<1>2. SameTerm(d, e)
  BY DEF SameTerm, DealFields
<1> HIDE DEF e
<1>3. SameTerm(e, b)
  BY <1>2, MoneyTerm, TermFields
<1> HIDE DEF b
<1>4. SameTerm(b, ReportFinalized(b))
  BY <1>3, RecordTerm, TermFields
<1> QED
  BY <1>1, <1>2, <1>3, <1>4, SameTermTrans

\* The seller is paid and the contract is gone.
LEMMA PayOwedAndDieCloses ==
  ASSUME NEW d, DOMAIN d = DealFields, d.opened = FALSE
  PROVE  Closed(d, PayOwedAndDie(d))
<1> DEFINE z == [d EXCEPT !.finalizedOwed = 0]
           p == PayShell(z, Seller, d.finalizedOwed)
           q == PayShell(p, Seller, p.balance)
<1>1. PayOwedAndDie(d) = [q EXCEPT !.alive = FALSE]
  BY DEF PayOwedAndDie, Die
<1>2. SameTerm(d, z)
  BY DEF SameTerm, DealFields
<1> HIDE DEF z
<1>3. SameTerm(z, p)
  BY <1>2, MoneyTerm, TermFields
<1> HIDE DEF p
<1>4. SameTerm(p, q)
  BY <1>3, MoneyTerm, TermFields
<1> HIDE DEF q
<1>5. Closed(q, PayOwedAndDie(d))
  BY <1>1, <1>2, <1>3, <1>4 DEF Closed, SameTerm, DealFields
<1> QED
  BY <1>2, <1>3, <1>4, <1>5, SameTermTrans DEF Closed

\* The buyer is refunded, the seller paid, the contract gone.
LEMMA RefundAndDieCloses ==
  ASSUME NEW d, DOMAIN d = DealFields, NEW clean, NEW refund
  PROVE  Closed(d, RefundAndDie(d, clean, refund))
<1> DEFINE m == [d EXCEPT !.deposit = 0, !.buyerBond = 0, !.opened = FALSE,
                          !.finalizedOwed = @ + d.sellerBond, !.sellerBond = 0]
           f == SettleFees(m, clean)
           p == PayShell(f, d.buyer, refund)
<1>1. RefundAndDie(d, clean, refund) = PayOwedAndDie(p)
  BY DEF RefundAndDie
<1>2. SameTerm(d, m) /\ m.opened = FALSE
  BY DEF SameTerm, DealFields
<1> HIDE DEF m
<1>3. SameTerm(m, f)
  BY <1>2, SettleFeesTerm, TermFields
<1> HIDE DEF f
<1>4. SameTerm(f, p)
  BY <1>3, MoneyTerm, TermFields
<1> HIDE DEF p
<1>5. Closed(p, PayOwedAndDie(p))
  BY <1>2, <1>3, <1>4, PayOwedAndDieCloses DEF SameTerm
<1> QED
  BY <1>1, <1>2, <1>3, <1>4, <1>5, SameTermTrans DEF Closed

\* The trusted claims are paid and the deal closed.
LEMMA PayFinalAndCloseCloses ==
  ASSUME NEW d, DOMAIN d = DealFields
  PROVE  Closed(d, PayFinalAndClose(d))
<1> DEFINE owed == IF ~IsSubscription(d) /\ d.tokensFinal > d.tokensPaid
                   THEN d.tokensFinal - d.tokensPaid ELSE 0
           paid == ChargeTokens(d, owed)
           mark == IF owed > 0 THEN d.tokensFinal ELSE paid.tokensPaid
           p == [paid EXCEPT !.tokensPaid = mark]
           r == ReleaseProbe(p)
           b == ReleaseBuyerBond(r)
           c == RecordDelivered(b)
<1>1. SameTerm(d, paid)
  BY ChargeTerm
<1>2. PayFinalAndClose(d) = RefundAndDie(c, TRUE, c.deposit)
  BY <1>1 DEF PayFinalAndClose, CloseClean
<1> HIDE DEF owed, paid, mark
<1>3. SameTerm(paid, p)
  BY <1>1 DEF SameTerm, DealFields
<1> HIDE DEF p
<1>4. SameTerm(p, r)
  BY <1>3, ReleaseTerm, TermFields
<1> HIDE DEF r
<1>5. SameTerm(r, b)
  BY <1>4, ReleaseTerm, TermFields
<1> HIDE DEF b
<1>6. SameTerm(b, c)
  BY <1>5, RecordTerm, TermFields
<1> HIDE DEF c
<1>7. Closed(c, PayFinalAndClose(d))
  BY <1>2, <1>6, RefundAndDieCloses DEF SameTerm
<1> QED
  BY <1>1, <1>3, <1>4, <1>5, <1>6, <1>7, SameTermTrans DEF Closed

\* A disputed deal is settled and closed.
LEMMA SettleTrustedAndCloseCloses ==
  ASSUME NEW d, DOMAIN d = DealFields, NEW x, NEW y
  PROVE  Closed(d, SettleTrustedAndClose(d, x, y))
<1> DEFINE r == ReleaseProbe(d)
           w == ChargeWeeksThrough(r, WeeksElapsedAt(d, d.disputeTime))
           base == ClaimBase(w)
           owed == IF w.tokensFinal > base THEN w.tokensFinal - base ELSE 0
           c == ChargeTokens(w, owed)
           q == RecordDelivered(c)
           mark == Greater(q.tokensPaid, w.tokensFinal)
           t == [q EXCEPT !.tokensPaid = mark]
           f == ForfeitBonds(t, x, y)
           refund == Refundable(f)
           b == BurnShell(f, f.deposit - refund)
<1>1. SameTerm(d, r)
  BY ReleaseTerm
<1>2. SameTerm(r, w)
  BY <1>1, ChargeTerm, TermFields
<1>3. SameTerm(w, c)
  BY <1>2, ChargeTerm, TermFields
<1>4. SameTerm(c, q)
  BY <1>3, RecordTerm, TermFields
<1>5. SettleTrustedAndClose(d, x, y) = RefundAndDie(b, FALSE, refund + f.buyerBond)
  BY <1>4 DEF SettleTrustedAndClose
<1> HIDE DEF r, w, base, owed, c, q, mark
<1>6. SameTerm(q, t)
  BY <1>4 DEF SameTerm, DealFields
<1> HIDE DEF t
<1>7. SameTerm(t, f)
  BY <1>6, ForfeitTerm, TermFields
<1> HIDE DEF f, refund
<1>8. SameTerm(f, b)
  BY <1>7, MoneyTerm, TermFields
<1> HIDE DEF b
<1>9. Closed(b, SettleTrustedAndClose(d, x, y))
  BY <1>5, <1>8, RefundAndDieCloses DEF SameTerm
<1>10. SameTerm(d, q)
  BY <1>1, <1>2, <1>3, <1>4, SameTermTrans
<1> QED
  BY <1>10, <1>6, <1>7, <1>8, <1>9, SameTermTrans DEF Closed

\* The buyer's stop.
LEMMA StopCloses ==
  ASSUME NEW d, DOMAIN d = DealFields, NEW t
  PROVE  Closed(d, StopEffect(d, t))
<1>1. CASE d.probeAccepted
  <2> DEFINE due == PromoteDue(d, t)
             p   == Promote(due)
             s   == IF IsSubscription(due) THEN due ELSE ForfeitBonds(p, P, 0)
             w   == ChargeWeeksThrough(s, WeeksStartedAt(d, t))
  <2>1. StopEffect(d, t) = PayFinalAndClose(w)
    BY <1>1 DEF StopEffect
  <2>2. SameTerm(d, due)
    BY PromoteTerm
  <2>3. SameTerm(due, p)
    BY <2>2, PromoteTerm, TermFields
  <2>4. SameTerm(p, ForfeitBonds(p, P, 0))
    BY <2>3, ForfeitTerm, TermFields
  <2> HIDE DEF due, p
  <2>5. SameTerm(d, s)
    BY <2>2, <2>3, <2>4, SameTermTrans
  <2> HIDE DEF s
  <2>6. SameTerm(s, w)
    BY <2>5, ChargeTerm, TermFields
  <2> HIDE DEF w
  <2>7. Closed(w, PayFinalAndClose(w))
    BY <2>6, PayFinalAndCloseCloses DEF SameTerm
  <2> QED
    BY <2>1, <2>5, <2>6, <2>7, SameTermTrans DEF Closed
<1>2. CASE ~d.probeAccepted
  <2> DEFINE bondBurn == Lesser(d.probeTick, d.sellerBond)
             r == ReleaseBuyerBond(d)
             c == [r EXCEPT !.finalizedOwed = @ + (d.sellerBond - bondBurn),
                            !.sellerBond = 0, !.probeTick = 0, !.deposit = 0, !.opened = FALSE]
             b == BurnShell(c, d.probeTick + bondBurn)
             p == PayShell(b, d.buyer, r.deposit)
  <2>1. StopEffect(d, t) = PayOwedAndDie(p)
    BY <1>2 DEF StopEffect, StopDuringProbe
  <2>2. SameTerm(d, r)
    BY ReleaseTerm
  <2> HIDE DEF bondBurn, r
  <2>3. SameTerm(r, c) /\ c.opened = FALSE
    BY <2>2 DEF SameTerm, DealFields
  <2> HIDE DEF c
  <2>4. SameTerm(c, b)
    BY <2>3, MoneyTerm, TermFields
  <2> HIDE DEF b
  <2>5. SameTerm(b, p)
    BY <2>4, MoneyTerm, TermFields
  <2> HIDE DEF p
  <2>6. Closed(p, PayOwedAndDie(p))
    BY <2>3, <2>4, <2>5, PayOwedAndDieCloses DEF SameTerm
  <2> QED
    BY <2>1, <2>2, <2>3, <2>4, <2>5, <2>6, SameTermTrans DEF Closed
<1> QED
  BY <1>1, <1>2

\* The seller's stop.
LEMMA SellerStopCloses ==
  ASSUME NEW d, DOMAIN d = DealFields, NEW t
  PROVE  Closed(d, SellerStopEffect(d, t))
<1> DEFINE trial == IF d.probeAccepted THEN d ELSE ForfeitBonds(d, 0, P)
           due   == PromoteDue(trial, t)
           cut   == [due EXCEPT !.tokensPend = due.tokensFinal]
           s     == IF d.probeAccepted /\ ~IsSubscription(d)
                    THEN ForfeitBonds(cut, 0, P) ELSE due
           w     == ChargeWeeksThrough(s, WeeksElapsedAt(d, t))
<1>1. SellerStopEffect(d, t) = PayFinalAndClose(w)
  BY DEF SellerStopEffect
<1>2. SameTerm(d, trial)
  BY ForfeitTerm DEF SameTerm
<1> HIDE DEF trial
<1>3. SameTerm(trial, due)
  BY <1>2, PromoteTerm, TermFields
<1> HIDE DEF due
<1>4. SameTerm(due, cut)
  BY <1>3 DEF SameTerm, DealFields
<1> HIDE DEF cut
<1>5. SameTerm(cut, ForfeitBonds(cut, 0, P))
  BY <1>4, ForfeitTerm, TermFields
<1>6. SameTerm(d, s)
  BY <1>2, <1>3, <1>4, <1>5, SameTermTrans
<1> HIDE DEF s
<1>7. SameTerm(s, w)
  BY <1>6, ChargeTerm, TermFields
<1> HIDE DEF w
<1>8. Closed(w, PayFinalAndClose(w))
  BY <1>7, PayFinalAndCloseCloses DEF SameTerm
<1> QED
  BY <1>1, <1>6, <1>7, <1>8, SameTermTrans DEF Closed

\* Both ends of a dispute lift it.
LEMMA DisputeEndCloses ==
  ASSUME NEW d, DOMAIN d = DealFields
  PROVE  /\ Closed(d, ReleaseDisputeEffect(d)) /\ Closed(d, ResolveDisputeTimeoutEffect(d))
         /\ ReleaseDisputeEffect(d).disputed = FALSE
         /\ ResolveDisputeTimeoutEffect(d).disputed = FALSE
<1> DEFINE w == ChargeWeeksThrough(d, WeeksElapsedAt(d, d.disputeTime))
           v == VoidClaims(w)
           u == [v EXCEPT !.disputed = FALSE]
<1>1. SameTerm(d, w)
  BY ChargeTerm
<1>2. SameTerm(w, v)
  BY <1>1, PromoteTerm, TermFields
<1>3. /\ ReleaseDisputeEffect(d) \in {SettleTrustedAndClose(u, DisputeStake(u), 0),
                                      SettleTrustedAndClose(u, P, P)}
  BY DEF ReleaseDisputeEffect
<1> DEFINE stake == DisputeStake(w)
           pending == IF d.tokensPend > d.tokensFinal THEN d.tokensPend - d.tokensFinal ELSE 0
           burn == Lesser(PayOf(pending) + FeeOf(pending), d.deposit)
           x == [u EXCEPT !.deposit = @ - burn]
           b == BurnShell(x, burn)
<1>4. ResolveDisputeTimeoutEffect(d) \in {SettleTrustedAndClose(u, stake, stake),
                                          SettleTrustedAndClose(b, 2 * P, 2 * P)}
  BY DEF ResolveDisputeTimeoutEffect
<1> HIDE DEF w, v, stake, pending, burn
<1>5. SameTerm(v, u) /\ u.disputed = FALSE
  BY <1>2 DEF SameTerm, DealFields
<1> HIDE DEF u
<1>6. SameTerm(u, x)
  BY <1>5 DEF SameTerm, DealFields
<1> HIDE DEF x
<1>7. SameTerm(x, b)
  BY <1>6, MoneyTerm, TermFields
<1> HIDE DEF b
<1>8. SameTerm(d, u) /\ SameTerm(d, b)
  BY <1>1, <1>2, <1>5, <1>6, <1>7, SameTermTrans
<1>a. b.disputed = FALSE
  BY <1>5, <1>6, <1>7 DEF SameTerm
<1>9. ASSUME NEW e, SameTerm(d, e), e.disputed = FALSE, NEW m, NEW n
      PROVE  /\ Closed(d, SettleTrustedAndClose(e, m, n))
             /\ SettleTrustedAndClose(e, m, n).disputed = FALSE
  <2>1. Closed(e, SettleTrustedAndClose(e, m, n))
    BY <1>9, SettleTrustedAndCloseCloses DEF SameTerm
  <2>2. SettleTrustedAndClose(e, m, n).disputed = FALSE
    BY <1>9, <2>1 DEF Closed, SameTerm
  <2> QED
    BY <1>9, <2>1, <2>2, SameTermTrans DEF Closed
<1> QED
  BY <1>3, <1>4, <1>5, <1>8, <1>a, <1>9

-----------------------------------------------------------------------------
(***************************************************************************)
(* The books of a deal add up.  Two facts of the order book are needed:    *)
(* prices are whole SHELL, so the platform fee of a tick is exact, and a   *)
(* subscription is sold in whole ticks per week.  Escrow, earnings and the *)
(* paid mark are then the same whole number of ticks at every moment.      *)
(***************************************************************************)
\* Multiplication is monotonic.
LEMMA MulMono ==
  ASSUME NEW a \in Int, NEW b \in Int, NEW u \in Nat, a <= b PROVE a * u <= b * u
<1>1. (b - a) * u >= 0
  <2>1. b - a \in Nat
    OBVIOUS
  <2> QED
    BY <2>1
<1>2. (b - a) * u = b * u - a * u
  OBVIOUS
<1> QED
  BY <1>1, <1>2

\* Dividing a multiple.
LEMMA DivExact == ASSUME NEW a \in Int, NEW u \in Nat \ {0} PROVE (a * u) \div u = a
<1> DEFINE q == (a * u) \div u
<1>0. a * u \in Int
  OBVIOUS
<1>1. q \in Int /\ q * u <= a * u /\ a * u < q * u + u
  BY <1>0
<1> HIDE DEF q
<1>2. q <= a
  <2> SUFFICES ASSUME a + 1 <= q PROVE FALSE
    BY <1>1
  <2>1. (a + 1) * u <= q * u
    BY <1>1, MulMono
  <2>2. (a + 1) * u = a * u + u
    OBVIOUS
  <2> QED
    BY <1>1, <2>1, <2>2
<1>3. a <= q
  <2> SUFFICES ASSUME q + 1 <= a PROVE FALSE
    BY <1>1
  <2>1. (q + 1) * u <= a * u
    BY <1>1, MulMono
  <2>2. (q + 1) * u = q * u + u
    BY <1>1
  <2> QED
    BY <1>1, <2>1, <2>2
<1> QED
  BY <1>1, <1>2, <1>3 DEF q

\* The price of n whole ticks is n times the price of one, fee included.
LEMMA TicksValue ==
  ASSUME NEW n \in Nat, WholeShells
  PROVE  /\ PayOf(n * TICK_SIZE) = n * P /\ FeeOf(n * TICK_SIZE) = n * Fee(P)
         /\ PayOf(n * TICK_SIZE) + FeeOf(n * TICK_SIZE) = n * Unit
<1>1. P \in Nat /\ TICK_SIZE \in Nat \ {0} /\ BPS_DENOMINATOR \in Nat \ {0} /\ PLATFORM_FEE_BPS \in Nat
  BY PriceAssumption
<1>2. PayOf(n * TICK_SIZE) = n * P
  <2>1. (n * TICK_SIZE) * P = (n * P) * TICK_SIZE /\ n * P \in Int
    BY <1>1
  <2>2. ((n * P) * TICK_SIZE) \div TICK_SIZE = n * P
    BY <1>1, <2>1, DivExact
  <2> QED
    BY <2>1, <2>2 DEF PayOf
<1>3. P * PLATFORM_FEE_BPS = Fee(P) * BPS_DENOMINATOR /\ Fee(P) \in Nat
  <2> DEFINE x == P * PLATFORM_FEE_BPS
             f == x \div BPS_DENOMINATOR
  <2>1. x \in Nat /\ x % BPS_DENOMINATOR = 0
    BY <1>1 DEF WholeShells
  <2> HIDE DEF x
  <2>2. x = f * BPS_DENOMINATOR
    BY <1>1, <2>1
  <2> QED
    BY <1>1, <2>2, FeeNat DEF Fee, x
<1>4. Fee(n * P) = n * Fee(P)
  <2>1. (n * P) * PLATFORM_FEE_BPS = n * (P * PLATFORM_FEE_BPS)
    BY <1>1
  <2>2. n * (Fee(P) * BPS_DENOMINATOR) = (n * Fee(P)) * BPS_DENOMINATOR /\ n * Fee(P) \in Int
    BY <1>1, <1>3
  <2>3. ((n * Fee(P)) * BPS_DENOMINATOR) \div BPS_DENOMINATOR = n * Fee(P)
    BY <1>1, <2>2, DivExact
  <2>4. (n * P) * PLATFORM_FEE_BPS = (n * Fee(P)) * BPS_DENOMINATOR
    BY <1>3, <2>1, <2>2
  <2>5. Fee(n * P) = ((n * P) * PLATFORM_FEE_BPS) \div BPS_DENOMINATOR
    BY DEF Fee
  <2> QED
    BY <2>3, <2>4, <2>5
<1>5. FeeOf(n * TICK_SIZE) = n * Fee(P)
  BY <1>2, <1>4 DEF FeeOf
<1>6. n * P + n * Fee(P) = n * Unit
  BY <1>1, <1>3 DEF Unit
<1> QED
  BY <1>2, <1>5, <1>6

\* Charging n of the k ticks the escrow holds.
LEMMA ChargeTicks ==
  ASSUME NEW d, DOMAIN d = DealFields, NEW k \in Nat, NEW n \in Nat, n <= k, WholeShells,
         d.deposit = k * Unit, d.finalizedOwed \in Nat, d.feeAccrued \in Nat
  PROVE  ChargeTokens(d, n * TICK_SIZE) =
           [d EXCEPT !.deposit = (k - n) * Unit, !.finalizedOwed = @ + n * P,
                     !.feeAccrued = @ + n * Fee(P)]
<1> DEFINE tok == n * TICK_SIZE
<1>1. /\ PayOf(tok) = n * P /\ FeeOf(tok) = n * Fee(P) /\ PayOf(tok) + FeeOf(tok) = n * Unit
  BY TicksValue
<1>2. P \in Nat /\ Fee(P) \in Nat /\ Unit \in Nat
  BY PriceAssumption, FeeNat, UnitNat
<1>3. n * Unit <= k * Unit /\ n * Unit \in Nat /\ k * Unit \in Nat
  BY <1>2, MulMono
<1>4. (k - n) * Unit = k * Unit - n * Unit
  BY <1>2
<1> HIDE DEF tok
<1> DEFINE x == PayOf(tok)
           y == FeeOf(tok)
<1>5. ~(x + y > d.deposit) /\ d.deposit - (x + y) = (k - n) * Unit
  BY <1>1, <1>3, <1>4
<1>6. ChargeTokens(d, tok) = [d EXCEPT !.deposit = @ - (x + y), !.finalizedOwed = @ + x, !.feeAccrued = @ + y]
  BY <1>5 DEF ChargeTokens
<1>7. x = n * P /\ y = n * Fee(P)
  BY <1>1
<1> HIDE DEF x, y
<1>8. ChargeTokens(d, tok) = [d EXCEPT !.deposit = (k - n) * Unit, !.finalizedOwed = @ + x, !.feeAccrued = @ + y]
  BY <1>5, <1>6 DEF DealFields
<1> QED
  BY <1>7, <1>8 DEF tok

\* One more week of a subscription, in ticks: the paid mark moves to the end of the week,
\* escrow and earnings by the same number of ticks.
LEMMA WeekBooks ==
  ASSUME NEW d, Covers(d, 0), d.opened, d.probeAccepted, IsSubscription(d),
         NEW K \in Nat \ {0}, NEW j \in Nat \ {0}, BooksAt(d, K, j),
         d.weekIndex < d.subWeeks, WholeShells
  PROVE  BooksAt(ChargeOneWeek(d), K, j)
<1> DEFINE w == d.weekIndex
           m == Mark(d, j)
           n == (w + 1) * j - m
           c == ChargeTokens(d, n * TICK_SIZE)
           r == ChargeOneWeek(d)
           base == Greater(d.tokensFinal, d.tokensPend)
<1>1. /\ Typed(d) /\ DOMAIN d = DealFields /\ w \in Nat /\ d.deposit \in Nat
      /\ d.finalizedOwed \in Nat /\ d.feeAccrued \in Nat /\ d.subWeeks = SUB_WEEKS
      /\ d.tokensPend \in Nat /\ d.tokensFinal \in Nat /\ d.tokensPerWeek \in Nat
  BY DEF Covers, Typed, IsSubscription
<1>2. /\ TICK_SIZE \in Nat \ {0} /\ SUB_WEEKS \in Nat /\ P \in Nat /\ Unit \in Nat
  BY PriceAssumption, TimeAssumption, UnitNat
<1>3. /\ K = j * SUB_WEEKS /\ d.tokensPerWeek = j * TICK_SIZE /\ d.weekIndex <= d.subWeeks
      /\ d.tokensPaid = m * TICK_SIZE /\ d.deposit = (K - m) * Unit
      /\ SellerGain(d) = m * P /\ K >= 2 /\ d.fundedTokens = K * TICK_SIZE
  BY DEF BooksAt
<1>4. /\ m \in Nat /\ m <= (w + 1) * j /\ (w + 1) * j <= K /\ w * j \in Nat
      /\ (w + 1) * j \in Nat /\ (w + 1) * j >= 1
  <2>1. w * j \in Nat /\ (w + 1) * j = w * j + j
    BY <1>1
  <2>2. (w + 1) * j <= SUB_WEEKS * j /\ SUB_WEEKS * j = K
    BY <1>1, <1>2, <1>3, MulMono
  <2> QED
    BY <2>1, <2>2 DEF Mark, Greater
<1> HIDE DEF w, m
<1>5. n \in Nat /\ n <= K - m /\ K - m \in Nat
  BY <1>4
<1>6. c = [d EXCEPT !.deposit = (K - m - n) * Unit, !.finalizedOwed = @ + n * P,
                    !.feeAccrued = @ + n * Fee(P)]
  <2> DEFINE k == K - m
  <2>1. k \in Nat /\ n \in Nat /\ n <= k /\ d.deposit = k * Unit
    BY <1>3, <1>5
  <2> HIDE DEF n, k
  <2>2. ChargeTokens(d, n * TICK_SIZE) =
          [d EXCEPT !.deposit = (k - n) * Unit, !.finalizedOwed = @ + n * P,
                    !.feeAccrued = @ + n * Fee(P)]
    BY <1>1, <2>1, ChargeTicks
  <2> QED
    BY <2>2 DEF k
<1>7. /\ (w + 1) * d.tokensPerWeek = ((w + 1) * j) * TICK_SIZE
      /\ ((w + 1) * j) * TICK_SIZE - m * TICK_SIZE = n * TICK_SIZE
      /\ m * TICK_SIZE <= ((w + 1) * j) * TICK_SIZE
  <2>0. w \in Nat
    BY <1>1
  <2>1. (w + 1) * (j * TICK_SIZE) = ((w + 1) * j) * TICK_SIZE
    BY <1>2, <2>0
  <2>2. m * TICK_SIZE <= ((w + 1) * j) * TICK_SIZE
    BY <1>2, <1>4, MulMono
  <2> DEFINE g == (w + 1) * j
  <2>3. g \in Nat /\ m \in Nat
    BY <1>4
  <2> HIDE DEF g
  <2>4. g * TICK_SIZE - m * TICK_SIZE = (g - m) * TICK_SIZE
    BY <1>2, <2>3
  <2> QED
    BY <1>3, <2>1, <2>2, <2>4 DEF g
<1> DEFINE target == ((w + 1) * j) * TICK_SIZE
           due    == IF target > d.tokensPaid THEN target - d.tokensPaid ELSE 0
<1>8. due = n * TICK_SIZE
  <2>1. target \in Int /\ m * TICK_SIZE \in Int
    BY <1>2, <1>4
  <2> HIDE DEF target, n
  <2>2. target - m * TICK_SIZE = n * TICK_SIZE /\ m * TICK_SIZE <= target
    BY <1>7 DEF target
  <2> QED
    BY <1>3, <2>1, <2>2
<1>9. r = [c EXCEPT !.tokensPaid = target, !.weekIndex = @ + 1, !.weekBaseTokens = base]
  BY <1>7, <1>8 DEF ChargeOneWeek, w
<1> HIDE DEF target, due, c, n, base
<1>10. /\ DOMAIN r = DealFields
       /\ r.tokensPaid = target /\ r.weekIndex = w + 1 /\ r.weekBaseTokens = base
       /\ r.deposit = (K - m - n) * Unit /\ r.finalizedOwed = d.finalizedOwed + n * P
       /\ r.fundedTokens = d.fundedTokens /\ r.tokensPerWeek = d.tokensPerWeek
       /\ r.subWeeks = d.subWeeks /\ r.probeAccepted = d.probeAccepted /\ r.opened = d.opened
       /\ r.tokensPend = d.tokensPend /\ r.got = d.got /\ r.put = d.put
       /\ r.sellerBond = d.sellerBond
  <2>1. DOMAIN c = DealFields
    BY <1>1, <1>6
  <2>2. /\ DOMAIN r = DealFields
        /\ r.tokensPaid = target /\ r.weekIndex = c.weekIndex + 1 /\ r.weekBaseTokens = base
        /\ r.deposit = c.deposit /\ r.finalizedOwed = c.finalizedOwed
        /\ r.fundedTokens = c.fundedTokens /\ r.tokensPerWeek = c.tokensPerWeek
        /\ r.subWeeks = c.subWeeks /\ r.probeAccepted = c.probeAccepted /\ r.opened = c.opened
        /\ r.tokensPend = c.tokensPend /\ r.got = c.got /\ r.put = c.put
        /\ r.sellerBond = c.sellerBond
    BY <1>9, <2>1 DEF DealFields
  <2>3. /\ c.weekIndex = w
        /\ c.deposit = (K - m - n) * Unit /\ c.finalizedOwed = d.finalizedOwed + n * P
        /\ c.fundedTokens = d.fundedTokens /\ c.tokensPerWeek = d.tokensPerWeek
        /\ c.subWeeks = d.subWeeks /\ c.probeAccepted = d.probeAccepted /\ c.opened = d.opened
        /\ c.tokensPend = d.tokensPend /\ c.got = d.got /\ c.put = d.put
        /\ c.sellerBond = d.sellerBond
    BY <1>1, <1>6 DEF DealFields, w
  <2> HIDE DEF r
  <2> QED
    BY <2>2, <2>3
<1> HIDE DEF r
<1>11. Mark(r, j) = (w + 1) * j
  BY <1>4, <1>10 DEF Mark, Greater
<1>12. r.deposit = (K - Mark(r, j)) * Unit
  <2>1. K - m - n = K - (w + 1) * j
    BY <1>4 DEF n
  <2> QED
    BY <1>10, <1>11, <2>1
<1>13. SellerGain(r) = Mark(r, j) * P
  <2>1. SellerGain(r) = d.got[Seller] + (d.finalizedOwed + n * P) + d.sellerBond - d.put[Seller]
    BY <1>10 DEF SellerGain
  <2>2. d.got[Seller] \in Nat /\ d.put[Seller] \in Nat /\ d.sellerBond \in Nat
    BY <1>1 DEF Typed, Notes
  <2>3. n * P \in Nat
    BY <1>2, <1>5
  <2>4. SellerGain(r) = SellerGain(d) + n * P
    BY <1>1, <2>1, <2>2, <2>3 DEF SellerGain
  <2>5. m * P + n * P = (m + n) * P
    BY <1>2, <1>4, <1>5
  <2>6. m + n = (w + 1) * j
    BY <1>4 DEF n
  <2> QED
    BY <1>3, <1>11, <2>4, <2>5, <2>6
<1>14. r.tokensPend <= r.weekBaseTokens + r.tokensPerWeek
  BY <1>1, <1>10 DEF base, Greater
<1>15. r.weekIndex <= r.subWeeks
  BY <1>1, <1>2, <1>10 DEF w
<1>16. r.tokensPaid = Mark(r, j) * TICK_SIZE
  BY <1>10, <1>11 DEF target
<1> QED
  BY <1>1, <1>3, <1>10, <1>12, <1>13, <1>14, <1>15, <1>16 DEF BooksAt, r, IsSubscription

\* Any number of weeks up to the term, in ticks.
LEMMA WeeksBooks ==
  ASSUME NEW d, Covers(d, 0), d.opened, d.probeAccepted,
         NEW K \in Nat \ {0}, NEW j \in Nat \ {0}, BooksAt(d, K, j),
         NEW a \in Int, a <= d.subWeeks, WholeShells
  PROVE  BooksAt(ChargeWeeksThrough(d, a), K, j)
<1>1. CASE ~IsSubscription(d)
  BY <1>1 DEF ChargeWeeksThrough
<1>2. CASE IsSubscription(d)
  <2> DEFINE Step(e) == IF e.weekIndex < a THEN ChargeOneWeek(e) ELSE e
             Good(e) == /\ Covers(e, 0) /\ BooksAt(e, K, j) /\ e.opened = d.opened
                        /\ e.probeAccepted = d.probeAccepted /\ e.subWeeks = d.subWeeks
  <2>1. ASSUME NEW e, Good(e) PROVE Good(Step(e))
    <3>1. CASE e.weekIndex < a
      <4> DEFINE r == ChargeOneWeek(e)
      <4>1. Covers(r, 0)
        BY <2>1, ChargeOneWeekCovers
      <4>2. e.weekIndex < e.subWeeks
        <5>1. e.weekIndex \in Nat /\ e.subWeeks \in Int
          BY <2>1, TimeAssumption DEF Covers, Typed
        <5> QED
          BY <2>1, <3>1, <5>1
      <4>3. BooksAt(r, K, j)
        BY <1>2, <2>1, <4>2, WeekBooks DEF IsSubscription
      <4>4. Agree(r, e, Charges)
        <5>1. Agree(e, e, {})
          BY <2>1 DEF Covers, Typed, Agree
        <5> QED
          BY <5>1, AgreeOneWeek
      <4>5. r.opened = e.opened /\ r.probeAccepted = e.probeAccepted /\ r.subWeeks = e.subWeeks
        <5> HIDE DEF r
        <5> QED
          BY <4>4 DEF Agree, Charges, DealFields
      <4> QED
        BY <2>1, <3>1, <4>1, <4>3, <4>5
    <3>2. CASE ~(e.weekIndex < a)
      BY <2>1, <3>2
    <3> QED
      BY <3>1, <3>2
  <2>2. Good(d)
    OBVIOUS
  <2>3. ChargeWeeksThrough(d, a) = Step(Step(Step(Step(d))))
    BY <1>2 DEF ChargeWeeksThrough
  <2> HIDE DEF Step, Good
  <2>4. Good(Step(Step(Step(Step(d)))))
    BY <2>1, <2>2
  <2> QED
    BY <2>3, <2>4 DEF Good
<1> QED
  BY <1>1, <1>2

\* A credit to somebody else, and to the seller.
LEMMA CreditSeller ==
  ASSUME NEW ledger \in [Notes -> Nat], NEW n, NEW amount \in Nat
  PROVE  /\ n # Seller => Credit(ledger, n, amount)[Seller] = ledger[Seller]
         /\ Credit(ledger, Seller, amount)[Seller] = ledger[Seller] + amount
         /\ Credit(ledger, n, amount) \in [Notes -> Nat]
         /\ ledger[Seller] \in Nat
<1>1. Seller \in Notes
  BY DEF Notes
<1>2. n # Seller => Credit(ledger, n, amount)[Seller] = ledger[Seller]
  BY <1>1 DEF Credit
<1>3. Credit(ledger, Seller, amount)[Seller] = ledger[Seller] + amount
  BY <1>1 DEF Credit
<1> QED
  BY <1>1, <1>2, <1>3, CreditType

\* Where the books are the same, so are the entries of a funded deal.
LEMMA BooksFrame ==
  ASSUME NEW d, NEW e, SameBooks(d, e), SellerGain(e) = SellerGain(d),
         NEW K, NEW j, BooksAt(d, K, j)
  PROVE  BooksAt(e, K, j)
<1>1. Mark(e, j) = Mark(d, j) /\ (IsSubscription(e) <=> IsSubscription(d))
  BY DEF SameBooks, Mark, IsSubscription
<1> QED
  BY <1>1 DEF BooksAt, SameBooks

\* And stay in order.
LEMMA SameBooked ==
  ASSUME NEW d, NEW e, Booked(d), SameBooks(d, e), SellerGain(e) = SellerGain(d), BondFlag(e)
  PROVE  Booked(e)
<1>1. e.alive = d.alive /\ e.opened = d.opened /\ e.probeAccepted = d.probeAccepted /\ e.funded = d.funded
  BY DEF SameBooks
<1>2. ASSUME e.alive, e.funded PROVE \E K, j \in Nat \ {0} : BooksAt(e, K, j)
  <2>1. PICK K \in Nat \ {0}, j \in Nat \ {0} : BooksAt(d, K, j)
    BY <1>1, <1>2 DEF Booked
  <2> QED
    BY <2>1, BooksFrame
<1> QED
  BY <1>1, <1>2 DEF Booked

\* A deal that is gone is shut.
LEMMA ShutBooked == ASSUME NEW e, ~e.alive, ~e.opened PROVE Booked(e)
  BY DEF Booked, BondFlag
-----------------------------------------------------------------------------
(***************************************************************************)
(* Every public function keeps the books of a living deal.                 *)
(***************************************************************************)
\* Who the buyer may be, and what the seller has put in and got.
LEMMA PartyFacts ==
  ASSUME NEW d, Typed(d)
  PROVE  /\ d.buyer # Seller /\ d.got[Seller] \in Nat /\ d.put[Seller] \in Nat
         /\ d.got \in [Notes -> Nat] /\ d.put \in [Notes -> Nat]
         /\ \A b \in Buyers : b # Seller
         /\ d.finalizedOwed \in Nat /\ d.sellerBond \in Nat /\ DOMAIN d = DealFields
  BY PartiesAssumption DEF Typed, Notes

\* Listing, delisting and raising a dispute.
LEMMA ListingBooked ==
  ASSUME NEW d, Typed(d), Booked(d), NEW t
  PROVE  /\ Booked(PostFromNoteEffect(d)) /\ Booked(OnSellClosedEffect(d))
         /\ Booked(DisputeEffect(d, t))
<1>1. ASSUME NEW e, SameBooks(d, e), e.got = d.got, e.put = d.put, e.finalizedOwed = d.finalizedOwed,
             e.sellerBond = d.sellerBond, e.sellerBondFunded = d.sellerBondFunded
      PROVE  Booked(e)
  <2>1. SellerGain(e) = SellerGain(d)
    BY <1>1 DEF SellerGain
  <2>2. BondFlag(e)
    BY <1>1 DEF Booked, BondFlag, SameBooks
  <2> QED
    BY <1>1, <2>1, <2>2, SameBooked
<1>2. Booked(PostFromNoteEffect(d))
  <2> DEFINE e == PostFromNoteEffect(d)
  <2>1. /\ SameBooks(d, e) /\ e.got = d.got /\ e.put = d.put /\ e.finalizedOwed = d.finalizedOwed
        /\ e.sellerBond = d.sellerBond /\ e.sellerBondFunded = d.sellerBondFunded
    BY DEF Typed, DealFields, SameBooks, PostFromNoteEffect
  <2> QED
    BY <1>1, <2>1
<1>3. Booked(OnSellClosedEffect(d))
  <2> DEFINE e == OnSellClosedEffect(d)
  <2>1. /\ SameBooks(d, e) /\ e.got = d.got /\ e.put = d.put /\ e.finalizedOwed = d.finalizedOwed
        /\ e.sellerBond = d.sellerBond /\ e.sellerBondFunded = d.sellerBondFunded
    BY DEF Typed, DealFields, SameBooks, OnSellClosedEffect
  <2> QED
    BY <1>1, <2>1
<1>4. Booked(DisputeEffect(d, t))
  <2> DEFINE e == DisputeEffect(d, t)
  <2>1. /\ SameBooks(d, e) /\ e.got = d.got /\ e.put = d.put /\ e.finalizedOwed = d.finalizedOwed
        /\ e.sellerBond = d.sellerBond /\ e.sellerBondFunded = d.sellerBondFunded
    BY DEF Typed, DealFields, SameBooks, DisputeEffect
  <2> QED
    BY <1>1, <2>1
<1> QED
  BY <1>2, <1>3, <1>4

\* Posting a bond: what exceeds it comes straight back.
LEMMA BondsBooked ==
  ASSUME NEW d, Typed(d), d.alive, Booked(d), NEW amount \in Nat, amount >= BondAmount
  PROVE  /\ ~d.sellerBondFunded => Booked(FundDealEffect(d, amount))
         /\ Booked(FundBuyerBondEffect(d, amount))
<1>0. BondAmount \in Nat /\ amount - BondAmount \in Nat
  BY UnitNat
<1> DEFINE back == amount - BondAmount
           bond == BondAmount
<1>a. back \in Nat /\ bond \in Nat /\ back + bond = amount
  BY <1>0
<1>b. /\ d.buyer # Seller /\ d.got[Seller] \in Nat /\ d.put[Seller] \in Nat
      /\ d.got \in [Notes -> Nat] /\ d.put \in [Notes -> Nat]
      /\ d.finalizedOwed \in Nat /\ d.sellerBond \in Nat /\ DOMAIN d = DealFields
  BY PartyFacts
<1> HIDE DEF back
<1>1. ASSUME ~d.sellerBondFunded PROVE Booked(FundDealEffect(d, amount))
  <2> DEFINE e == FundDealEffect(d, amount)
             lp == Credit(d.put, Seller, amount)
             lg == Credit(d.got, Seller, back)
  <2>1. e = [d EXCEPT !.balance = (@ + amount) - back, !.put = lp, !.got = lg,
                      !.sellerBond = bond, !.sellerBondFunded = TRUE]
    BY <1>b DEF FundDealEffect, Receive, PayShell, DealFields, back
  <2>2. lp[Seller] = d.put[Seller] + amount /\ lg[Seller] = d.got[Seller] + back
    BY <1>a, <1>b, CreditSeller
  <2> HIDE DEF lp, lg, e, bond
  <2>3. /\ SameBooks(d, e) /\ e.put = lp /\ e.got = lg /\ e.sellerBond = bond
        /\ e.sellerBondFunded = TRUE /\ e.finalizedOwed = d.finalizedOwed
    BY <1>b, <2>1 DEF SameBooks, DealFields
  <2>4. d.sellerBond = 0
    BY <1>1 DEF Booked, BondFlag
  <2>5. SellerGain(e) = SellerGain(d)
    BY <1>a, <1>b, <2>2, <2>3, <2>4 DEF SellerGain
  <2>6. BondFlag(e)
    BY <2>3 DEF BondFlag
  <2> QED
    BY <2>3, <2>5, <2>6, SameBooked DEF e
<1>2. Booked(FundBuyerBondEffect(d, amount))
  <2> DEFINE e == FundBuyerBondEffect(d, amount)
             lp == Credit(d.put, d.buyer, amount)
             lg == Credit(d.got, d.buyer, back)
  <2>1. e = [d EXCEPT !.balance = (@ + amount) - back, !.put = lp, !.got = lg,
                      !.buyerBond = bond, !.buyerBondFunded = TRUE]
    BY <1>b DEF FundBuyerBondEffect, Receive, PayShell, DealFields, back
  <2>2. lp[Seller] = d.put[Seller] /\ lg[Seller] = d.got[Seller]
    BY <1>a, <1>b, CreditSeller
  <2> HIDE DEF lp, lg, e, bond
  <2>3. /\ SameBooks(d, e) /\ e.put = lp /\ e.got = lg /\ e.sellerBond = d.sellerBond
        /\ e.sellerBondFunded = d.sellerBondFunded /\ e.finalizedOwed = d.finalizedOwed
    BY <1>b, <2>1 DEF SameBooks, DealFields
  <2>4. SellerGain(e) = SellerGain(d)
    BY <2>2, <2>3 DEF SellerGain
  <2>5. BondFlag(e)
    BY <2>3 DEF BondFlag, Booked, SameBooks
  <2> QED
    BY <2>3, <2>4, <2>5, SameBooked DEF e
<1> QED
  BY <1>1, <1>2

\* A refused hand-over goes straight back; an accepted one of ticks ticks starts the books.
LEMMA FundFromOrderBookBooked ==
  ASSUME NEW d, Sound(d), d.alive, Booked(d), NEW t \in Nat, NEW b \in Buyers,
         NEW ticks \in Nat, NEW sub \in BOOLEAN, sub => ticks % SUB_WEEKS = 0, WholeShells
  PROVE  Booked(FundFromOrderBookEffect(d, t, b, ticks * Unit + (IF sub THEN BondAmount ELSE 0), sub))
<1> DEFINE bond == IF sub THEN BondAmount ELSE 0
           esc  == ticks * Unit
           paid == esc + bond
           lp   == Credit(d.put, b, paid)
           held == [d EXCEPT !.balance = @ + paid, !.put = lp, !.fills = @ + 1]
           e    == FundFromOrderBookEffect(d, t, b, paid, sub)
           no   == d.funded \/ paid < bond \/ paid - bond < 2 * Unit \/ paid - bond > MaxTicks * Unit
<1>1. Covers(d, 0) /\ Typed(d)
  BY SoundCovers
<1>2. /\ d.got[Seller] \in Nat /\ d.put[Seller] \in Nat
      /\ d.got \in [Notes -> Nat] /\ d.put \in [Notes -> Nat] /\ b # Seller
      /\ d.finalizedOwed \in Nat /\ d.sellerBond \in Nat /\ DOMAIN d = DealFields
  BY <1>1, PartyFacts
<1>3. bond \in Nat /\ Unit \in Nat \ {0} /\ esc \in Nat /\ paid \in Nat /\ paid - bond = esc
  <2>1. bond \in Nat /\ Unit \in Nat \ {0} /\ esc \in Nat
    BY UnitNat
  <2> HIDE DEF bond, esc
  <2> QED
    BY <2>1
<1>4. lp[Seller] = d.put[Seller]
  BY <1>2, <1>3, CreditSeller
<1>5. [Receive(d, b, paid) EXCEPT !.fills = @ + 1] = held
  <2> HIDE DEF paid
  <2> QED
    BY <1>2 DEF Receive, DealFields
<1>6. CASE no
  <2> DEFINE lg == Credit(d.got, b, paid)
             bal == held.balance - paid
  <2>1. e = PayShell(held, b, paid)
    BY <1>5, <1>6 DEF FundFromOrderBookEffect
  <2>2. lg[Seller] = d.got[Seller]
    BY <1>2, <1>3, CreditSeller
  <2>3. held.got = d.got /\ DOMAIN held = DealFields
    BY <1>2 DEF DealFields
  <2>4. e = [held EXCEPT !.balance = bal, !.got = lg]
    <3> HIDE DEF held, paid, e
    <3> QED
      BY <2>1, <2>3 DEF PayShell, DealFields
  <2> HIDE DEF lp, lg, bal, e, paid
  <2>5. /\ SameBooks(d, e) /\ e.put = lp /\ e.got = lg /\ e.sellerBond = d.sellerBond
        /\ e.sellerBondFunded = d.sellerBondFunded /\ e.finalizedOwed = d.finalizedOwed
    BY <1>2, <2>4 DEF SameBooks, DealFields
  <2>6. SellerGain(e) = SellerGain(d)
    BY <1>4, <2>2, <2>5 DEF SellerGain
  <2>7. BondFlag(e)
    BY <2>5 DEF BondFlag, Booked, SameBooks
  <2> QED
    BY <2>5, <2>6, <2>7, SameBooked DEF e, paid
<1>7. CASE ~no
  <2> DEFINE K == esc \div Unit
             tokens == K * TICK_SIZE
             weeks  == IF sub THEN SUB_WEEKS ELSE 0
             per    == IF sub THEN tokens \div SUB_WEEKS ELSE tokens
             flag   == held.buyerBondFunded \/ bond > 0
             f == [[held EXCEPT !.buyerBond = bond, !.buyerBondFunded = flag]
                     EXCEPT !.buyer = b, !.deposit = esc, !.funded = TRUE,
                            !.offerPosted = FALSE, !.fundedTime = t]
             g == [f EXCEPT !.subWeeks = weeks, !.weekIndex = 0, !.periodStart = t,
                            !.tokensPerWeek = per, !.fundedTokens = tokens, !.lastClaimTime = t]
  <2>1. K = ticks
    BY <1>3, DivExact
  <2>2. ~d.funded /\ ~d.opened /\ ~d.probeAccepted
    <3>1. ~d.funded
      BY <1>7
    <3> QED
      BY <3>1 DEF Sound, Lifecycle
  <2>3. ticks >= 2
    <3> SUFFICES ASSUME ticks <= 1 PROVE FALSE
      OBVIOUS
    <3>1. esc <= 1 * Unit
      BY <1>3, MulMono
    <3>2. 2 * Unit <= esc
      BY <1>3, <1>7
    <3> QED
      BY <1>3, <3>1, <3>2
  <2>4. e = g
    BY <1>3, <1>5, <1>7 DEF FundFromOrderBookEffect, RecordDealShape, RecordFunding
  <2> DEFINE h == [held EXCEPT !.buyerBond = bond, !.buyerBondFunded = flag]
  <2> HIDE DEF lp, paid, bond, flag, esc, K, tokens, weeks, per, e
  <2>5a. /\ DOMAIN h = DealFields /\ h.put = lp /\ h.got = d.got /\ h.sellerBond = d.sellerBond
         /\ h.sellerBondFunded = d.sellerBondFunded /\ h.finalizedOwed = d.finalizedOwed
         /\ h.alive = d.alive /\ h.opened = d.opened /\ h.probeAccepted = d.probeAccepted
    BY <1>2 DEF DealFields
  <2> HIDE DEF h
  <2>5b. f = [h EXCEPT !.buyer = b, !.deposit = esc, !.funded = TRUE,
                            !.offerPosted = FALSE, !.fundedTime = t]
    BY DEF h
  <2>5c. /\ DOMAIN f = DealFields /\ f.put = lp /\ f.got = d.got /\ f.sellerBond = d.sellerBond
         /\ f.sellerBondFunded = d.sellerBondFunded /\ f.finalizedOwed = d.finalizedOwed
         /\ f.alive = d.alive /\ f.opened = d.opened /\ f.probeAccepted = d.probeAccepted
         /\ f.deposit = esc
    BY <2>5a, <2>5b DEF DealFields
  <2> HIDE DEF f
  <2>5. /\ e.put = lp /\ e.got = d.got /\ e.sellerBond = d.sellerBond
        /\ e.sellerBondFunded = d.sellerBondFunded /\ e.finalizedOwed = d.finalizedOwed
        /\ e.alive = d.alive /\ e.opened = d.opened /\ e.probeAccepted = d.probeAccepted
        /\ e.deposit = esc /\ e.subWeeks = weeks /\ e.weekIndex = 0
        /\ e.tokensPerWeek = per /\ e.fundedTokens = tokens
    BY <2>4, <2>5c DEF DealFields
  <2>6. SellerGain(e) = SellerGain(d) /\ SellerGain(d) = 0
    BY <1>4, <2>2, <2>5 DEF SellerGain, Booked
  <2>7. BondFlag(e)
    BY <2>5 DEF BondFlag, Booked
  <2> DEFINE j == IF sub THEN ticks \div SUB_WEEKS ELSE 1
  <2>8. j \in Nat \ {0} /\ (sub => ticks = j * SUB_WEEKS /\ per = j * TICK_SIZE)
    <3>1. CASE sub
      <4> DEFINE q == ticks \div SUB_WEEKS
      <4>1. SUB_WEEKS \in Nat \ {0} /\ ticks % SUB_WEEKS = 0 /\ TICK_SIZE \in Nat
        BY <3>1, TimeAssumption, PriceAssumption
      <4>2. q \in Nat /\ ticks = q * SUB_WEEKS
        BY <4>1
      <4>3. q # 0
        <5> SUFFICES ASSUME q = 0 PROVE FALSE
          OBVIOUS
        <5>1. 0 * SUB_WEEKS = 0
          BY <4>1
        <5> HIDE DEF q
        <5> QED
          BY <2>3, <4>2, <5>1
      <4> HIDE DEF q
      <4>4. tokens = (q * TICK_SIZE) * SUB_WEEKS /\ q * TICK_SIZE \in Int
        BY <2>1, <4>1, <4>2 DEF tokens
      <4>5. tokens \div SUB_WEEKS = q * TICK_SIZE
        BY <4>1, <4>4, DivExact
      <4> QED
        BY <3>1, <4>2, <4>3, <4>5 DEF per, q
    <3>2. CASE ~sub
      BY <3>2
    <3> QED
      BY <3>1, <3>2
  <2> HIDE DEF j
  <2>9. BooksAt(e, ticks, j)
    <3>1. weeks \in Nat /\ (weeks # 0 => sub)
      BY TimeAssumption DEF weeks
    <3> QED
      BY <2>1, <2>2, <2>3, <2>5, <2>8, <3>1 DEF BooksAt, IsSubscription, tokens, esc
  <2>10. Booked(e)
    BY <2>2, <2>3, <2>5, <2>6, <2>7, <2>8, <2>9 DEF Booked
  <2> QED
    BY <2>10 DEF e, paid, esc, bond
<1> QED
  BY <1>6, <1>7

\* Opening takes the probe tick out of the escrow.
LEMMA OpenBooked ==
  ASSUME NEW d, Sound(d), d.alive, Booked(d), d.funded, ~d.opened, NEW t
  PROVE  Booked(OpenEffect(d, t))
<1> DEFINE e == OpenEffect(d, t)
<1>1. Typed(d) /\ DOMAIN d = DealFields
  BY SoundCovers DEF Typed
<1>2. ~d.probeAccepted
  BY DEF Sound, Lifecycle
<1>3. PICK K \in Nat \ {0}, j \in Nat \ {0} : BooksAt(d, K, j)
  BY DEF Booked
<1>4. /\ e.alive = d.alive /\ e.funded = d.funded /\ e.opened = TRUE /\ e.probeAccepted = FALSE
      /\ e.probeTick = P /\ e.deposit = d.deposit - P /\ e.fundedTokens = d.fundedTokens
      /\ e.tokensPerWeek = d.tokensPerWeek /\ e.subWeeks = d.subWeeks /\ e.weekIndex = d.weekIndex
      /\ e.got = d.got /\ e.put = d.put /\ e.finalizedOwed = d.finalizedOwed
      /\ e.sellerBond = d.sellerBond /\ e.sellerBondFunded = d.sellerBondFunded
  BY <1>1 DEF OpenEffect, DealFields
<1> HIDE DEF e
<1>5. SellerGain(e) = SellerGain(d) /\ SellerGain(d) = 0
  BY <1>2, <1>4 DEF SellerGain, Booked
<1>6. BooksAt(e, K, j)
  BY <1>2, <1>3, <1>4 DEF BooksAt, IsSubscription
<1>7. Booked(e)
  BY <1>3, <1>4, <1>5, <1>6 DEF Booked, BondFlag
<1> QED
  BY <1>7 DEF e

\* Accepting the probe pays one tick, fee included.
LEMMA AcceptProbeBooked ==
  ASSUME NEW d, Sound(d), d.alive, Booked(d), d.opened, ~d.probeAccepted, NEW t
  PROVE  Booked(AcceptProbeEffect(d, t))
<1> DEFINE e == AcceptProbeEffect(d, t)
           fee == Lesser(Fee(P), d.deposit)
<1>1. Typed(d) /\ DOMAIN d = DealFields /\ d.weekIndex \in Nat /\ d.finalizedOwed \in Nat
  BY SoundCovers DEF Typed
<1>2. d.funded
  BY DEF Sound, Lifecycle
<1>3. PICK K \in Nat \ {0}, j \in Nat \ {0} : BooksAt(d, K, j)
  BY <1>2 DEF Booked
<1>4. /\ K >= 2 /\ d.probeTick = P /\ d.deposit = K * Unit - P /\ d.weekIndex = 0
      /\ d.fundedTokens = K * TICK_SIZE
  BY <1>3 DEF BooksAt
<1>5. P \in Nat /\ Fee(P) \in Nat /\ Unit = P + Fee(P) /\ Unit \in Nat /\ TICK_SIZE \in Nat
  BY PriceAssumption, FeeNat, UnitNat DEF Unit
<1>6. fee = Fee(P) /\ d.deposit - fee = (K - 1) * Unit
  <2>1. 2 * Unit <= K * Unit /\ K * Unit \in Int
    BY <1>4, <1>5, MulMono
  <2>2. (K - 1) * Unit = K * Unit - Unit
    BY <1>5
  <2> QED
    BY <1>4, <1>5, <2>1, <2>2 DEF Lesser
<1> HIDE DEF fee
<1>7. /\ e.alive = d.alive /\ e.funded = d.funded /\ e.opened = d.opened /\ e.probeAccepted = TRUE
      /\ e.deposit = d.deposit - fee /\ e.fundedTokens = d.fundedTokens
      /\ e.tokensPerWeek = d.tokensPerWeek /\ e.subWeeks = d.subWeeks /\ e.weekIndex = d.weekIndex
      /\ e.tokensPaid = TICK_SIZE /\ e.tokensPend = TICK_SIZE /\ e.weekBaseTokens = 0
      /\ e.got = d.got /\ e.put = d.put /\ e.finalizedOwed = d.finalizedOwed + d.probeTick
      /\ e.sellerBond = d.sellerBond /\ e.sellerBondFunded = d.sellerBondFunded
  BY <1>1 DEF AcceptProbeEffect, DealFields, fee
<1> HIDE DEF e
<1>8. SellerGain(e) = P
  <2>1. SellerGain(d) = 0
    BY DEF Booked
  <2>2. d.got[Seller] \in Nat /\ d.put[Seller] \in Nat /\ d.sellerBond \in Nat
        /\ d.finalizedOwed \in Nat /\ P \in Nat
    BY <1>1, <1>5, PartyFacts, PriceAssumption
  <2>3. SellerGain(e) = d.got[Seller] + (d.finalizedOwed + P) + d.sellerBond - d.put[Seller]
    BY <1>4, <1>7 DEF SellerGain
  <2>4. d.got[Seller] + d.finalizedOwed + d.sellerBond - d.put[Seller] = 0
    BY <2>1 DEF SellerGain
  <2> DEFINE g == d.got[Seller]
             q == d.put[Seller]
  <2> HIDE DEF g, q
  <2> QED
    BY <2>2, <2>3, <2>4 DEF g, q
<1>9. Mark(e, j) = 1
  <2>1. 0 * j = 0
    OBVIOUS
  <2> QED
    BY <1>4, <1>7, <2>1 DEF Mark, Greater
<1>10. IsSubscription(e) => e.tokensPend <= e.weekBaseTokens + e.tokensPerWeek
  <2> SUFFICES ASSUME IsSubscription(e) PROVE e.tokensPend <= e.weekBaseTokens + e.tokensPerWeek
    OBVIOUS
  <2>1. e.tokensPerWeek = j * TICK_SIZE
    BY <1>3, <1>7 DEF BooksAt, IsSubscription
  <2>2. 1 * TICK_SIZE <= j * TICK_SIZE
    BY <1>5, MulMono
  <2> QED
    BY <1>5, <1>7, <2>1, <2>2
<1>11. BooksAt(e, K, j)
  <2>1. 1 * TICK_SIZE = TICK_SIZE /\ 1 * P = P
    BY <1>5
  <2> QED
    BY <1>3, <1>4, <1>6, <1>7, <1>8, <1>9, <1>10, <2>1 DEF BooksAt, IsSubscription
<1>12. Booked(e)
  BY <1>3, <1>7, <1>11 DEF Booked, BondFlag
<1> QED
  BY <1>12 DEF e

\* The keeper's call, or a claim's, on an accepted deal.
LEMMA BoundariesBooked ==
  ASSUME NEW d, Sound(d), d.alive, Booked(d), d.opened, d.probeAccepted, NEW t \in Nat, WholeShells,
         NEW s, s = SettleBoundaries(d, WeeksElapsedAt(d, t))
  PROVE  WeeksBooked(d, s)
<1> DEFINE a == WeeksElapsedAt(d, t)
           c == ChargeWeeksThrough(d, a)
<1>1. Covers(d, 0) /\ Typed(d)
  BY SoundCovers
<1>2. a \in Int /\ a <= d.subWeeks
  <2>1. d.periodStart \in Nat /\ d.subWeeks \in Nat
    BY <1>1, TimeAssumption DEF Typed
  <2>2. (t - d.periodStart) \div SUB_WEEK_LEN \in Int
    BY <2>1, TimeAssumption
  <2> QED
    BY <2>1, <2>2 DEF WeeksElapsedAt, Lesser
<1>3. Agree(s, c, Slack)
  BY <1>1, <1>2, KeeperCharges
<1>4. Agree(c, d, Charges)
  <2>1. Agree(d, d, {})
    BY <1>1 DEF Typed, Agree
  <2> QED
    BY <2>1, AgreeWeeks
<1>5. d.funded
  BY DEF Sound, Lifecycle
<1>6. PICK K \in Nat \ {0}, j \in Nat \ {0} : BooksAt(d, K, j)
  BY <1>5 DEF Booked
<1>7. BooksAt(c, K, j)
  BY <1>1, <1>2, <1>6, WeeksBooks
<1> HIDE DEF c, a
<1>8. /\ SameBooks(c, s) /\ s.got = c.got /\ s.put = c.put /\ s.finalizedOwed = c.finalizedOwed
      /\ s.sellerBond = c.sellerBond /\ s.sellerBondFunded = c.sellerBondFunded
  BY <1>3 DEF Agree, Slack, DealFields, SameBooks
<1>9. BooksAt(s, K, j)
  <2>1. SellerGain(s) = SellerGain(c)
    BY <1>8 DEF SellerGain
  <2> QED
    BY <1>7, <1>8, <2>1, BooksFrame
<1>10. /\ c.alive = d.alive /\ c.funded = d.funded /\ c.opened = d.opened
       /\ c.probeAccepted = d.probeAccepted /\ c.tokensPend = d.tokensPend
       /\ c.sellerBond = d.sellerBond /\ c.sellerBondFunded = d.sellerBondFunded
  BY <1>4 DEF Agree, Charges, DealFields
<1>11. Typed(s)
  BY <1>1, <1>2, SettleBoundariesCovers DEF Covers, a
<1> QED
  BY <1>6, <1>8, <1>9, <1>10, <1>11 DEF SameBooks, BooksHeld, WeeksBooked

\* Then the books are in order, and stay so when the claim that has matured is promoted.
LEMMA SettledBooked ==
  ASSUME NEW d, Sound(d), d.alive, Booked(d), d.opened, d.probeAccepted, NEW t \in Nat, WholeShells,
         NEW s, s = SettleBoundaries(d, WeeksElapsedAt(d, t))
  PROVE  Booked(s)
<1>1. /\ BooksHeld(s)
      /\ s.alive = d.alive /\ s.opened = d.opened /\ s.probeAccepted = d.probeAccepted
      /\ s.sellerBond = d.sellerBond /\ s.sellerBondFunded = d.sellerBondFunded
  BY BoundariesBooked DEF WeeksBooked
<1> QED
  BY <1>1 DEF Booked, BondFlag, BooksHeld

\* Promotion is no matter for the books.
LEMMA PromoteBooked ==
  ASSUME NEW d, Typed(d), NEW t
  PROVE  /\ SameBooks(d, PromoteDue(d, t)) /\ SellerGain(PromoteDue(d, t)) = SellerGain(d)
         /\ Booked(d) => Booked(PromoteDue(d, t))
<1> DEFINE e == PromoteDue(d, t)
<1>1. /\ SameBooks(d, e) /\ e.got = d.got /\ e.put = d.put /\ e.finalizedOwed = d.finalizedOwed
      /\ e.sellerBond = d.sellerBond /\ e.sellerBondFunded = d.sellerBondFunded
  BY DEF Typed, DealFields, SameBooks, PromoteDue, Promote
<1> HIDE DEF e
<1>2. SellerGain(e) = SellerGain(d)
  BY <1>1 DEF SellerGain
<1>3. Booked(d) => BondFlag(e)
  BY <1>1 DEF BondFlag, Booked, SameBooks
<1>4. Booked(d) => Booked(e)
  BY <1>1, <1>2, <1>3, SameBooked
<1> QED
  BY <1>1, <1>2, <1>4 DEF e

\* A claim within the cap keeps the week's quota.
LEMMA ClaimTokensBooked ==
  ASSUME NEW d, Sound(d), d.alive, Booked(d), d.opened, d.probeAccepted, NEW t \in Nat, WholeShells,
         NEW c \in Nat, c > d.tokensPend, c <= ClaimCap(SettleBoundaries(d, WeeksElapsedAt(d, t)))
  PROVE  Booked(ClaimTokensEffect(d, t, c))
<1> DEFINE s == SettleBoundaries(d, WeeksElapsedAt(d, t))
           p == PromoteDue(s, t)
           e == [p EXCEPT !.tokensPend = c, !.lastClaimTime = t]
<1>0. s = SettleBoundaries(d, WeeksElapsedAt(d, t))
  OBVIOUS
<1>3. c <= ClaimCap(s)
  OBVIOUS
<1>4. e = ClaimTokensEffect(d, t, c)
  BY DEF ClaimTokensEffect, BeforeClaim
<1> HIDE DEF s, p, e
<1>1. /\ s.alive = d.alive /\ s.funded = d.funded /\ s.opened = d.opened
      /\ s.probeAccepted = d.probeAccepted /\ s.tokensPend = d.tokensPend /\ Typed(s)
      /\ s.sellerBond = d.sellerBond /\ s.sellerBondFunded = d.sellerBondFunded
      /\ BooksHeld(s)
  <2>1. WeeksBooked(d, s)
    BY <1>0, BoundariesBooked
  <2> QED
    BY <2>1 DEF WeeksBooked
<1>2. PICK K \in Nat \ {0}, j \in Nat \ {0} : BooksAt(s, K, j)
  BY <1>1 DEF BooksHeld
<1> USE DEF p, e
<1>5. SameBooks(s, p) /\ SellerGain(p) = SellerGain(s) /\ DOMAIN p = DealFields
  BY <1>1, PromoteBooked, PromoteTerm DEF Typed, SameTerm
<1>6. BooksAt(p, K, j)
  BY <1>2, <1>5, BooksFrame
<1>7. p.sellerBond = s.sellerBond /\ p.sellerBondFunded = s.sellerBondFunded
  BY <1>1 DEF Typed, DealFields, PromoteDue, Promote
<1> HIDE DEF p
<1>8. /\ e.alive = p.alive /\ e.funded = p.funded /\ e.opened = p.opened
      /\ e.probeAccepted = p.probeAccepted /\ e.probeTick = p.probeTick
      /\ e.deposit = p.deposit /\ e.fundedTokens = p.fundedTokens
      /\ e.tokensPerWeek = p.tokensPerWeek /\ e.subWeeks = p.subWeeks
      /\ e.weekIndex = p.weekIndex /\ e.tokensPaid = p.tokensPaid
      /\ e.weekBaseTokens = p.weekBaseTokens /\ e.tokensPend = c
      /\ e.got = p.got /\ e.put = p.put /\ e.finalizedOwed = p.finalizedOwed
      /\ e.sellerBond = p.sellerBond /\ e.sellerBondFunded = p.sellerBondFunded
  BY <1>5 DEF DealFields
<1> HIDE DEF e
<1>9. IsSubscription(e) => e.tokensPend <= e.weekBaseTokens + e.tokensPerWeek
  <2> SUFFICES ASSUME IsSubscription(e) PROVE e.tokensPend <= e.weekBaseTokens + e.tokensPerWeek
    OBVIOUS
  <2>1. /\ IsSubscription(s) /\ e.weekBaseTokens = s.weekBaseTokens
        /\ e.tokensPerWeek = s.tokensPerWeek
    BY <1>5, <1>8 DEF IsSubscription, SameBooks
  <2>2. /\ s.weekBaseTokens \in Nat /\ s.tokensPerWeek \in Nat /\ s.tokensPend \in Nat
        /\ s.fundedTokens \in Nat
    BY <1>1 DEF Typed
  <2>3. ClaimCap(s) = s.tokensPend \/ ClaimCap(s) <= s.weekBaseTokens + s.tokensPerWeek
    BY <2>1, <2>2 DEF ClaimCap, Lesser
  <2> DEFINE cap == ClaimCap(s)
  <2>4. cap = s.tokensPend \/ cap \in Nat
    BY <2>2 DEF ClaimCap, Lesser
  <2> HIDE DEF cap
  <2>5. c <= cap /\ (cap = s.tokensPend \/ cap <= s.weekBaseTokens + s.tokensPerWeek)
    BY <1>3, <2>3 DEF cap
  <2> QED
    BY <1>1, <1>8, <2>1, <2>2, <2>4, <2>5
<1>10. SellerGain(e) = SellerGain(p) /\ Mark(e, j) = Mark(p, j) /\ (IsSubscription(e) <=> IsSubscription(p))
  BY <1>8 DEF SellerGain, Mark, IsSubscription
<1>11. BooksAt(e, K, j)
  BY <1>6, <1>8, <1>9, <1>10 DEF BooksAt
<1>12. e.alive = d.alive /\ e.opened = d.opened /\ e.probeAccepted = d.probeAccepted
  BY <1>1, <1>5, <1>8 DEF SameBooks
<1>13. BondFlag(e)
  BY <1>1, <1>7, <1>8, <1>12 DEF BondFlag, Booked
<1>14. Booked(e)
  BY <1>2, <1>11, <1>12, <1>13 DEF Booked
<1> QED
  BY <1>4, <1>14

\* finalize and settleWeek, whether or not they close the deal.
LEMMA SettlingBooked ==
  ASSUME NEW d, Sound(d), d.alive, Booked(d), d.opened, NEW t \in Nat, WholeShells
  PROVE  /\ Booked(FinalizeEffect(d, t))
         /\ d.probeAccepted => Booked(SettleWeekEffect(d, t))
<1>1. Covers(d, 0) /\ Typed(d) /\ DOMAIN d = DealFields
  BY SoundCovers DEF Typed
<1>2. ASSUME NEW x, Covers(x, 0) PROVE Booked(PayFinalAndClose(x))
  <2>1. Gone(PayFinalAndClose(x))
    BY <1>2, PayFinalAndCloseEnds
  <2>2. PayFinalAndClose(x).opened = FALSE
    BY <1>2, PayFinalAndCloseCloses DEF Covers, Typed, Closed
  <2> QED
    BY <2>1, <2>2, ShutBooked DEF Gone
<1>3. Booked(FinalizeEffect(d, t))
  <2> DEFINE p == PromoteDue(d, t)
  <2>1. Covers(p, 0) /\ Booked(p)
    BY <1>1, PromoteCovers, PromoteBooked
  <2>2. FinalizeEffect(d, t) = PayFinalAndClose(p) \/ FinalizeEffect(d, t) = p
    BY DEF FinalizeEffect
  <2> HIDE DEF p
  <2> QED
    BY <1>2, <2>1, <2>2
<1>4. ASSUME d.probeAccepted PROVE Booked(SettleWeekEffect(d, t))
  <2> DEFINE s == SettleBoundaries(d, WeeksElapsedAt(d, t))
             p == PromoteDue(s, t)
  <2>1. WeeksElapsedAt(d, t) \in Int
    BY <1>1, WeeksInt
  <2>2. Covers(s, 0) /\ Booked(s)
    BY <1>1, <1>4, <2>1, SettleBoundariesCovers, SettledBooked
  <2>3. SettleWeekEffect(d, t) = PayFinalAndClose(p) \/ SettleWeekEffect(d, t) = s
    BY DEF SettleWeekEffect
  <2> HIDE DEF s
  <2>4. Covers(p, 0)
    BY <2>2, PromoteCovers
  <2> HIDE DEF p
  <2> QED
    BY <1>2, <2>2, <2>3, <2>4
<1> QED
  BY <1>3, <1>4

\* The four exits of an open deal.
LEMMA ExitsBooked ==
  ASSUME NEW d, Sound(d), d.alive, d.opened, NEW t \in Nat
  PROVE  /\ Booked(StopEffect(d, t)) /\ Booked(SellerStopEffect(d, t))
         /\ Booked(ReleaseDisputeEffect(d)) /\ Booked(ResolveDisputeTimeoutEffect(d))
<1>1. Covers(d, 0) /\ Typed(d) /\ DOMAIN d = DealFields
  BY SoundCovers DEF Typed
<1>2. /\ StopEffect(d, t).opened = FALSE /\ SellerStopEffect(d, t).opened = FALSE
      /\ ReleaseDisputeEffect(d).opened = FALSE /\ ResolveDisputeTimeoutEffect(d).opened = FALSE
  BY <1>1, StopCloses, SellerStopCloses, DisputeEndCloses DEF Closed
<1>3. Gone(StopEffect(d, t)) /\ Gone(SellerStopEffect(d, t))
  BY <1>1, StopEnds, SellerStopEnds
<1>4. Gone(ReleaseDisputeEffect(d)) /\ Gone(ResolveDisputeTimeoutEffect(d))
  BY <1>1, ReleaseDisputeEnds, ResolveDisputeTimeoutEnds
<1> QED
  BY <1>2, <1>3, <1>4, ShutBooked DEF Gone

\* Taking an unopened deal down.
LEMMA TakenDownCloses ==
  ASSUME NEW d, DOMAIN d = DealFields, d.opened = FALSE
  PROVE  Closed(d, CloseEffect(d)) /\ Closed(d, DestroyEffect(d))
<1>1. ASSUME NEW x, SameTerm(d, x)
      PROVE  Closed(d, Die(PayShell(ReturnBond(x), Seller, ReturnBond(x).balance)))
  <2> DEFINE m == [x EXCEPT !.sellerBond = 0, !.sellerBondFunded = FALSE]
             y == PayShell(m, Seller, x.sellerBond)
             r == ReturnBond(x)
             q == PayShell(r, Seller, r.balance)
  <2>1. SameTerm(x, m) /\ SameTerm(x, x)
    BY <1>1 DEF SameTerm, DealFields
  <2>2. r \in {x, y}
    BY DEF ReturnBond
  <2> HIDE DEF m
  <2>3. SameTerm(m, y)
    BY <2>1, MoneyTerm, TermFields
  <2> HIDE DEF y, r
  <2>4. SameTerm(d, r)
    BY <1>1, <2>1, <2>2, <2>3, SameTermTrans
  <2>5. SameTerm(r, q)
    BY <2>4, MoneyTerm, TermFields
  <2> HIDE DEF q
  <2>6. SameTerm(d, q)
    BY <2>4, <2>5, SameTermTrans
  <2>7. Closed(d, Die(q))
    BY <2>6 DEF Closed, SameTerm, Die, DealFields
  <2> QED
    BY <2>7 DEF q, r
<1>2. SameTerm(d, d)
  BY DEF SameTerm
<1>3. Closed(d, CloseEffect(d))
  BY <1>1, <1>2 DEF CloseEffect
<1>4. Closed(d, DestroyEffect(d))
  <2> DEFINE p == ReleaseProbe(d)
             r == ReleaseBuyerBond(p)
             m == [r EXCEPT !.deposit = 0, !.funded = FALSE]
             refund == PayShell(m, d.buyer, r.deposit)
             base == IF d.funded THEN refund ELSE d
  <2>1. SameTerm(d, p)
    BY ReleaseTerm
  <2>2. SameTerm(p, r)
    BY <2>1, ReleaseTerm, TermFields
  <2>3. DestroyEffect(d) = Die(PayShell(ReturnBond(base), Seller, ReturnBond(base).balance))
    BY DEF DestroyEffect
  <2> HIDE DEF p, r
  <2>4. SameTerm(r, m)
    BY <2>2 DEF SameTerm, DealFields
  <2> HIDE DEF m
  <2>5. SameTerm(m, refund)
    BY <2>4, MoneyTerm, TermFields
  <2> HIDE DEF refund
  <2>6. SameTerm(d, base)
    BY <1>2, <2>1, <2>2, <2>4, <2>5, SameTermTrans
  <2> HIDE DEF base
  <2> QED
    BY <1>1, <2>3, <2>6
<1> QED
  BY <1>3, <1>4

\* So its books are closed.
LEMMA TakenDownBooked ==
  ASSUME NEW d, Sound(d), d.alive, ~d.opened
  PROVE  Booked(CloseEffect(d)) /\ Booked(DestroyEffect(d))
<1>1. DOMAIN d = DealFields /\ d.opened = FALSE
  BY SoundCovers DEF Typed
<1> QED
  BY <1>1, TakenDownCloses, ShutBooked DEF Closed

\* A clean-up gives both parties their money back and the deal a new start.
LEMMA CleanupUnopenedBooked ==
  ASSUME NEW d, Sound(d), d.alive, Booked(d), ~d.opened
  PROVE  Booked(CleanupUnopenedEffect(d))
<1> DEFINE back    == d.deposit + d.buyerBond
           cleared == [[d EXCEPT !.deposit = back, !.buyerBond = 0] EXCEPT
                         !.deposit = 0, !.sellerBond = 0, !.funded = FALSE,
                         !.sellerBondFunded = FALSE, !.buyerBondFunded = FALSE,
                         !.offerPosted = FALSE]
           lb      == Credit(d.got, d.buyer, back)
           paid1   == PayShell(cleared, d.buyer, back)
           ls      == Credit(lb, Seller, d.sellerBond)
           paid    == PayShell(paid1, Seller, d.sellerBond)
           e       == BurnShell(paid, paid.balance)
<1>1. Covers(d, 0) /\ Typed(d)
  BY SoundCovers
<1>2. /\ d.buyer # Seller /\ d.got[Seller] \in Nat /\ d.put[Seller] \in Nat
      /\ d.got \in [Notes -> Nat] /\ d.put \in [Notes -> Nat]
      /\ d.finalizedOwed \in Nat /\ d.sellerBond \in Nat /\ DOMAIN d = DealFields
  BY <1>1, PartyFacts
<1>3. back \in Nat
  BY <1>1 DEF Typed
<1>4. ~d.probeAccepted /\ d.opened = FALSE
  BY <1>1 DEF Sound, Lifecycle, Typed
<1>5. e = CleanupUnopenedEffect(d)
  <2>1. ReleaseBuyerBond(d) = [d EXCEPT !.deposit = back, !.buyerBond = 0]
    BY <1>2 DEF ReleaseBuyerBond, DealFields
  <2>2. ReleaseBuyerBond(d).deposit = back
    BY <1>2, <2>1 DEF DealFields
  <2> QED
    BY <2>1, <2>2 DEF CleanupUnopenedEffect
<1> HIDE DEF back
<1>6. /\ DOMAIN cleared = DealFields /\ cleared.got = d.got /\ cleared.put = d.put
      /\ cleared.sellerBond = 0 /\ cleared.funded = FALSE /\ cleared.finalizedOwed = d.finalizedOwed
      /\ cleared.probeAccepted = d.probeAccepted /\ cleared.alive = d.alive
  BY <1>2 DEF DealFields
<1> HIDE DEF cleared
<1>7. lb \in [Notes -> Nat] /\ lb[Seller] = d.got[Seller]
  BY <1>2, <1>3, CreditSeller
<1>8. ls[Seller] = d.got[Seller] + d.sellerBond
  <2> HIDE DEF lb
  <2> QED
    BY <1>2, <1>7, CreditSeller
<1>9. /\ DOMAIN paid1 = DealFields /\ paid1.got = lb /\ paid1.put = d.put
      /\ paid1.sellerBond = 0 /\ paid1.funded = FALSE /\ paid1.finalizedOwed = d.finalizedOwed
      /\ paid1.probeAccepted = d.probeAccepted /\ paid1.alive = d.alive
  BY <1>6 DEF DealFields, PayShell
<1> HIDE DEF paid1, lb
<1>10. /\ DOMAIN paid = DealFields /\ paid.got = ls /\ paid.put = d.put
       /\ paid.sellerBond = 0 /\ paid.funded = FALSE /\ paid.finalizedOwed = d.finalizedOwed
       /\ paid.probeAccepted = d.probeAccepted /\ paid.alive = d.alive
  BY <1>9 DEF DealFields, PayShell
<1> HIDE DEF paid, ls
<1>11. /\ e.got = ls /\ e.put = d.put /\ e.sellerBond = 0 /\ e.funded = FALSE
       /\ e.finalizedOwed = d.finalizedOwed
       /\ e.probeAccepted = d.probeAccepted /\ e.alive = d.alive
  BY <1>10 DEF DealFields, BurnShell
<1>12. SellerGain(e) = 0
  <2>1. d.got[Seller] + d.finalizedOwed + d.sellerBond - d.put[Seller] = 0
    BY <1>4 DEF Booked, SellerGain
  <2>2. SellerGain(e) = (d.got[Seller] + d.sellerBond) + d.finalizedOwed + 0 - d.put[Seller]
    BY <1>8, <1>11 DEF SellerGain
  <2> QED
    BY <1>2, <2>1, <2>2
<1> HIDE DEF e
<1>13. Booked(e)
  BY <1>11, <1>12 DEF Booked, BondFlag
<1> QED
  BY <1>5, <1>13

\* Drawing earnings moves them from owed to got.
LEMMA WithdrawShellBooked ==
  ASSUME NEW d, Sound(d), d.alive, Booked(d), NEW amount \in Nat, 0 < amount,
         amount <= d.finalizedOwed
  PROVE  Booked(WithdrawShellEffect(d, amount))
<1> DEFINE m    == [d EXCEPT !.finalizedOwed = @ - amount]
           paid == PayShell(m, Seller, amount)
           lg   == Credit(d.got, Seller, amount)
<1>1. Covers(d, 0) /\ Typed(d)
  BY SoundCovers
<1>2. /\ d.got[Seller] \in Nat /\ d.put[Seller] \in Nat /\ d.got \in [Notes -> Nat]
      /\ d.finalizedOwed \in Nat /\ d.sellerBond \in Nat /\ DOMAIN d = DealFields
  BY <1>1, PartyFacts
<1>3. d.opened
  BY <1>2 DEF Sound, Lifecycle
<1>4. lg[Seller] = d.got[Seller] + amount
  BY <1>2, CreditSeller
<1> HIDE DEF lg
<1>5. /\ SameBooks(d, paid) /\ paid.got = lg /\ paid.put = d.put
      /\ paid.finalizedOwed = d.finalizedOwed - amount /\ paid.sellerBond = d.sellerBond
      /\ paid.sellerBondFunded = d.sellerBondFunded
  <2>1. /\ SameBooks(d, m) /\ m.got = d.got /\ m.put = d.put /\ DOMAIN m = DealFields
        /\ m.finalizedOwed = d.finalizedOwed - amount /\ m.sellerBond = d.sellerBond
        /\ m.sellerBondFunded = d.sellerBondFunded
    BY <1>2 DEF SameBooks, DealFields
  <2> HIDE DEF m
  <2>2. /\ SameBooks(m, paid) /\ paid.got = lg /\ paid.put = m.put
        /\ paid.finalizedOwed = m.finalizedOwed /\ paid.sellerBond = m.sellerBond
        /\ paid.sellerBondFunded = m.sellerBondFunded
    BY <2>1 DEF SameBooks, DealFields, PayShell, lg
  <2> HIDE DEF paid
  <2> QED
    BY <2>1, <2>2 DEF SameBooks
<1>6. WithdrawShellEffect(d, amount) = paid
  BY <1>3, <1>5 DEF WithdrawShellEffect, SameBooks
<1> HIDE DEF paid
<1>7. SellerGain(paid) = SellerGain(d)
  <2>1. SellerGain(paid) = (d.got[Seller] + amount) + (d.finalizedOwed - amount) + d.sellerBond - d.put[Seller]
    BY <1>4, <1>5 DEF SellerGain
  <2> QED
    BY <1>2, <2>1 DEF SellerGain
<1>8. BondFlag(paid)
  BY <1>5 DEF BondFlag, Booked, SameBooks
<1> QED
  BY <1>5, <1>6, <1>7, <1>8, SameBooked

\* A freshly deployed deal has empty books.
LEMMA InitBooks == Init => BooksInv
<1> SUFFICES ASSUME Init PROVE Booked(deal)
  BY InitIndInv DEF BooksInv
<1>1. /\ deal.alive = TRUE /\ deal.opened = FALSE /\ deal.funded = FALSE /\ deal.sellerBond = 0
      /\ deal.finalizedOwed = 0 /\ deal.got = [n \in Notes |-> 0] /\ deal.put = [n \in Notes |-> 0]
  BY DEF Init, NewDeal
<1>2. SellerGain(deal) = 0
  BY <1>1 DEF SellerGain, Notes
<1> QED
  BY <1>1, <1>2 DEF Booked, BondFlag

\* Every call keeps the books.
LEMMA NextBooks ==
  ASSUME WholeShells, WholeWeeks PROVE BooksInv /\ [Next]_vars => BooksInv'
<1> SUFFICES ASSUME BooksInv, [Next]_vars PROVE Booked(deal')
  BY NextIndInv DEF BooksInv
<1> now \in Nat /\ Sound(deal) /\ Booked(deal)
  BY TimeAssumption DEF BooksInv, IndInv
<1>0. ASSUME NEW e, Call(e), Booked(e) PROVE Booked(deal')
  BY <1>0 DEF Call
<1>a. deal.alive => Typed(deal)
  BY SoundCovers
<1>1. ASSUME NEW b \in Buyers, NEW ticks \in FillTicks, NEW sub \in Shapes,
             FundFromOrderBook(b, ticks, sub)
      PROVE  Booked(deal')
  <2>1. ticks \in Nat /\ sub \in BOOLEAN /\ (sub => ticks % SUB_WEEKS = 0)
    BY InputAssumption DEF WholeWeeks
  <2> DEFINE paid == ticks * Unit + (IF sub THEN BondAmount ELSE 0)
  <2>2. deal.alive /\ Call(FundFromOrderBookEffect(deal, now, b, paid, sub))
    BY <1>1 DEF FundFromOrderBook, Call
  <2>3. Booked(FundFromOrderBookEffect(deal, now, b, paid, sub))
    BY <2>1, <2>2, FundFromOrderBookBooked
  <2> QED
    BY <1>0, <2>2, <2>3
<1>2. CASE PostFromNote
  BY <1>0, <1>2, <1>a, ListingBooked DEF PostFromNote, Call
<1>3. CASE OnSellClosed
  BY <1>0, <1>3, <1>a, ListingBooked DEF OnSellClosed, Call
<1>4. CASE Close
  <2>1. ~deal.opened /\ deal.alive
    BY <1>4 DEF Close, Call, Sound, Lifecycle
  <2> QED
    BY <1>0, <1>4, <2>1, TakenDownBooked DEF Close
<1>5. ASSUME NEW amount \in BondPayments, FundDeal(amount) PROVE Booked(deal')
  BY <1>0, <1>5, <1>a, BondsBooked, InputAssumption DEF FundDeal, Call
<1>6. ASSUME NEW amount \in BondPayments, FundBuyerBond(amount) PROVE Booked(deal')
  BY <1>0, <1>6, <1>a, BondsBooked, InputAssumption DEF FundBuyerBond, Call
<1>7. CASE Open
  BY <1>0, <1>7, OpenBooked DEF Open, Call
<1>8. CASE AcceptProbe
  BY <1>0, <1>8, AcceptProbeBooked DEF AcceptProbe, Call
<1>9. ASSUME NEW c \in 0..MaxTicks * TICK_SIZE, ClaimTokens(c) PROVE Booked(deal')
  <2>1. MaxTicks * TICK_SIZE \in Nat
    BY PriceAssumption
  <2>2. c \in Nat
    BY <2>1
  <2>3. /\ deal.alive /\ deal.opened /\ deal.probeAccepted /\ c > deal.tokensPend
        /\ c <= ClaimCap(SettleBoundaries(deal, WeeksElapsedAt(deal, now)))
        /\ Call(ClaimTokensEffect(deal, now, c))
    BY <1>9 DEF ClaimTokens, Call
  <2> QED
    BY <1>0, <2>2, <2>3, ClaimTokensBooked
<1>10. CASE Finalize
  BY <1>0, <1>10, SettlingBooked DEF Finalize, FinalizeReady, Call
<1>11. CASE SettleWeek
  BY <1>0, <1>11, SettlingBooked DEF SettleWeek, SettleWeekReady, Call
<1>12. CASE Stop
  BY <1>0, <1>12, ExitsBooked DEF Stop, Call
<1>13. CASE SellerStop
  BY <1>0, <1>13, ExitsBooked DEF SellerStop, Call
<1>14. CASE Dispute
  BY <1>0, <1>14, <1>a, ListingBooked DEF Dispute, Call
<1>15. CASE ReleaseDispute \/ ResolveDisputeTimeout
  <2>1. deal.alive /\ deal.opened
    BY <1>15 DEF ReleaseDispute, ResolveDisputeTimeout, ResolveReady, Call, Sound, Lifecycle
  <2> QED
    BY <1>0, <1>15, <2>1, ExitsBooked DEF ReleaseDispute, ResolveDisputeTimeout
<1>17. ASSUME NEW byBuyer \in BOOLEAN, CleanupUnopened(byBuyer) PROVE Booked(deal')
  BY <1>0, <1>17, CleanupUnopenedBooked DEF CleanupUnopened, CleanupReady, Call
<1>18. ASSUME NEW amount \in Withdrawals, WithdrawShell(amount) PROVE Booked(deal')
  BY <1>0, <1>18, WithdrawShellBooked, InputAssumption DEF WithdrawShell, Call
<1>19. CASE Destroy
  BY <1>0, <1>19, TakenDownBooked DEF Destroy, Call
<1>20. CASE AdvanceTime
  BY <1>20 DEF AdvanceTime
<1>21. CASE Destroyed \/ UNCHANGED vars
  BY <1>21 DEF Destroyed, vars
<1> QED
  BY <1>1, <1>2, <1>3, <1>4, <1>5, <1>6, <1>7, <1>8, <1>9, <1>10, <1>11, <1>12, <1>13,
     <1>14, <1>15, <1>17, <1>18, <1>19, <1>20, <1>21 DEF Next

\* The books hold throughout.
THEOREM BooksKept == ASSUME WholeShells, WholeWeeks PROVE Spec => []BooksInv
  BY InitBooks, NextBooks, PTL DEF Spec

\* With whole-SHELL prices and whole weeks the books of a subscription add up after every
\* order of claims and settleWeek calls: the week's quota is kept, the seller has earned
\* exactly the price of the paid mark, and the escrow of any open deal, subscription or not,
\* covers every token it may yet have to pay, so no charge is ever clamped.
THEOREM BooksAddUp == ASSUME WholeShells, WholeWeeks PROVE Spec => []WeeksAddUp
<1>1. BooksInv => WeeksAddUp
  <2> SUFFICES ASSUME BooksInv, deal.opened, deal.probeAccepted PROVE WeeksAddUp
    BY DEF WeeksAddUp, WeeklyQuotaKept, PaidMarkMatchesEarnings, EscrowCoversFunding
  <2>1. deal.alive /\ deal.funded /\ Sound(deal) /\ Typed(deal)
    BY DEF BooksInv, Booked, IndInv, Sound, Safe, Lifecycle
  <2>2. PICK K \in Nat \ {0}, j \in Nat \ {0} : BooksAt(deal, K, j)
    BY <2>1 DEF BooksInv, Booked
  <2> DEFINE m == Mark(deal, j)
  <2>3. m \in Nat /\ m <= K
    <3>1. deal.weekIndex \in Nat /\ deal.subWeeks \in {0, SUB_WEEKS} /\ SUB_WEEKS \in Nat
      BY <2>1, TimeAssumption DEF Typed
    <3>2. deal.weekIndex <= deal.subWeeks
      BY <2>2 DEF BooksAt
    <3>3. deal.weekIndex * j \in Nat /\ deal.weekIndex * j <= K
      <4>1. CASE IsSubscription(deal)
        <5>1. K = j * SUB_WEEKS /\ deal.weekIndex <= SUB_WEEKS
          BY <2>2, <3>1, <3>2, <4>1 DEF BooksAt, IsSubscription
        <5>2. deal.weekIndex * j <= SUB_WEEKS * j /\ SUB_WEEKS * j = j * SUB_WEEKS
          BY <3>1, <5>1, MulMono
        <5> QED
          BY <3>1, <5>1, <5>2
      <4>2. CASE ~IsSubscription(deal)
        <5>1. deal.weekIndex = 0
          BY <3>1, <3>2, <4>2 DEF IsSubscription
        <5>2. 0 * j = 0
          OBVIOUS
        <5> QED
          BY <5>1, <5>2
      <4> QED
        BY <4>1, <4>2
    <3> QED
      BY <3>3 DEF Mark, Greater
  <2>4. /\ deal.fundedTokens = K * TICK_SIZE /\ deal.tokensPaid = m * TICK_SIZE
        /\ deal.deposit = (K - m) * Unit /\ SellerGain(deal) = m * P
        /\ IsSubscription(deal) => deal.tokensPend <= deal.weekBaseTokens + deal.tokensPerWeek
    BY <2>2 DEF BooksAt
  <2> HIDE DEF m
  <2>5. PaidMarkMatchesEarnings
    BY <2>3, <2>4, TicksValue DEF PaidMarkMatchesEarnings
  <2>6. EscrowCoversFunding
    <3> DEFINE k == K - m
    <3>1. k \in Nat /\ TICK_SIZE \in Nat /\ Unit \in Nat
      BY <2>3, PriceAssumption, UnitNat
    <3>2. deal.fundedTokens - deal.tokensPaid = k * TICK_SIZE
      BY <2>3, <2>4, <3>1
    <3> HIDE DEF k
    <3>3. PayOf(k * TICK_SIZE) + FeeOf(k * TICK_SIZE) = k * Unit
      BY <3>1, TicksValue
    <3>4. k * TICK_SIZE \in Nat /\ k * Unit \in Nat /\ deal.deposit = k * Unit
      BY <2>4, <3>1 DEF k
    <3> QED
      BY <3>2, <3>3, <3>4 DEF EscrowCoversFunding
  <2>7. WeeklyQuotaKept
    BY <2>4 DEF WeeklyQuotaKept
  <2> QED
    BY <2>5, <2>6, <2>7 DEF WeeksAddUp
<1> QED
  BY <1>1, BooksKept, PTL
-----------------------------------------------------------------------------
(***************************************************************************)
(* What each way out costs.  A close pays the seller whatever the balance  *)
(* holds beyond the buyer's refund and the burned fees, so two exits are   *)
(* compared by those alone.                                                *)
(***************************************************************************)
\* A credit of one note's ledger, of a note on it.
LEMMA CreditNote ==
  ASSUME NEW ledger \in [Notes -> Nat], NEW n \in Notes, NEW m \in Notes, NEW amount \in Nat
  PROVE  Credit(ledger, n, amount)[m] = IF m = n THEN ledger[m] + amount ELSE ledger[m]
  BY DEF Credit

\* The last payout leaves the seller the whole balance.
LEMMA OwedAndRest ==
  ASSUME NEW d, Covers(d, 0)
  PROVE  LET e == PayOwedAndDie(d)
         IN  /\ e.put = d.put /\ e.finalizedOwed = 0 /\ e.sellerBond = d.sellerBond
             /\ e.got[Seller] = d.got[Seller] + d.balance
             /\ \A b \in Buyers : e.got[b] = d.got[b]
<1> DEFINE m    == [d EXCEPT !.finalizedOwed = 0]
           owed == d.finalizedOwed
           lg   == Credit(d.got, Seller, owed)
           paid == PayShell(m, Seller, owed)
           rest == d.balance - owed
           lh   == Credit(lg, Seller, rest)
<1>1. /\ d.got \in [Notes -> Nat] /\ DOMAIN d = DealFields /\ owed \in Nat /\ rest \in Nat
      /\ d.balance = owed + rest /\ Seller \in Notes /\ Buyers \subseteq Notes /\ Seller \notin Buyers
  BY PartiesAssumption DEF Covers, Typed, Earmarks, Notes
<1> HIDE DEF owed
<1>2. lg \in [Notes -> Nat]
  BY <1>1, CreditType
<1>3. /\ lh[Seller] = d.got[Seller] + d.balance
      /\ \A b \in Buyers : lh[b] = d.got[b]
  <2>1. lg[Seller] = d.got[Seller] + owed /\ \A b \in Buyers : lg[b] = d.got[b]
    BY <1>1, CreditNote
  <2>2. lh[Seller] = lg[Seller] + rest /\ \A b \in Buyers : lh[b] = lg[b]
    BY <1>1, <1>2, CreditNote
  <2>3. d.got[Seller] \in Nat
    BY <1>1
  <2> QED
    BY <1>1, <2>1, <2>2, <2>3
<1> HIDE DEF lg, rest
<1>4. paid = [m EXCEPT !.balance = d.balance - owed, !.got = lg]
  BY <1>1 DEF PayShell, lg, DealFields
<1>5. /\ DOMAIN paid = DealFields /\ paid.balance = rest /\ paid.got = lg /\ paid.put = d.put
      /\ paid.finalizedOwed = 0 /\ paid.sellerBond = d.sellerBond
  BY <1>1, <1>4 DEF DealFields, rest
<1> HIDE DEF paid, lh
<1>6. PayOwedAndDie(d) = [paid EXCEPT !.balance = rest - rest, !.got = lh, !.alive = FALSE]
  BY <1>5 DEF PayOwedAndDie, PayShell, Die, lh, paid, owed, DealFields
<1>7. /\ PayOwedAndDie(d).put = d.put /\ PayOwedAndDie(d).finalizedOwed = 0
      /\ PayOwedAndDie(d).sellerBond = d.sellerBond /\ PayOwedAndDie(d).got = lh
  BY <1>5, <1>6 DEF DealFields
<1> QED
  BY <1>3, <1>7

\* Settling the fees: a rebate for the seller, the rest burned.
LEMMA FeesSplit ==
  ASSUME NEW d, NEW clean \in BOOLEAN, Covers(d, 0)
  PROVE  LET e == SettleFees(d, clean)
         IN  \E r \in 0..d.feeAccrued :
               /\ ~clean => r = 0
               /\ e.put = d.put /\ e.got = d.got /\ e.sellerBond = d.sellerBond
               /\ e.balance = d.balance - (d.feeAccrued - r)
<1> DEFINE r == IF clean /\ ~d.everDisputed
                THEN Lesser(Rebate(d.ticksFinalized), d.feeAccrued) ELSE 0
           m == [d EXCEPT !.finalizedOwed = @ + r, !.feeAccrued = 0]
           n == BurnShell(m, d.feeAccrued - r)
<1>1. d.ticksFinalized \in Nat /\ d.feeAccrued \in Nat /\ DOMAIN d = DealFields
  BY DEF Covers, Typed
<1>2. r \in 0..d.feeAccrued /\ (~clean => r = 0)
  BY <1>1, RebateNat DEF Lesser
<1> HIDE DEF r
<1>3. /\ DOMAIN n = DealFields /\ n.put = d.put /\ n.got = d.got /\ n.sellerBond = d.sellerBond
      /\ n.balance = d.balance - (d.feeAccrued - r)
  BY <1>1 DEF BurnShell, DealFields
<1>4. SettleFees(d, clean) = ReportFinalized(n)
  BY DEF SettleFees, r
<1> HIDE DEF n
<1>5. /\ ReportFinalized(n).put = n.put /\ ReportFinalized(n).got = n.got
      /\ ReportFinalized(n).sellerBond = n.sellerBond /\ ReportFinalized(n).balance = n.balance
  BY <1>3 DEF ReportFinalized, DealFields
<1> QED
  BY <1>2, <1>3, <1>4, <1>5

\* A close with a refund: the buyer gets the refund, the fees burn but for the rebate,
\* the seller gets the rest.
LEMMA RefundPays ==
  ASSUME NEW d, NEW clean \in BOOLEAN, NEW refund \in Nat, Typed(d), d.buyer \in Buyers,
         refund + d.finalizedOwed + d.sellerBond + d.feeAccrued + d.probeTick <= d.balance
  PROVE  LET e == RefundAndDie(d, clean, refund)
         IN  /\ e.put = d.put /\ e.got[d.buyer] = d.got[d.buyer] + refund
             /\ SellerGain(e) >= SellerGain(d)
             /\ ~clean => SellerGain(e) =
                  d.got[Seller] - d.put[Seller] + d.balance - refund - d.feeAccrued
<1> DEFINE m == [d EXCEPT !.deposit = 0, !.buyerBond = 0, !.opened = FALSE,
                          !.finalizedOwed = @ + d.sellerBond, !.sellerBond = 0]
           f == SettleFees(m, clean)
           p == PayShell(f, d.buyer, refund)
           e == PayOwedAndDie(p)
           lg == Credit(f.got, d.buyer, refund)
<1>1. /\ Covers(m, 0 + refund) /\ m.feeAccrued = d.feeAccrued /\ m.put = d.put /\ m.got = d.got
      /\ m.sellerBond = 0 /\ m.balance = d.balance
  BY DEF Covers, Typed, DealFields, Earmarks
<1>2. Covers(m, 0)
  BY <1>1 DEF Covers, Typed, Earmarks
<1> HIDE DEF m
<1>3. Covers(f, 0 + refund)
  BY <1>1, SettleFeesCovers
<1>4. PICK r \in 0..d.feeAccrued :
        /\ ~clean => r = 0
        /\ f.put = d.put /\ f.got = d.got /\ f.sellerBond = 0
        /\ f.balance = d.balance - (d.feeAccrued - r)
  BY <1>1, <1>2, FeesSplit
<1> HIDE DEF f
<1>5. Covers(p, 0)
  BY <1>3, PayShellCovers
<1>6. p.put = d.put /\ p.got = lg /\ p.sellerBond = 0 /\ p.balance = f.balance - refund
  BY <1>3, <1>4 DEF PayShell, Covers, Typed, DealFields
<1> HIDE DEF p
<1>7. /\ e.put = d.put /\ e.finalizedOwed = 0 /\ e.sellerBond = 0
      /\ e.got[Seller] = lg[Seller] + p.balance /\ e.got[d.buyer] = lg[d.buyer]
  BY <1>5, <1>6, OwedAndRest
<1>8. /\ d.got \in [Notes -> Nat] /\ Seller \in Notes /\ d.buyer \in Notes /\ d.buyer # Seller
      /\ d.got[Seller] \in Nat /\ d.put[Seller] \in Nat /\ d.got[d.buyer] \in Nat
  BY PartiesAssumption DEF Typed, Notes
<1>9. lg[Seller] = d.got[Seller] /\ lg[d.buyer] = d.got[d.buyer] + refund
  BY <1>4, <1>8, CreditNote
<1> HIDE DEF lg, e
<1>10. SellerGain(e) = d.got[Seller] + (d.balance - (d.feeAccrued - r) - refund) - d.put[Seller]
  BY <1>4, <1>6, <1>7, <1>8, <1>9 DEF SellerGain, Typed
<1>11. /\ d.balance \in Nat /\ d.feeAccrued \in Nat /\ d.finalizedOwed \in Nat /\ d.sellerBond \in Nat
       /\ d.probeTick \in Nat
  BY DEF Typed
<1>12. SellerGain(e) >= SellerGain(d)
  BY <1>8, <1>10, <1>11 DEF SellerGain
<1>13. e = RefundAndDie(d, clean, refund)
  BY DEF RefundAndDie, e, p, f, m
<1> QED
  BY <1>4, <1>7, <1>8, <1>9, <1>10, <1>11, <1>12, <1>13

\* Charging moves no money of the parties.
LEMMA ChargedParties ==
  ASSUME NEW d, NEW e, Agree(e, d, Charges)
  PROVE  /\ SameParties(d, e) /\ e.probeAccepted = d.probeAccepted /\ e.subWeeks = d.subWeeks
         /\ e.tokensPerWeek = d.tokensPerWeek /\ e.periodStart = d.periodStart
         /\ e.disputeTime = d.disputeTime /\ e.tokensFinal = d.tokensFinal
         /\ e.tokensPend = d.tokensPend /\ e.opened = d.opened /\ e.probeTick = d.probeTick
  BY DEF Agree, Charges, DealFields, SameParties

\* A forfeit burns out of the bonds.
LEMMA Forfeits ==
  ASSUME NEW d, Typed(d), NEW x \in Nat, NEW y \in Nat
  PROVE  LET e == ForfeitBonds(d, x, y)
             b == Lesser(x, d.buyerBond)
             s == Lesser(y, d.sellerBond)
         IN  /\ b \in 0..d.buyerBond /\ s \in 0..d.sellerBond
             /\ e.buyerBond = d.buyerBond - b /\ e.sellerBond = d.sellerBond - s
             /\ e.balance = d.balance - (b + s)
             /\ Agree(e, d, {"buyerBond", "sellerBond", "balance", "burned"})
<1> DEFINE e == ForfeitBonds(d, x, y)
           b == Lesser(x, d.buyerBond)
           s == Lesser(y, d.sellerBond)
<1>1. b \in 0..d.buyerBond /\ s \in 0..d.sellerBond /\ DOMAIN d = DealFields
  BY DEF Typed, Lesser
<1>2. e = BurnShell([d EXCEPT !.buyerBond = @ - b, !.sellerBond = @ - s], b + s)
  BY DEF ForfeitBonds
<1> HIDE DEF b, s, e
<1>3. /\ e.buyerBond = d.buyerBond - b /\ e.sellerBond = d.sellerBond - s
      /\ e.balance = d.balance - (b + s)
      /\ Agree(e, d, {"buyerBond", "sellerBond", "balance", "burned"})
  BY <1>1, <1>2 DEF BurnShell, Agree, DealFields
<1> QED
  BY <1>1, <1>3 DEF b, s, e

\* Releasing the probe tick writes the escrow and the tick.
LEMMA ReleaseOnly ==
  ASSUME NEW d, DOMAIN d = DealFields
  PROVE  Agree(ReleaseProbe(d), d, {"deposit", "probeTick"})
  BY DEF ReleaseProbe, Agree, DealFields

\* What is trusted in a dispute is charged and moves no money of the parties.
LEMMA TrustedFacts ==
  ASSUME NEW d, Covers(d, 0)
  PROVE  LET c == Trusted(d)
         IN  /\ Covers(c, 0) /\ SameParties(d, c) /\ c.probeAccepted = d.probeAccepted
             /\ c.subWeeks = d.subWeeks /\ c.tokensPerWeek = d.tokensPerWeek
             /\ c.periodStart = d.periodStart /\ c.disputeTime = d.disputeTime
<1> DEFINE rp   == ReleaseProbe(d)
           w    == ChargeWeeksThrough(rp, WeeksElapsedAt(d, d.disputeTime))
           base == ClaimBase(w)
           owed == IF w.tokensFinal > base THEN w.tokensFinal - base ELSE 0
           c    == ChargeTokens(w, owed)
<1>0. DOMAIN d = DealFields /\ WeeksElapsedAt(d, d.disputeTime) \in Int
  BY WeeksInt DEF Covers, Typed
<1>1. Covers(rp, 0) /\ Agree(rp, d, {"deposit", "probeTick"})
  BY <1>0, ReleaseCovers, ReleaseOnly
<1> HIDE DEF rp
<1>2. Covers(w, 0) /\ Agree(w, rp, Charges)
  BY <1>0, <1>1, ChargeWeeksCovers, WeeksOnly DEF Covers, Typed
<1> HIDE DEF w
<1>3. owed \in Nat
  BY <1>2 DEF ClaimBase, Covers, Typed
<1> HIDE DEF owed
<1>4. Covers(c, 0) /\ Agree(c, w, Charges)
  BY <1>2, <1>3, ChargeTokensCovers, ChargeOnly DEF Covers, Typed
<1>5. c = Trusted(d)
  BY DEF Trusted, c, owed, base, w, rp
<1> HIDE DEF c
<1>6. /\ SameParties(d, rp) /\ rp.probeAccepted = d.probeAccepted
      /\ rp.subWeeks = d.subWeeks /\ rp.tokensPerWeek = d.tokensPerWeek
      /\ rp.periodStart = d.periodStart /\ rp.disputeTime = d.disputeTime
  BY <1>1 DEF Agree, DealFields, SameParties
<1> QED
  BY <1>2, <1>4, <1>5, <1>6, ChargedParties DEF SameParties

\* The end of a dispute: the trusted claims are charged, both stakes burn, the refundable
\* part of the escrow and the rest of the buyer's bond go back.
LEMMA TrustedPays ==
  ASSUME NEW d, Covers(d, 0), d.buyer \in Buyers, NEW x \in Nat, NEW y \in Nat
  PROVE  LET c == Trusted(d)
             e == SettleTrustedAndClose(d, x, y)
         IN  /\ e.put = d.put
             /\ e.got[d.buyer] = d.got[d.buyer] + Refundable(c)
                                 + (d.buyerBond - Lesser(x, d.buyerBond))
             /\ SellerGain(e) = Tally(c) - Lesser(y, d.sellerBond)
<1> DEFINE w     == ChargeWeeksThrough(ReleaseProbe(d), WeeksElapsedAt(d, d.disputeTime))
           c     == Trusted(d)
           q     == RecordDelivered(c)
           mark  == Greater(q.tokensPaid, w.tokensFinal)
           m     == [q EXCEPT !.tokensPaid = mark]
           f     == ForfeitBonds(m, x, y)
           back  == Refundable(f)
           r     == BurnShell(f, f.deposit - back)
           e     == RefundAndDie(r, FALSE, back + f.buyerBond)
<1>0. e = SettleTrustedAndClose(d, x, y)
  BY DEF SettleTrustedAndClose, Trusted
<1>1. /\ Covers(c, 0) /\ SameParties(d, c) /\ c.probeAccepted = d.probeAccepted
      /\ c.subWeeks = d.subWeeks /\ c.tokensPerWeek = d.tokensPerWeek
      /\ c.periodStart = d.periodStart /\ c.disputeTime = d.disputeTime
  BY TrustedFacts
<1>w. w.tokensFinal \in Nat
  <2>1. WeeksElapsedAt(d, d.disputeTime) \in Int
    BY WeeksInt DEF Covers, Typed
  <2>2. Covers(w, 0)
    BY <2>1, ReleaseCovers, ChargeWeeksCovers
  <2> QED
    BY <2>2 DEF Covers, Typed
<1> HIDE DEF c, w
<1>2. Covers(q, 0) /\ Agree(q, c, {"ticksFinalized"})
  <2>1. DOMAIN c = DealFields
    BY <1>1 DEF Covers, Typed
  <2> QED
    BY <1>1, <2>1, RecordDeliveredCovers DEF RecordDelivered, Agree, DealFields
<1> HIDE DEF q
<1>3. mark \in Nat
  BY <1>2, <1>w DEF Covers, Typed, Greater
<1> HIDE DEF mark
<1>4. Covers(m, 0) /\ Agree(m, c, {"ticksFinalized", "tokensPaid"})
  <2>1. Covers(m, 0)
    BY <1>2, <1>3 DEF Covers, Typed, DealFields, Earmarks
  <2>2. Agree(m, c, {"ticksFinalized", "tokensPaid"})
    BY <1>2 DEF Agree, DealFields
  <2> QED
    BY <2>1, <2>2
<1> HIDE DEF m
<1> DEFINE b == Lesser(x, d.buyerBond)
           s == Lesser(y, d.sellerBond)
<1>5. /\ Covers(f, 0) /\ Agree(f, m, {"buyerBond", "sellerBond", "balance", "burned"})
      /\ f.buyerBond = d.buyerBond - b /\ f.sellerBond = d.sellerBond - s
      /\ f.balance = d.balance - (b + s) /\ b \in 0..d.buyerBond /\ s \in 0..d.sellerBond
  <2>1. m.buyerBond = d.buyerBond /\ m.sellerBond = d.sellerBond /\ m.balance = d.balance
    BY <1>1, <1>4 DEF SameParties, Agree, DealFields
  <2>2. Typed(m)
    BY <1>4 DEF Covers
  <2>3. Covers(f, 0)
    BY <1>4, ForfeitBondsCovers
  <2>4. /\ Lesser(x, m.buyerBond) \in 0..m.buyerBond /\ Lesser(y, m.sellerBond) \in 0..m.sellerBond
        /\ f.buyerBond = m.buyerBond - Lesser(x, m.buyerBond)
        /\ f.sellerBond = m.sellerBond - Lesser(y, m.sellerBond)
        /\ f.balance = m.balance - (Lesser(x, m.buyerBond) + Lesser(y, m.sellerBond))
        /\ Agree(f, m, {"buyerBond", "sellerBond", "balance", "burned"})
    BY <2>2, Forfeits
  <2> HIDE DEF f
  <2> QED
    BY <2>1, <2>3, <2>4
<1> HIDE DEF f, b, s
<1>6. /\ f.deposit = c.deposit /\ f.feeAccrued = c.feeAccrued /\ f.buyer = d.buyer
      /\ f.put = d.put /\ f.got = d.got /\ f.subWeeks = c.subWeeks
      /\ f.tokensPerWeek = c.tokensPerWeek /\ f.periodStart = c.periodStart
      /\ f.disputeTime = c.disputeTime /\ f.probeAccepted = c.probeAccepted
  BY <1>1, <1>4, <1>5 DEF SameParties, Agree, DealFields
<1>7. back = Refundable(c)
  BY <1>6 DEF Refundable, WeeksStartedAt, WeeksElapsedAt, IsSubscription
<1>8. back \in Nat /\ back <= f.deposit
  BY <1>5, RefundableBound DEF Covers
<1> HIDE DEF back
<1>9. /\ Typed(r) /\ r.balance = f.balance - (f.deposit - back)
      /\ Agree(r, f, {"balance", "burned"})
  BY <1>5, <1>8 DEF Covers, Typed, DealFields, Earmarks, BurnShell, Agree
<1>10. /\ f.balance \in Nat /\ f.deposit \in Nat /\ f.feeAccrued \in Nat /\ f.finalizedOwed \in Nat
       /\ f.buyerBond \in Nat /\ f.sellerBond \in Nat /\ f.probeTick \in Nat
       /\ Earmarks(f) <= f.balance
  BY <1>5 DEF Covers, Typed, Earmarks
<1>11. /\ r.buyer = d.buyer /\ r.put = d.put /\ r.got = d.got /\ r.feeAccrued = f.feeAccrued
       /\ r.finalizedOwed = f.finalizedOwed /\ r.sellerBond = f.sellerBond
       /\ r.probeTick = f.probeTick
  BY <1>6, <1>9 DEF Agree, DealFields
<1> HIDE DEF r
<1> DEFINE refund == back + f.buyerBond
<1>12. /\ refund \in Nat
       /\ refund + r.finalizedOwed + r.sellerBond + r.feeAccrued + r.probeTick <= r.balance
  BY <1>8, <1>9, <1>10, <1>11 DEF Earmarks
<1>13. /\ e.put = d.put /\ e.got[d.buyer] = d.got[d.buyer] + refund
       /\ SellerGain(e) = d.got[Seller] - d.put[Seller] + r.balance - refund - f.feeAccrued
  <2> HIDE DEF refund
  <2>1. /\ RefundAndDie(r, FALSE, refund).put = r.put
        /\ RefundAndDie(r, FALSE, refund).got[r.buyer] = r.got[r.buyer] + refund
        /\ SellerGain(RefundAndDie(r, FALSE, refund)) =
             r.got[Seller] - r.put[Seller] + r.balance - refund - r.feeAccrued
    BY <1>9, <1>11, <1>12, RefundPays
  <2> QED
    BY <1>11, <2>1 DEF refund
<1> HIDE DEF e
<1>14. d.got[Seller] \in Nat /\ d.put[Seller] \in Nat /\ d.got[d.buyer] \in Nat /\ d.balance \in Nat
       /\ d.buyerBond \in Nat /\ d.sellerBond \in Nat
  BY DEF Covers, Typed, Notes
<1>15. SellerGain(e) = Tally(c) - s
  <2>1. /\ c.got = d.got /\ c.put = d.put /\ c.balance = d.balance /\ c.buyerBond = d.buyerBond
        /\ c.deposit = f.deposit /\ c.feeAccrued = f.feeAccrued
    BY <1>1, <1>6 DEF SameParties
  <2>2. Tally(c) = d.got[Seller] - d.put[Seller] + d.balance - f.deposit - d.buyerBond - f.feeAccrued
    BY <2>1 DEF Tally
  <2>3. SellerGain(e) = d.got[Seller] - d.put[Seller] + r.balance - (back + f.buyerBond) - f.feeAccrued
    BY <1>13
  <2> QED
    BY <1>5, <1>8, <1>9, <1>10, <1>14, <2>2, <2>3
<1>16. e.got[d.buyer] = d.got[d.buyer] + Refundable(c) + (d.buyerBond - b)
  BY <1>5, <1>7, <1>8, <1>13, <1>14
<1> QED
  BY <1>0, <1>13, <1>15, <1>16 DEF b, s, c

\* A charge takes the value out of the escrow, as far as it goes.
LEMMA ChargeSplit ==
  ASSUME NEW d, Typed(d), NEW n \in Nat
  PROVE  LET c == ChargeTokens(d, n)
         IN  /\ c.deposit = d.deposit - Lesser(d.deposit, Value(n))
             /\ c.finalizedOwed = d.finalizedOwed + Earned(d.deposit, n)
             /\ Tally(c) = Tally(d) + Earned(d.deposit, n)
             /\ SellerGain(c) = SellerGain(d) + Earned(d.deposit, n)
             /\ Agree(c, d, Charges)
<1> DEFINE v     == Value(n)
           short == PayOf(n) + FeeOf(n) > d.deposit
           fee   == IF short THEN Lesser(d.deposit, FeeOf(n)) ELSE FeeOf(n)
           pay   == IF short THEN d.deposit - fee ELSE PayOf(n)
           c     == ChargeTokens(d, n)
<1>1. /\ PayOf(n) \in Nat /\ FeeOf(n) \in Nat /\ d.deposit \in Nat /\ d.finalizedOwed \in Nat
      /\ d.feeAccrued \in Nat /\ d.balance \in Nat /\ d.buyerBond \in Nat /\ d.sellerBond \in Nat
      /\ d.got[Seller] \in Nat /\ d.put[Seller] \in Nat /\ DOMAIN d = DealFields
  BY ValueNat DEF Typed, Notes
<1>2. c = [d EXCEPT !.deposit = @ - (pay + fee), !.finalizedOwed = @ + pay, !.feeAccrued = @ + fee]
  BY DEF ChargeTokens
<1>3. /\ pay \in Nat /\ fee \in Nat /\ pay = Earned(d.deposit, n)
      /\ pay + fee = Lesser(d.deposit, v)
  BY <1>1 DEF Earned, Value, Lesser
<1> HIDE DEF pay, fee, v, c
<1>4. /\ c.deposit = d.deposit - (pay + fee) /\ c.finalizedOwed = d.finalizedOwed + pay
      /\ c.feeAccrued = d.feeAccrued + fee /\ c.got = d.got /\ c.put = d.put
      /\ c.balance = d.balance /\ c.buyerBond = d.buyerBond /\ c.sellerBond = d.sellerBond
  BY <1>1, <1>2 DEF DealFields
<1>5. Agree(c, d, Charges)
  BY <1>1, ChargeOnly DEF c
<1>6. Tally(c) = Tally(d) + pay
  BY <1>1, <1>3, <1>4 DEF Tally
<1>7. SellerGain(c) = SellerGain(d) + pay
  BY <1>1, <1>3, <1>4 DEF SellerGain
<1> QED
  BY <1>3, <1>4, <1>5, <1>6, <1>7 DEF c, v

\* A larger escrow never earns the seller less.
LEMMA EarnedGrows ==
  ASSUME NEW a \in Nat, NEW b \in Nat, a <= b, NEW n \in Nat
  PROVE  Earned(a, n) \in Nat /\ Earned(a, n) <= Earned(b, n)
<1>1. PayOf(n) \in Nat /\ FeeOf(n) \in Nat
  BY ValueNat
<1> QED
  BY <1>1 DEF Earned, Value, Lesser

\* Nothing has no value.
LEMMA NothingFree == Value(0) = 0
<1>1. 0 * P = 0 /\ 0 \div TICK_SIZE = 0 /\ 0 * PLATFORM_FEE_BPS = 0 /\ 0 \div BPS_DENOMINATOR = 0
  BY PriceAssumption
<1> QED
  BY <1>1 DEF Value, PayOf, FeeOf, Fee

\* An undisputed close past the probe: final claims are charged, the rest goes back.
LEMMA PayFinalPays ==
  ASSUME NEW d, Covers(d, 0), d.buyer \in Buyers, d.probeAccepted
  PROVE  LET owed == IF ~IsSubscription(d) /\ d.tokensFinal > d.tokensPaid
                     THEN d.tokensFinal - d.tokensPaid ELSE 0
             e    == PayFinalAndClose(d)
         IN  /\ e.put = d.put
             /\ e.got[d.buyer] = d.got[d.buyer]
                  + (d.deposit - Lesser(d.deposit, Value(owed))) + d.buyerBond
             /\ SellerGain(e) >= SellerGain(d) + Earned(d.deposit, owed)
<1> DEFINE owed == IF ~IsSubscription(d) /\ d.tokensFinal > d.tokensPaid
                   THEN d.tokensFinal - d.tokensPaid ELSE 0
           c    == ChargeTokens(d, owed)
           mark == IF owed > 0 THEN d.tokensFinal ELSE c.tokensPaid
           m    == [c EXCEPT !.tokensPaid = mark]
           q    == ReleaseBuyerBond(m)
           r    == RecordDelivered(q)
           e    == RefundAndDie(r, TRUE, r.deposit)
<1>1. owed \in Nat /\ DOMAIN d = DealFields /\ Typed(d) /\ d.tokensFinal \in Nat
  BY DEF Covers, Typed
<1>2. PayFinalAndClose(d) = CloseClean([c EXCEPT !.tokensPaid = IF owed > 0 THEN d.tokensFinal ELSE @])
  BY DEF PayFinalAndClose
<1> HIDE DEF owed
<1>3. /\ Covers(c, 0) /\ c.deposit = d.deposit - Lesser(d.deposit, Value(owed))
      /\ SellerGain(c) = SellerGain(d) + Earned(d.deposit, owed) /\ Agree(c, d, Charges)
  BY <1>1, ChargeSplit, ChargeTokensCovers
<1> HIDE DEF c
<1>4. mark \in Nat /\ DOMAIN c = DealFields /\ SameParties(d, c) /\ c.probeAccepted = d.probeAccepted
  BY <1>1, <1>3, ChargedParties DEF Covers, Typed
<1>5. PayFinalAndClose(d) = CloseClean(m)
  BY <1>2, <1>4
<1> HIDE DEF mark
<1>6. Covers(m, 0) /\ Agree(m, c, {"tokensPaid"})
  <2>1. Covers(m, 0)
    BY <1>3, <1>4 DEF Covers, Typed, DealFields, Earmarks
  <2> QED
    BY <1>4, <2>1 DEF Agree, DealFields
<1> HIDE DEF m
<1>7. /\ m.deposit = c.deposit /\ m.buyerBond = d.buyerBond /\ m.got = d.got /\ m.put = d.put
      /\ m.buyer = d.buyer /\ m.probeAccepted /\ m.finalizedOwed = c.finalizedOwed
      /\ m.sellerBond = c.sellerBond /\ m.put = c.put /\ m.got = c.got
  BY <1>4, <1>6 DEF Agree, DealFields, SameParties
<1>8. /\ Covers(q, 0) /\ q.deposit = c.deposit + d.buyerBond /\ q.got = d.got /\ q.put = d.put
      /\ q.buyer = d.buyer /\ q.finalizedOwed = c.finalizedOwed /\ q.sellerBond = c.sellerBond
  <2>1. Covers(q, 0)
    BY <1>6, ReleaseCovers
  <2>2. DOMAIN m = DealFields
    BY <1>6 DEF Agree
  <2> QED
    BY <1>7, <2>1, <2>2 DEF ReleaseBuyerBond, DealFields
<1>9. ReleaseProbe(m) = m
  BY <1>7 DEF ReleaseProbe
<1>10. e = PayFinalAndClose(d)
  BY <1>5, <1>9 DEF CloseClean
<1> HIDE DEF q
<1>11. Covers(r, 0) /\ Agree(r, q, {"ticksFinalized"})
  BY <1>8, RecordDeliveredCovers DEF Covers, Typed, RecordDelivered, Agree, DealFields
<1>12. /\ r.deposit = c.deposit + d.buyerBond /\ r.got = d.got /\ r.put = d.put
       /\ r.buyer = d.buyer /\ r.finalizedOwed = c.finalizedOwed /\ r.sellerBond = c.sellerBond
  BY <1>8, <1>11 DEF Agree, DealFields
<1> HIDE DEF r
<1>13. /\ Typed(r) /\ r.deposit \in Nat
       /\ r.deposit + r.finalizedOwed + r.sellerBond + r.feeAccrued + r.probeTick <= r.balance
  BY <1>11 DEF Covers, Typed, Earmarks
<1>14. /\ e.put = r.put /\ e.got[r.buyer] = r.got[r.buyer] + r.deposit /\ SellerGain(e) >= SellerGain(r)
  BY <1>12, <1>13, RefundPays
<1> HIDE DEF e
<1>15. SellerGain(r) = SellerGain(c)
  BY <1>7, <1>12 DEF SellerGain
<1>16. e.got[d.buyer] = d.got[d.buyer] + (c.deposit + d.buyerBond)
  BY <1>12, <1>14
<1>17. d.got[d.buyer] \in Nat /\ c.deposit \in Nat /\ d.buyerBond \in Nat
  BY <1>3 DEF Covers, Typed, Notes
<1> DEFINE g == d.got[d.buyer]
           x == d.deposit - Lesser(d.deposit, Value(owed))
<1>18. e.got[d.buyer] = g + x + d.buyerBond
  BY <1>3, <1>16, <1>17
<1> QED
  BY <1>3, <1>10, <1>12, <1>14, <1>15, <1>18 DEF owed

\* The buyer's exit during the trial: escrow and bond go back, the probe tick does not.
LEMMA ProbeStopPays ==
  ASSUME NEW d, Covers(d, 0), d.buyer \in Buyers
  PROVE  LET e == StopDuringProbe(d)
         IN  e.put = d.put /\ e.got[d.buyer] = d.got[d.buyer] + d.deposit + d.buyerBond
<1> DEFINE burn == Lesser(d.probeTick, d.sellerBond)
           r    == ReleaseBuyerBond(d)
           m    == [r EXCEPT !.finalizedOwed = @ + (d.sellerBond - burn),
                             !.sellerBond = 0, !.probeTick = 0, !.deposit = 0, !.opened = FALSE]
           x    == d.probeTick + burn
           g    == BurnShell(m, x)
           y    == d.deposit + d.buyerBond
           p    == PayShell(g, d.buyer, y)
           e    == PayOwedAndDie(p)
<1>1. /\ Typed(d) /\ DOMAIN d = DealFields /\ burn \in Nat /\ burn <= d.sellerBond /\ x \in Nat
      /\ y \in Nat /\ d.probeTick \in Nat
  BY DEF Covers, Typed, Lesser
<1>2. r.deposit = y /\ StopDuringProbe(d) = e
  BY <1>1 DEF StopDuringProbe, ReleaseBuyerBond, DealFields
<1> HIDE DEF burn
<1>3. Covers(m, (0 + y) + x) /\ m.got = d.got /\ m.put = d.put
  BY <1>1 DEF ReleaseBuyerBond, Covers, Typed, DealFields, Earmarks
<1> HIDE DEF m, x, r
<1>4. Covers(g, 0 + y)
  BY <1>1, <1>3, BurnShellCovers
<1>5. g.got = d.got /\ g.put = d.put /\ DOMAIN g = DealFields
  BY <1>3, <1>4 DEF BurnShell, Covers, Typed, DealFields
<1> HIDE DEF g, y
<1>6. Covers(p, 0) /\ p.put = d.put /\ p.got = Credit(d.got, d.buyer, y)
  <2>1. Covers(p, 0)
    BY <1>1, <1>4, PayShellCovers
  <2> QED
    BY <1>5, <2>1 DEF PayShell, DealFields
<1> HIDE DEF p
<1>7. e.put = p.put /\ e.got[d.buyer] = p.got[d.buyer]
  BY <1>6, OwedAndRest
<1>8. d.buyer \in Notes /\ d.got \in [Notes -> Nat] /\ d.got[d.buyer] \in Nat
  BY <1>1 DEF Typed, Notes
<1>9. Credit(d.got, d.buyer, y)[d.buyer] = d.got[d.buyer] + y
  BY <1>1, <1>8, CreditNote
<1>10. d.deposit \in Nat /\ d.buyerBond \in Nat
  BY <1>1 DEF Typed
<1> HIDE DEF e
<1>11. e.got[d.buyer] = d.got[d.buyer] + y
  BY <1>6, <1>7, <1>9
<1> QED
  BY <1>2, <1>6, <1>7, <1>8, <1>10, <1>11 DEF y

\* Rounding: one division of a sum against two.
LEMMA DivSum ==
  ASSUME NEW a \in Nat, NEW b \in Nat, NEW u \in Nat \ {0}
  PROVE  (a + b) \div u <= a \div u + b \div u + 1 /\ a \div u \in Nat
<1> DEFINE x == a \div u
           y == b \div u
           z == (a + b) \div u
<1>1. x \in Nat /\ y \in Nat /\ z \in Nat /\ a < x * u + u /\ b < y * u + u /\ z * u <= a + b
  BY a + b \in Nat
<1> HIDE DEF x, y, z
<1>2. SUFFICES ASSUME x + y + 2 <= z PROVE FALSE
  BY <1>1 DEF x, y, z
<1>3. (x + y + 2) * u <= z * u
  BY <1>1, <1>2, MulMono
<1>4. (x + y + 2) * u = x * u + y * u + u + u /\ x * u \in Nat /\ y * u \in Nat /\ z * u \in Nat
  BY <1>1
<1> QED
  BY <1>1, <1>3, <1>4

\* Division is monotonic,
LEMMA DivGrows ==
  ASSUME NEW a \in Nat, NEW b \in Nat, a <= b, NEW u \in Nat \ {0}
  PROVE  a \div u <= b \div u /\ a \div u \in Nat /\ (a + u) \div u = a \div u + 1
<1> DEFINE x == a \div u
           y == b \div u
           z == (a + u) \div u
<1>1. /\ x \in Nat /\ y \in Nat /\ z \in Nat /\ x * u <= a /\ a < x * u + u /\ b < y * u + u
      /\ z * u <= a + u /\ a + u < z * u + u
  BY a + u \in Nat
<1> HIDE DEF x, y, z
<1>2. x <= y
  <2> SUFFICES ASSUME y + 1 <= x PROVE FALSE
    BY <1>1
  <2>1. (y + 1) * u <= x * u /\ (y + 1) * u = y * u + u
    BY <1>1, MulMono
  <2> QED
    BY <1>1, <2>1
<1>3. z <= x + 1
  <2> SUFFICES ASSUME x + 2 <= z PROVE FALSE
    BY <1>1
  <2>1. (x + 2) * u <= z * u /\ (x + 2) * u = x * u + u + u
    BY <1>1, MulMono
  <2> QED
    BY <1>1, <2>1
<1>4. x + 1 <= z
  <2> SUFFICES ASSUME z <= x PROVE FALSE
    BY <1>1
  <2>1. z * u <= x * u
    BY <1>1, MulMono
  <2> QED
    BY <1>1, <2>1
<1> QED
  BY <1>1, <1>2, <1>3, <1>4 DEF x, y, z

\* and so is the fee.
LEMMA FeeGrows ==
  ASSUME NEW a \in Nat, NEW b \in Nat, a <= b PROVE Fee(a) <= Fee(b)
<1>1. PLATFORM_FEE_BPS \in Nat /\ BPS_DENOMINATOR \in Nat \ {0}
  BY PriceAssumption
<1>2. a * PLATFORM_FEE_BPS \in Nat /\ b * PLATFORM_FEE_BPS \in Nat
      /\ a * PLATFORM_FEE_BPS <= b * PLATFORM_FEE_BPS
  BY <1>1, MulMono
<1> QED
  BY <1>1, <1>2, DivGrows DEF Fee

\* More tokens are worth no less.
LEMMA ValueGrows ==
  ASSUME NEW m \in Nat, NEW n \in Nat, m <= n
  PROVE  Value(m) <= Value(n) /\ PayOf(m) <= PayOf(n)
<1>1. P \in Nat /\ TICK_SIZE \in Nat \ {0} /\ PayOf(m) \in Nat /\ PayOf(n) \in Nat
      /\ FeeOf(m) \in Nat /\ FeeOf(n) \in Nat
  BY PriceAssumption, ValueNat
<1>2. m * P \in Nat /\ n * P \in Nat /\ m * P <= n * P
  BY <1>1, MulMono
<1>3. PayOf(m) <= PayOf(n)
  BY <1>1, <1>2, DivGrows DEF PayOf
<1>4. FeeOf(m) <= FeeOf(n)
  BY <1>1, <1>3, FeeGrows DEF FeeOf
<1> QED
  BY <1>1, <1>3, <1>4 DEF Value

\* Two bills are at most a tick short of one for both.
LEMMA TwoBills ==
  ASSUME ModestFee, NEW m \in Nat, NEW n \in Nat
  PROVE  Value(m + n) <= Value(m) + Value(n) + P
<1> DEFINE a == PayOf(m)
           b == PayOf(n)
           s == PayOf(m + n)
           f == PLATFORM_FEE_BPS
           u == BPS_DENOMINATOR
<1>1. /\ P \in Nat /\ P >= 3 /\ TICK_SIZE \in Nat \ {0} /\ f \in Nat /\ u \in Nat \ {0} /\ f <= u
      /\ a \in Nat /\ b \in Nat /\ s \in Nat
  BY PriceAssumption, ValueNat DEF ModestFee
<1>2. s <= a + b + 1
  <2>1. m * P \in Nat /\ n * P \in Nat /\ (m + n) * P = m * P + n * P
    BY <1>1
  <2>2. (m * P + n * P) \div TICK_SIZE <= (m * P) \div TICK_SIZE + (n * P) \div TICK_SIZE + 1
    BY <1>1, <2>1, DivSum
  <2> QED
    BY <2>1, <2>2 DEF PayOf
<1> HIDE DEF a, b, s, f, u
<1>3. Fee(s) <= Fee(a + b + 1)
  BY <1>1, <1>2, FeeGrows
<1>4. Fee(a + b + 1) <= Fee(a) + Fee(b) + 2
  <2> DEFINE x == a * f
             y == b * f
             z == (a + b + 1) * f
  <2>1. x \in Nat /\ y \in Nat /\ z \in Nat /\ z = x + y + f /\ z <= x + y + u
    BY <1>1
  <2> HIDE DEF x, y, z
  <2>2. z \div u <= (x + y + u) \div u
    BY <1>1, <2>1, DivGrows
  <2>w. x + y \in Nat /\ x + y <= x + y
    BY <2>1
  <2>3. (x + y + u) \div u = (x + y) \div u + 1
    BY <1>1, <2>w, DivGrows
  <2>4. (x + y) \div u <= x \div u + y \div u + 1
    BY <1>1, <2>1, DivSum
  <2>5. x \div u \in Nat /\ y \div u \in Nat /\ (x + y) \div u \in Nat /\ z \div u \in Nat
    BY <1>1, <2>1, DivSum
  <2>6. Fee(a) = x \div u /\ Fee(b) = y \div u /\ Fee(a + b + 1) = z \div u
    BY DEF Fee, x, y, z, f, u
  <2> QED
    BY <2>2, <2>3, <2>4, <2>5, <2>6
<1>5. Fee(a) \in Nat /\ Fee(b) \in Nat /\ Fee(s) \in Nat /\ Fee(a + b + 1) \in Nat
  BY <1>1, FeeNat
<1>6. Value(m) = a + Fee(a) /\ Value(n) = b + Fee(b) /\ Value(m + n) = s + Fee(s)
  BY DEF Value, FeeOf, a, b, s
<1> QED
  BY <1>1, <1>2, <1>3, <1>4, <1>5, <1>6

\* Lifting a dispute drops or keeps the pending claim, and touches nothing else.
LEMMA LiftedFacts ==
  ASSUME NEW d, Covers(d, 0)
  PROVE  LET v == Lifted(d)
         IN  /\ Covers(v, 0) /\ Agree(v, d, {"tokensFinal", "tokensPend", "disputed"})
             /\ v.tokensPend = v.tokensFinal /\ v.tokensFinal \in {d.tokensFinal, d.tokensPend}
<1>1. DOMAIN d = DealFields
  BY DEF Covers, Typed
<1>2. Covers(Lifted(d), 0)
  BY VoidClaimsCovers DEF Lifted
<1>3. /\ Agree(Lifted(d), d, {"tokensFinal", "tokensPend", "disputed"})
      /\ Lifted(d).tokensPend = Lifted(d).tokensFinal
      /\ Lifted(d).tokensFinal \in {d.tokensFinal, d.tokensPend}
  BY <1>1 DEF Lifted, VoidClaims, Agree, DealFields
<1> QED
  BY <1>2, <1>3

\* Where no weeks are charged, the trusted claims come out of the escrow and the rest is
\* refundable.
LEMMA PlainTrusted ==
  ASSUME NEW d, Covers(d, 0), ~(IsSubscription(d) /\ d.probeAccepted)
  PROVE  /\ Unpaid(d) \in Nat /\ Contested(d) \in Nat
         /\ Refundable(Trusted(d)) = Contested(d) - Lesser(Contested(d), Value(Unpaid(d)))
         /\ Tally(Trusted(d)) = Tally(d) - (Contested(d) - d.deposit)
                                + Earned(Contested(d), Unpaid(d))
<1> DEFINE rp == ReleaseProbe(d)
           n  == Unpaid(d)
           c  == Trusted(d)
<1>0. DOMAIN d = DealFields /\ Typed(d)
  BY DEF Covers, Typed
<1>1. /\ rp.deposit = Contested(d) /\ Agree(rp, d, {"deposit", "probeTick"}) /\ Covers(rp, 0)
  <2>1. rp.deposit = Contested(d)
    BY <1>0 DEF ReleaseProbe, Contested, Typed, DealFields
  <2> QED
    BY <1>0, <2>1, ReleaseOnly, ReleaseCovers
<1> HIDE DEF rp
<1>2. /\ rp.tokensFinal = d.tokensFinal /\ rp.tokensPaid = d.tokensPaid /\ rp.weekIndex = d.weekIndex
      /\ rp.weekBaseTokens = d.weekBaseTokens /\ rp.subWeeks = d.subWeeks
      /\ rp.probeAccepted = d.probeAccepted /\ rp.got = d.got /\ rp.put = d.put
      /\ rp.balance = d.balance /\ rp.buyerBond = d.buyerBond /\ rp.feeAccrued = d.feeAccrued
  BY <1>1 DEF Agree, DealFields
<1>3. ClaimBase(rp) = ClaimBase(d) /\ (IsSubscription(rp) <=> IsSubscription(d))
  BY <1>2 DEF ClaimBase, IsSubscription
<1>4. ChargeWeeksThrough(rp, WeeksElapsedAt(d, d.disputeTime)) = rp
  BY <1>2, <1>3 DEF ChargeWeeksThrough
<1>5. c = ChargeTokens(rp, n)
  BY <1>2, <1>3, <1>4 DEF Trusted, Unpaid, rp
<1>6. n \in Nat /\ Typed(rp) /\ rp.deposit \in Nat
  BY <1>0, <1>1 DEF Unpaid, ClaimBase, Typed, Covers
<1> HIDE DEF n, c
<1>7. /\ c.deposit = rp.deposit - Lesser(rp.deposit, Value(n))
      /\ Tally(c) = Tally(rp) + Earned(rp.deposit, n) /\ Agree(c, rp, Charges)
  BY <1>5, <1>6, ChargeSplit
<1>8. c.probeAccepted = d.probeAccepted /\ c.subWeeks = d.subWeeks
  BY <1>2, <1>7, ChargedParties
<1>9. Refundable(c) = c.deposit
  BY <1>8 DEF Refundable, IsSubscription
<1>10. Tally(rp) = Tally(d) - (rp.deposit - d.deposit)
  <2>1. /\ d.got[Seller] \in Nat /\ d.put[Seller] \in Nat /\ d.balance \in Nat /\ d.deposit \in Nat
        /\ d.buyerBond \in Nat /\ d.feeAccrued \in Nat
    BY <1>0 DEF Typed, Notes
  <2> QED
    BY <1>2, <1>6, <2>1 DEF Tally
<1> QED
  BY <1>1, <1>6, <1>7, <1>9, <1>10 DEF n, c

\* An ordinary dispute, refused: the record the timeout settles.
LEMMA BurntFacts ==
  ASSUME NEW d, Staking(d), ~IsSubscription(d)
  PROVE  LET v == Lifted(d)
             g == BurnShell([v EXCEPT !.deposit = @ - Burnt(d)], Burnt(d))
         IN  /\ Burnt(d) \in Nat /\ Burnt(d) <= d.deposit
             /\ ReleaseDisputeEffect(d) = SettleTrustedAndClose(v, P, P)
             /\ ResolveDisputeTimeoutEffect(d) = SettleTrustedAndClose(g, 2 * P, 2 * P)
             /\ Covers(v, 0) /\ Covers(g, 0)
             /\ Agree(g, v, {"deposit", "balance", "burned"})
             /\ g.deposit = v.deposit - Burnt(d) /\ g.balance = v.balance - Burnt(d)
<1> DEFINE v == Lifted(d)
           x == Burnt(d)
           h == [v EXCEPT !.deposit = @ - x]
           g == BurnShell(h, x)
           w == ChargeWeeksThrough(d, WeeksElapsedAt(d, d.disputeTime))
<1>0. Covers(d, 0) /\ Typed(d) /\ d.deposit \in Nat
  BY DEF Staking, Covers, Typed
<1>1. x \in Nat /\ x <= d.deposit
  <2> DEFINE n == IF d.tokensPend > d.tokensFinal THEN d.tokensPend - d.tokensFinal ELSE 0
  <2>1. n \in Nat
    BY <1>0 DEF Typed
  <2>2. Burnt(d) = Lesser(Value(n), d.deposit)
    BY DEF Burnt
  <2> HIDE DEF n
  <2>3. Value(n) \in Nat
    BY <2>1, ValueNat DEF Value
  <2> QED
    BY <1>0, <2>2, <2>3 DEF Lesser
<1>2. w = d
  BY DEF ChargeWeeksThrough
<1>3. /\ ReleaseDisputeEffect(d) = SettleTrustedAndClose(v, P, P)
      /\ ResolveDisputeTimeoutEffect(d) = SettleTrustedAndClose(g, 2 * P, 2 * P)
  BY <1>2 DEF ReleaseDisputeEffect, ResolveDisputeTimeoutEffect, Lifted, Burnt, Value
<1>4. Covers(v, 0) /\ v.deposit = d.deposit /\ DOMAIN v = DealFields
  BY <1>0, LiftedFacts DEF Agree, DealFields
<1> HIDE DEF v, x
<1>5. Covers(h, 0 + x)
  BY <1>0, <1>1, <1>4 DEF Covers, Typed, DealFields, Earmarks
<1>6. Covers(g, 0)
  BY <1>1, <1>5, BurnShellCovers
<1>7. /\ Agree(g, v, {"deposit", "balance", "burned"})
      /\ g.deposit = v.deposit - x /\ g.balance = v.balance - x
  BY <1>4 DEF BurnShell, Agree, DealFields
<1> QED
  BY <1>1, <1>3, <1>4, <1>6, <1>7 DEF v, x

\* Bonds are two ticks, a tick is worth something.
LEMMA TwoTicks == BondAmount = 2 * P /\ P \in Nat \ {0} /\ BondAmount \in Nat
  BY PriceAssumption DEF BondAmount

\* In an ordinary dispute the seller gains by conceding, and a refusal leaves the buyer what is
\* neither burned nor owed.
LEMMA OrdinaryDispute ==
  ASSUME NEW d, Staking(d), ~IsSubscription(d)
  PROVE  LET refused == ResolveDisputeTimeoutEffect(d)
             n       == Unpaid(Lifted(d))
             left    == Contested(d) - Burnt(d)
         IN  /\ SellerGain(ReleaseDisputeEffect(d)) > SellerGain(refused)
             /\ refused.put = d.put /\ n \in Nat /\ left \in Nat
             /\ refused.got[d.buyer] = d.got[d.buyer] + (left - Lesser(left, Value(n)))
<1> DEFINE v == Lifted(d)
           x == Burnt(d)
           g == BurnShell([v EXCEPT !.deposit = @ - x], x)
           n == Unpaid(v)
           left == Contested(d) - x
           conceded == SettleTrustedAndClose(v, P, P)
           refused == SettleTrustedAndClose(g, 2 * P, 2 * P)
<1>0. Covers(d, 0) /\ Typed(d) /\ d.deposit \in Nat /\ d.probeTick \in Nat /\ d.buyer \in Buyers
  BY DEF Staking, Covers, Typed
<1>1. /\ x \in Nat /\ x <= d.deposit
      /\ ReleaseDisputeEffect(d) = conceded /\ ResolveDisputeTimeoutEffect(d) = refused
      /\ Covers(v, 0) /\ Covers(g, 0) /\ Agree(g, v, {"deposit", "balance", "burned"})
      /\ g.deposit = v.deposit - x /\ g.balance = v.balance - x
  BY BurntFacts
<1>2. Agree(v, d, {"tokensFinal", "tokensPend", "disputed"})
  BY <1>0, LiftedFacts
<1> HIDE DEF v, g, x
<1>3. /\ v.buyer = d.buyer /\ v.put = d.put /\ v.got = d.got /\ v.deposit = d.deposit
      /\ v.probeAccepted = d.probeAccepted /\ v.probeTick = d.probeTick /\ v.subWeeks = d.subWeeks
      /\ v.buyerBond = BondAmount /\ v.sellerBond = BondAmount
  BY <1>2 DEF Agree, DealFields, Staking
<1>4. /\ g.buyer = d.buyer /\ g.put = d.put /\ g.got = d.got /\ g.put = v.put /\ g.got = v.got
      /\ g.probeAccepted = d.probeAccepted /\ g.probeTick = d.probeTick /\ g.subWeeks = d.subWeeks
      /\ g.buyerBond = BondAmount /\ g.sellerBond = BondAmount /\ g.feeAccrued = v.feeAccrued
      /\ g.tokensFinal = v.tokensFinal /\ g.tokensPaid = v.tokensPaid /\ g.buyerBond = v.buyerBond
      /\ ~IsSubscription(v) /\ ~IsSubscription(g)
  BY <1>1, <1>3 DEF Agree, DealFields, IsSubscription
<1>5. Unpaid(g) = n
  BY <1>4 DEF Unpaid, ClaimBase
<1>6. Contested(v) = Contested(d) /\ Contested(g) = left /\ Contested(d) \in Nat /\ left \in Nat
  BY <1>0, <1>1, <1>3, <1>4 DEF Contested
<1>7. Tally(g) = Tally(v)
  <2>1. /\ v.got[Seller] \in Nat /\ v.put[Seller] \in Nat /\ v.balance \in Nat /\ v.deposit \in Nat
        /\ v.buyerBond \in Nat /\ v.feeAccrued \in Nat
    BY <1>1 DEF Covers, Typed, Notes
  <2> QED
    BY <1>1, <1>4, <2>1 DEF Tally
<1>8. /\ n \in Nat
      /\ Tally(Trusted(v)) = Tally(v) - (Contested(d) - d.deposit) + Earned(Contested(d), n)
  BY <1>1, <1>3, <1>4, <1>6, PlainTrusted
<1>9. /\ Refundable(Trusted(g)) = left - Lesser(left, Value(n))
      /\ Tally(Trusted(g)) = Tally(v) - (left - (d.deposit - x)) + Earned(left, n)
  BY <1>1, <1>3, <1>4, <1>5, <1>6, <1>7, PlainTrusted
<1> HIDE DEF n, left
<1>10. Earned(left, n) \in Nat /\ Earned(Contested(d), n) \in Nat
       /\ Earned(left, n) <= Earned(Contested(d), n)
  <2> DEFINE q == Contested(d)
  <2>1. q \in Nat /\ left \in Nat /\ left <= q /\ q <= q /\ n \in Nat
    BY <1>1, <1>6, <1>8 DEF left
  <2> HIDE DEF q
  <2>2. Earned(left, n) \in Nat /\ Earned(left, n) <= Earned(q, n) /\ Earned(q, n) \in Nat
    BY <2>1, EarnedGrows
  <2> QED
    BY <2>2 DEF q
<1>11. Tally(v) \in Int
  <2>1. /\ v.got[Seller] \in Nat /\ v.put[Seller] \in Nat /\ v.balance \in Nat /\ v.deposit \in Nat
        /\ v.buyerBond \in Nat /\ v.feeAccrued \in Nat
    BY <1>1 DEF Covers, Typed, Notes
  <2> QED
    BY <2>1 DEF Tally
<1>12. Tally(Trusted(g)) <= Tally(Trusted(v)) /\ Tally(Trusted(g)) \in Int /\ Tally(Trusted(v)) \in Int
  <2> DEFINE ev == Earned(Contested(d), n)
             eg == Earned(left, n)
             q  == Contested(d)
  <2>1. q \in Nat /\ ev \in Nat /\ eg \in Nat /\ eg <= ev /\ left = q - x
    BY <1>6, <1>10 DEF left
  <2>2. Tally(Trusted(v)) = Tally(v) - (q - d.deposit) + ev
    BY <1>8
  <2>3. Tally(Trusted(g)) = Tally(v) - (left - (d.deposit - x)) + eg
    BY <1>9
  <2> HIDE DEF ev, eg, q
  <2> QED
    BY <1>0, <1>1, <1>11, <2>1, <2>2, <2>3, SMTT(30)
<1>13. P \in Nat \ {0} /\ BondAmount = 2 * P
  BY TwoTicks
<1>14. Lesser(P, BondAmount) = P /\ Lesser(2 * P, BondAmount) = 2 * P
  BY <1>13 DEF Lesser
<1>15. SellerGain(conceded) = Tally(Trusted(v)) - P
  BY <1>0, <1>1, <1>3, <1>13, <1>14, TrustedPays
<1>16. /\ SellerGain(refused) = Tally(Trusted(g)) - 2 * P /\ refused.put = d.put
       /\ refused.got[d.buyer] = d.got[d.buyer] + Refundable(Trusted(g)) + (BondAmount - 2 * P)
  <2>1. 2 * P \in Nat
    BY <1>13
  <2>2. /\ SellerGain(refused) = Tally(Trusted(g)) - Lesser(2 * P, g.sellerBond) /\ refused.put = g.put
        /\ refused.got[g.buyer] = g.got[g.buyer] + Refundable(Trusted(g))
                                  + (g.buyerBond - Lesser(2 * P, g.buyerBond))
    BY <1>0, <1>1, <1>4, <2>1, TrustedPays
  <2> HIDE DEF refused
  <2> QED
    BY <1>4, <1>14, <2>2
<1> HIDE DEF conceded, refused
<1>17. SellerGain(conceded) > SellerGain(refused)
  BY <1>12, <1>13, <1>15, <1>16
<1>18. refused.got[d.buyer] = d.got[d.buyer] + (left - Lesser(left, Value(n)))
  <2>1. d.got[d.buyer] \in Nat
    BY <1>0 DEF Typed, Notes
  <2>2. left - Lesser(left, Value(n)) \in Int
    <3>1. Value(n) \in Nat
      BY <1>8, ValueNat DEF Value
    <3> QED
      BY <1>6, <3>1 DEF Lesser
  <2> DEFINE z == left - Lesser(left, Value(n))
  <2>3. refused.got[d.buyer] = d.got[d.buyer] + z + (BondAmount - 2 * P) /\ z \in Int
    BY <1>9, <1>16, <2>2
  <2> HIDE DEF z
  <2>4. refused.got[d.buyer] = d.got[d.buyer] + z
    BY <1>13, <2>1, <2>3
  <2> QED
    BY <2>4 DEF z
<1> QED
  BY <1>1, <1>6, <1>8, <1>16, <1>17, <1>18 DEF v, n, x, left

\* The buyer's exit from an ordinary deal past its probe: every claim is charged, a tick of his
\* bond burns.
LEMMA OrdinaryStop ==
  ASSUME NEW d, Covers(d, 0), d.buyer \in Buyers, d.probeAccepted, ~IsSubscription(d),
         d.tokensFinal <= d.tokensPend, NEW t \in Nat
  PROVE  LET e == StopEffect(d, t)
             n == IF d.tokensPend > d.tokensPaid THEN d.tokensPend - d.tokensPaid ELSE 0
         IN  /\ e.put = d.put /\ n \in Nat
             /\ e.got[d.buyer] = d.got[d.buyer] + (d.deposit - Lesser(d.deposit, Value(n)))
                                 + (d.buyerBond - Lesser(P, d.buyerBond))
             /\ SellerGain(e) >= SellerGain(d) + Earned(d.deposit, n)
<1> DEFINE due == PromoteDue(d, t)
           p   == Promote(due)
           f   == ForfeitBonds(p, P, 0)
           w   == ChargeWeeksThrough(f, WeeksStartedAt(d, t))
           b   == Lesser(P, d.buyerBond)
           n   == IF d.tokensPend > d.tokensPaid THEN d.tokensPend - d.tokensPaid ELSE 0
           e   == PayFinalAndClose(f)
<1>0. DOMAIN d = DealFields /\ Typed(d) /\ P \in Nat /\ d.tokensPend \in Nat /\ d.tokensFinal \in Nat
      /\ d.tokensPaid \in Nat
  BY PriceAssumption DEF Covers, Typed
<1>1. /\ Covers(due, 0) /\ Agree(due, d, {"tokensFinal"}) /\ due.tokensFinal \in Nat
      /\ due.tokensFinal <= d.tokensPend
  <2>1. Covers(due, 0)
    BY PromoteCovers
  <2> QED
    BY <1>0, <2>1 DEF PromoteDue, Promote, Greater, Agree, DealFields
<1>2. IsSubscription(due) = FALSE /\ due.tokensPend = d.tokensPend
  BY <1>1 DEF Agree, DealFields, IsSubscription
<1> HIDE DEF due
<1>3. Covers(p, 0) /\ Agree(p, d, {"tokensFinal"}) /\ p.tokensFinal = d.tokensPend
  <2>1. Covers(p, 0)
    BY <1>1, PromoteCovers
  <2> QED
    BY <1>0, <1>1, <1>2, <2>1 DEF Promote, Greater, Agree, DealFields
<1> HIDE DEF p
<1>4. /\ Covers(f, 0) /\ b \in 0..p.buyerBond /\ Agree(f, p, {"buyerBond", "sellerBond", "balance", "burned"})
      /\ f.buyerBond = p.buyerBond - b /\ f.sellerBond = p.sellerBond
  <2>1. p.buyerBond = d.buyerBond /\ Typed(p) /\ p.sellerBond \in Nat
    BY <1>3 DEF Agree, DealFields, Covers, Typed
  <2> DEFINE y == 0
             h == ForfeitBonds(p, P, y)
  <2>p. Typed(p) /\ P \in Nat
    BY <1>0, <2>1
  <2>y. y \in Nat
    OBVIOUS
  <2>h. h = f
    OBVIOUS
  <2> HIDE DEF y
  <2>2. /\ Lesser(P, p.buyerBond) \in 0..p.buyerBond
        /\ h.buyerBond = p.buyerBond - Lesser(P, p.buyerBond)
        /\ h.sellerBond = p.sellerBond - Lesser(y, p.sellerBond)
        /\ Agree(h, p, {"buyerBond", "sellerBond", "balance", "burned"})
    BY <2>p, <2>y, Forfeits
  <2>3. Covers(f, 0)
    BY <1>0, <1>3, ForfeitBondsCovers
  <2>4. Lesser(y, p.sellerBond) = 0
    BY <2>1 DEF Lesser, y
  <2> HIDE DEF f, h
  <2> QED
    BY <2>1, <2>2, <2>3, <2>4, <2>h
<1> HIDE DEF f, b
<1>5. /\ f.buyer = d.buyer /\ f.put = d.put /\ f.got = d.got /\ f.deposit = d.deposit
      /\ f.tokensFinal = d.tokensPend /\ f.tokensPaid = d.tokensPaid /\ f.probeAccepted
      /\ f.subWeeks = d.subWeeks /\ f.buyerBond = d.buyerBond - b /\ f.sellerBond = d.sellerBond
      /\ f.finalizedOwed = d.finalizedOwed /\ p.buyerBond = d.buyerBond
  BY <1>3, <1>4 DEF Agree, DealFields
<1>6. ~IsSubscription(f) /\ w = f
  BY <1>5 DEF IsSubscription, ChargeWeeksThrough
<1>7. StopEffect(d, t) = e
  BY <1>2, <1>6 DEF StopEffect, due, p, f
<1>8. /\ e.put = f.put
      /\ e.got[f.buyer] = f.got[f.buyer] + (f.deposit - Lesser(f.deposit, Value(n))) + f.buyerBond
      /\ SellerGain(e) >= SellerGain(f) + Earned(f.deposit, n)
  <2> DEFINE m == IF ~IsSubscription(f) /\ f.tokensFinal > f.tokensPaid
                  THEN f.tokensFinal - f.tokensPaid ELSE 0
  <2>1. m = n
    BY <1>5, <1>6
  <2>2. /\ e.put = f.put
        /\ e.got[f.buyer] = f.got[f.buyer] + (f.deposit - Lesser(f.deposit, Value(m))) + f.buyerBond
        /\ SellerGain(e) >= SellerGain(f) + Earned(f.deposit, m)
    BY <1>4, <1>5, PayFinalPays
  <2> HIDE DEF m, n, e
  <2> QED
    BY <2>1, <2>2
<1>9. SellerGain(f) = SellerGain(d)
  BY <1>5 DEF SellerGain
<1>10. n \in Nat
  BY <1>0
<1> HIDE DEF e, n
<1> QED
  BY <1>5, <1>7, <1>8, <1>9, <1>10 DEF b, n

\* A disputed record, before the dispute was raised.
LEMMA Undisputed ==
  ASSUME NEW d, Staking(d)
  PROVE  LET u == [d EXCEPT !.disputed = FALSE]
         IN  Covers(u, 0) /\ Agree(u, d, {"disputed"}) /\ SellerGain(u) = SellerGain(d)
  BY DEF Staking, Covers, Typed, Agree, DealFields, Earmarks, SellerGain

\* An ordinary deal past its probe.
LEMMA OrdinaryPriced ==
  ASSUME ModestFee, NEW d, Staking(d), ~IsSubscription(d), d.probeAccepted
  PROVE  LET refused == ResolveDisputeTimeoutEffect(d)
             stopped == StopEffect([d EXCEPT !.disputed = FALSE], d.disputeTime)
         IN  /\ SellerGain(ReleaseDisputeEffect(d)) > SellerGain(refused)
             /\ BuyerLoss(refused, d.buyer) >= BuyerLoss(stopped, d.buyer)
<1> DEFINE u       == [d EXCEPT !.disputed = FALSE]
           refused == ResolveDisputeTimeoutEffect(d)
           stopped == StopEffect(u, d.disputeTime)
           nk      == Unpaid(Lifted(d))
           ns      == IF u.tokensPend > u.tokensPaid THEN u.tokensPend - u.tokensPaid ELSE 0
           np      == IF d.tokensPend > d.tokensFinal THEN d.tokensPend - d.tokensFinal ELSE 0
           D       == d.deposit
           x       == Burnt(d)
           left    == Contested(d) - x
<1>0. /\ Covers(d, 0) /\ Typed(d) /\ D \in Nat /\ d.tokensPend \in Nat /\ d.tokensFinal \in Nat
      /\ d.tokensPaid \in Nat /\ d.disputeTime \in Nat /\ d.buyer \in Buyers
      /\ d.tokensFinal <= d.tokensPend /\ d.buyerBond = 2 * P /\ P \in Nat
      /\ d.got[d.buyer] \in Nat /\ d.put[d.buyer] \in Nat
  BY TwoTicks DEF Staking, Covers, Typed, Notes
<1>1. Covers(u, 0) /\ Agree(u, d, {"disputed"})
  BY Undisputed
<1> HIDE DEF u
<1>2. /\ u.buyer = d.buyer /\ u.put = d.put /\ u.got = d.got /\ u.deposit = D
      /\ u.tokensPend = d.tokensPend /\ u.tokensFinal = d.tokensFinal /\ u.tokensPaid = d.tokensPaid
      /\ u.probeAccepted /\ u.subWeeks = d.subWeeks /\ u.buyerBond = d.buyerBond
  BY <1>1 DEF Agree, DealFields
<1>3. /\ SellerGain(ReleaseDisputeEffect(d)) > SellerGain(refused)
      /\ refused.put = d.put /\ nk \in Nat /\ left \in Nat
      /\ refused.got[d.buyer] = d.got[d.buyer] + (left - Lesser(left, Value(nk)))
  BY OrdinaryDispute
<1>4. /\ stopped.put = u.put /\ ns \in Nat
      /\ stopped.got[u.buyer] = u.got[u.buyer] + (u.deposit - Lesser(u.deposit, Value(ns)))
                                + (u.buyerBond - Lesser(P, u.buyerBond))
  <2>1. u.buyer \in Buyers /\ ~IsSubscription(u) /\ u.tokensFinal <= u.tokensPend
    BY <1>0, <1>2 DEF IsSubscription
  <2> QED
    BY <1>0, <1>1, <1>2, <2>1, OrdinaryStop
<1>5. ns <= np + nk /\ np \in Nat
  <2>1. Agree(Lifted(d), d, {"tokensFinal", "tokensPend", "disputed"})
        /\ Lifted(d).tokensFinal \in {d.tokensFinal, d.tokensPend}
    BY <1>0, LiftedFacts
  <2>2. Lifted(d).tokensPaid = d.tokensPaid /\ ~IsSubscription(Lifted(d))
    BY <2>1 DEF Agree, DealFields, IsSubscription
  <2>3. nk = IF Lifted(d).tokensFinal > d.tokensPaid THEN Lifted(d).tokensFinal - d.tokensPaid ELSE 0
    BY <2>2 DEF Unpaid, ClaimBase
  <2> HIDE DEF nk
  <2> QED
    BY <1>0, <1>2, <2>1, <2>3
<1>6. x = Lesser(Value(np), D) /\ left = D - x
  <2>1. Contested(d) = D
    BY <1>0 DEF Contested
  <2> QED
    BY <2>1 DEF Burnt
<1> HIDE DEF refused, stopped, nk, ns, np, D, left, x
<1>7. /\ Value(ns) <= Value(np) + Value(nk) + P /\ Value(ns) \in Nat /\ Value(np) \in Nat
      /\ Value(nk) \in Nat
  <2>1. np + nk \in Nat
    BY <1>3, <1>5
  <2>2. Value(ns) <= Value(np + nk) /\ Value(np + nk) <= Value(np) + Value(nk) + P
    BY <1>3, <1>4, <1>5, <2>1, ValueGrows, TwoBills
  <2>3. Value(ns) \in Nat /\ Value(np) \in Nat /\ Value(nk) \in Nat /\ Value(np + nk) \in Nat
    BY <1>3, <1>4, <1>5, <2>1, ValueNat DEF Value
  <2> QED
    BY <1>0, <2>2, <2>3
<1>8. left - Lesser(left, Value(nk)) <= (D - Lesser(D, Value(ns))) + P
  BY <1>0, <1>3, <1>6, <1>7 DEF Lesser
<1>9. Lesser(P, d.buyerBond) = P
  BY <1>0 DEF Lesser
<1> DEFINE a == left - Lesser(left, Value(nk))
           b == D - Lesser(D, Value(ns))
<1>10. a \in Int /\ b \in Int /\ a <= b + P
  BY <1>0, <1>3, <1>7, <1>8 DEF Lesser
<1>11. /\ refused.put = d.put /\ refused.got[d.buyer] = d.got[d.buyer] + a
       /\ stopped.put = d.put /\ stopped.got[d.buyer] = d.got[d.buyer] + b + (2 * P - P)
  BY <1>0, <1>2, <1>3, <1>4, <1>9
<1> HIDE DEF a, b
<1>12. BuyerLoss(refused, d.buyer) >= BuyerLoss(stopped, d.buyer)
  BY <1>0, <1>10, <1>11 DEF BuyerLoss
<1> QED
  BY <1>3, <1>12 DEF refused, stopped, u

\* The stake of a subscription's dispute is at least a tick.
LEMMA StakeATick ==
  ASSUME NEW d, Typed(d), IsSubscription(d), d.buyerBond = BondAmount, d.sellerBond = BondAmount
  PROVE  DisputeStake(d) \in Nat /\ DisputeStake(d) >= P
<1> DEFINE n == IF d.tokensPend > ClaimBase(d) THEN d.tokensPend - ClaimBase(d) ELSE 0
<1>1. n \in Nat
  BY DEF Typed, ClaimBase
<1> HIDE DEF n
<1>2. ClaimedUnpaidValue(d) \in Nat
  BY <1>1, ValueNat DEF ClaimedUnpaidValue, n
<1> QED
  BY <1>2, TwoTicks DEF DisputeStake, Lesser, Greater

\* A subscription's dispute: conceded or refused, the claims trusted are the same, and the
\* buyer leaves at least a tick of his bond.
LEMMA SubscriptionDispute ==
  ASSUME NEW d, Staking(d), IsSubscription(d)
  PROVE  LET v        == Lifted(ChargeWeeksThrough(d, WeeksElapsedAt(d, d.disputeTime)))
             conceded == ReleaseDisputeEffect(d)
             refused  == ResolveDisputeTimeoutEffect(d)
             most     == d.got[d.buyer] + Refundable(Trusted(v)) + P
         IN  /\ SellerGain(conceded) > SellerGain(refused) /\ Covers(v, 0)
             /\ conceded.put = d.put /\ conceded.got[d.buyer] <= most
             /\ refused.put = d.put /\ refused.got[d.buyer] <= most
             /\ Refundable(Trusted(v)) \in Nat /\ conceded.got[d.buyer] \in Int
             /\ refused.got[d.buyer] \in Int
<1> DEFINE w  == ChargeWeeksThrough(d, WeeksElapsedAt(d, d.disputeTime))
           v  == Lifted(w)
           sc == DisputeStake(v)
           st == DisputeStake(w)
           conceded == SettleTrustedAndClose(v, sc, 0)
           refused  == SettleTrustedAndClose(v, st, st)
           x  == Refundable(Trusted(v))
           zero == 0
<1>0. /\ Covers(d, 0) /\ DOMAIN d = DealFields /\ WeeksElapsedAt(d, d.disputeTime) \in Int
      /\ d.buyer \in Buyers /\ P \in Nat \ {0} /\ BondAmount = 2 * P /\ d.got[d.buyer] \in Nat
  BY WeeksInt, TwoTicks DEF Staking, Covers, Typed, Notes
<1>1. Covers(w, 0) /\ SameParties(d, w) /\ w.subWeeks = d.subWeeks
  <2>1. Covers(w, 0) /\ Agree(w, d, Charges)
    BY <1>0, ChargeWeeksCovers, WeeksOnly
  <2> HIDE DEF w
  <2> QED
    BY <2>1, ChargedParties
<1>2. ReleaseDisputeEffect(d) = conceded /\ ResolveDisputeTimeoutEffect(d) = refused
  BY DEF ReleaseDisputeEffect, ResolveDisputeTimeoutEffect, Lifted
<1> HIDE DEF w
<1>3. Covers(v, 0) /\ Agree(v, w, {"tokensFinal", "tokensPend", "disputed"})
  BY <1>1, LiftedFacts
<1> HIDE DEF v
<1>4. SameParties(d, v) /\ v.subWeeks = d.subWeeks
  BY <1>1, <1>3 DEF Agree, DealFields, SameParties
<1>5. /\ v.buyer = d.buyer /\ v.put = d.put /\ v.got = d.got /\ v.buyerBond = BondAmount
      /\ v.sellerBond = BondAmount /\ w.buyerBond = BondAmount /\ w.sellerBond = BondAmount
      /\ IsSubscription(v) /\ IsSubscription(w) /\ Typed(v) /\ Typed(w)
  BY <1>1, <1>3, <1>4 DEF SameParties, Staking, IsSubscription, Covers
<1>6. sc \in Nat /\ sc >= P /\ st \in Nat /\ st >= P
  BY <1>5, StakeATick
<1>7. Covers(Trusted(v), 0)
  BY <1>3, TrustedFacts
<1>8. x \in Nat /\ Tally(Trusted(v)) \in Int
  <2> DEFINE c == Trusted(v)
  <2>1. Typed(c) /\ Refundable(c) \in Nat
    BY <1>7, RefundableBound DEF Covers
  <2> HIDE DEF c
  <2>2. Tally(c) \in Int
    BY <2>1 DEF Tally, Typed, Notes
  <2> QED
    BY <2>1, <2>2 DEF c
<1> HIDE DEF sc, st, x
<1>9. /\ conceded.put = v.put
      /\ conceded.got[v.buyer] = v.got[v.buyer] + x + (v.buyerBond - Lesser(sc, v.buyerBond))
      /\ SellerGain(conceded) = Tally(Trusted(v)) - Lesser(0, v.sellerBond)
  <2>0. zero \in Nat /\ v.buyer \in Buyers
    BY <1>0, <1>5
  <2> DEFINE r == SettleTrustedAndClose(v, sc, zero)
  <2>1. r = conceded
    OBVIOUS
  <2>2. Lesser(0, v.sellerBond) = Lesser(zero, v.sellerBond)
    OBVIOUS
  <2> HIDE DEF zero
  <2>3. /\ r.put = v.put
        /\ r.got[v.buyer] = v.got[v.buyer] + Refundable(Trusted(v)) + (v.buyerBond - Lesser(sc, v.buyerBond))
        /\ SellerGain(r) = Tally(Trusted(v)) - Lesser(zero, v.sellerBond)
    BY <1>3, <1>6, <2>0, TrustedPays
  <2> HIDE DEF r, conceded
  <2> QED
    BY <2>1, <2>2, <2>3 DEF x
<1>10. /\ refused.put = v.put
       /\ refused.got[v.buyer] = v.got[v.buyer] + x + (v.buyerBond - Lesser(st, v.buyerBond))
       /\ SellerGain(refused) = Tally(Trusted(v)) - Lesser(st, v.sellerBond)
  BY <1>0, <1>3, <1>5, <1>6, TrustedPays DEF x
<1>11. /\ Lesser(0, BondAmount) = 0 /\ Lesser(st, BondAmount) \in Nat /\ Lesser(sc, BondAmount) \in Nat
       /\ Lesser(st, BondAmount) >= P /\ Lesser(sc, BondAmount) >= P
  BY <1>0, <1>6 DEF Lesser
<1> DEFINE a == Lesser(st, BondAmount)
           b == Lesser(sc, BondAmount)
           T == Tally(Trusted(v))
<1> HIDE DEF conceded, refused
<1>12. /\ conceded.put = d.put /\ conceded.got[d.buyer] = d.got[d.buyer] + x + (2 * P - b)
       /\ refused.put = d.put /\ refused.got[d.buyer] = d.got[d.buyer] + x + (2 * P - a)
       /\ SellerGain(conceded) = T - 0 /\ SellerGain(refused) = T - a
       /\ a \in Nat /\ b \in Nat /\ a >= P /\ b >= P
  BY <1>0, <1>5, <1>9, <1>10, <1>11
<1> HIDE DEF a, b
<1>13. SellerGain(conceded) > SellerGain(refused)
  BY <1>0, <1>8, <1>12
<1>14. /\ conceded.got[d.buyer] <= d.got[d.buyer] + x + P /\ conceded.got[d.buyer] \in Int
       /\ refused.got[d.buyer] <= d.got[d.buyer] + x + P /\ refused.got[d.buyer] \in Int
  BY <1>0, <1>8, <1>12
<1> QED
  BY <1>2, <1>3, <1>8, <1>12, <1>13, <1>14 DEF x, v, w

\* A deal still on trial, of either shape.
LEMMA TrialPriced ==
  ASSUME NEW d, Staking(d), ~d.probeAccepted
  PROVE  LET conceded == ReleaseDisputeEffect(d)
             refused  == ResolveDisputeTimeoutEffect(d)
             stopped  == StopEffect([d EXCEPT !.disputed = FALSE], d.disputeTime)
         IN  /\ SellerGain(conceded) > SellerGain(refused)
             /\ BuyerLoss(refused, d.buyer) >= BuyerLoss(stopped, d.buyer)
             /\ IsSubscription(d) => BuyerLoss(conceded, d.buyer) >= BuyerLoss(stopped, d.buyer)
<1> DEFINE u        == [d EXCEPT !.disputed = FALSE]
           conceded == ReleaseDisputeEffect(d)
           refused  == ResolveDisputeTimeoutEffect(d)
           stopped  == StopEffect(u, d.disputeTime)
           g        == d.got[d.buyer]
           v        == Lifted(d)
<1>0. /\ Covers(d, 0) /\ Typed(d) /\ d.deposit \in Nat /\ d.tokensPend = 0 /\ d.tokensFinal = 0
      /\ d.buyer \in Buyers /\ d.buyerBond = 2 * P /\ P \in Nat \ {0} /\ d.probeTick = P
      /\ g \in Nat /\ d.put[d.buyer] \in Nat
  BY TwoTicks DEF Staking, Covers, Typed, Notes
<1>1. Covers(u, 0) /\ Agree(u, d, {"disputed"})
  BY Undisputed
<1> HIDE DEF u
<1>2. /\ u.buyer = d.buyer /\ u.put = d.put /\ u.got = d.got /\ u.deposit = d.deposit
      /\ u.buyerBond = d.buyerBond /\ ~u.probeAccepted
  BY <1>1 DEF Agree, DealFields
<1>3. stopped.put = d.put /\ stopped.got[d.buyer] = g + d.deposit + 2 * P
  <2>1. stopped = StopDuringProbe(u)
    BY <1>2 DEF StopEffect
  <2>2. /\ StopDuringProbe(u).put = u.put
        /\ StopDuringProbe(u).got[u.buyer] = u.got[u.buyer] + u.deposit + u.buyerBond
    BY <1>0, <1>1, <1>2, ProbeStopPays
  <2> QED
    BY <1>0, <1>2, <2>1, <2>2
<1>4. /\ v.probeAccepted = d.probeAccepted /\ v.deposit = d.deposit /\ v.probeTick = d.probeTick
      /\ v.tokensFinal = 0 /\ Covers(v, 0)
  <2>1. /\ Agree(v, d, {"tokensFinal", "tokensPend", "disputed"}) /\ Covers(v, 0)
        /\ v.tokensFinal \in {d.tokensFinal, d.tokensPend}
    BY <1>0, LiftedFacts
  <2> QED
    BY <1>0, <2>1 DEF Agree, DealFields
<1>5. Contested(v) = d.deposit + P /\ Contested(d) = d.deposit + P
  BY <1>0, <1>4 DEF Contested
<1>6. Unpaid(v) = 0
  <2>1. ClaimBase(v) \in Nat
    BY <1>4 DEF ClaimBase, Covers, Typed
  <2> QED
    BY <1>4, <2>1 DEF Unpaid
<1>7. CASE ~IsSubscription(d)
  <2>1. Burnt(d) = 0
    <3>1. Lesser(0, d.deposit) = 0
      BY <1>0 DEF Lesser
    <3> QED
      BY <1>0, <3>1, NothingFree DEF Burnt
  <2>2. Lesser(d.deposit + P, 0) = 0
    BY <1>0 DEF Lesser
  <2> DEFINE left == Contested(d) - Burnt(d)
  <2>3. left = d.deposit + P
    BY <1>0, <1>5, <2>1
  <2>4. /\ SellerGain(conceded) > SellerGain(refused) /\ refused.put = d.put
        /\ refused.got[d.buyer] = g + (left - Lesser(left, Value(Unpaid(v))))
    BY <1>7, OrdinaryDispute
  <2> HIDE DEF left, conceded, refused, stopped, v
  <2>5. refused.got[d.buyer] = g + (d.deposit + P)
    BY <1>0, <1>6, <2>2, <2>3, <2>4, NothingFree
  <2>6. BuyerLoss(refused, d.buyer) >= BuyerLoss(stopped, d.buyer)
    BY <1>0, <1>3, <2>4, <2>5 DEF BuyerLoss
  <2> QED
    BY <1>7, <2>4, <2>6 DEF conceded, refused, stopped, u
<1>8. CASE IsSubscription(d)
  <2> DEFINE x == Refundable(Trusted(v))
  <2>1. ChargeWeeksThrough(d, WeeksElapsedAt(d, d.disputeTime)) = d
    BY DEF ChargeWeeksThrough
  <2>2. /\ SellerGain(conceded) > SellerGain(refused)
        /\ conceded.put = d.put /\ conceded.got[d.buyer] <= g + x + P
        /\ refused.put = d.put /\ refused.got[d.buyer] <= g + x + P
        /\ x \in Nat /\ conceded.got[d.buyer] \in Int /\ refused.got[d.buyer] \in Int
    BY <1>8, <2>1, SubscriptionDispute
  <2>3. x = d.deposit + P
    <3>1. x = Contested(v) - Lesser(Contested(v), Value(Unpaid(v)))
      BY <1>4, PlainTrusted
    <3>2. Lesser(d.deposit + P, 0) = 0
      BY <1>0 DEF Lesser
    <3> QED
      BY <1>0, <1>5, <1>6, <3>1, <3>2, NothingFree
  <2> HIDE DEF x, conceded, refused, stopped
  <2>4. BuyerLoss(refused, d.buyer) >= BuyerLoss(stopped, d.buyer)
    BY <1>0, <1>3, <2>2, <2>3 DEF BuyerLoss
  <2>5. BuyerLoss(conceded, d.buyer) >= BuyerLoss(stopped, d.buyer)
    BY <1>0, <1>3, <2>2, <2>3 DEF BuyerLoss
  <2> QED
    BY <2>2, <2>4, <2>5 DEF conceded, refused, stopped, u
<1> QED
  BY <1>7, <1>8

\* Charging weeks reaches its target.
LEMMA WeeksReach ==
  ASSUME NEW d, DOMAIN d = DealFields, d.weekIndex \in Nat, IsSubscription(d), d.probeAccepted,
         NEW a \in Int, d.weekIndex <= a, a <= 4
  PROVE  ChargeWeeksThrough(d, a).weekIndex = a
<1> DEFINE Step(c) == IF c.weekIndex < a THEN ChargeOneWeek(c) ELSE c
           Up(c, n) == /\ DOMAIN c = DealFields /\ c.weekIndex \in Nat /\ c.weekIndex <= a
                       /\ c.weekIndex = a \/ c.weekIndex >= n
<1>1. ASSUME NEW c, NEW n \in 0..3, Up(c, n) PROVE Up(Step(c), n + 1)
  BY <1>1, WeekAdvances
<1>2. Up(d, 0)
  OBVIOUS
<1>3. ChargeWeeksThrough(d, a) = Step(Step(Step(Step(d))))
  BY DEF ChargeWeeksThrough
<1> HIDE DEF Step, Up
<1>4. Up(Step(d), 1)
  BY <1>1, <1>2
<1>5. Up(Step(Step(d)), 2)
  BY <1>1, <1>4
<1>6. Up(Step(Step(Step(d))), 3)
  BY <1>1, <1>5
<1>7. Up(Step(Step(Step(Step(d)))), 4)
  BY <1>1, <1>6
<1> QED
  BY <1>3, <1>7 DEF Up

\* The buyer's exit from a subscription past its probe: the weeks started are charged, the
\* rest of the escrow and his bond go back.
LEMMA SubscriptionStop ==
  ASSUME NEW d, Covers(d, 0), d.buyer \in Buyers, d.probeAccepted, IsSubscription(d), NEW t \in Nat
  PROVE  LET e == StopEffect(d, t)
             y == ChargeWeeksThrough(PromoteDue(d, t), WeeksStartedAt(d, t))
         IN  /\ e.put = d.put /\ y.deposit \in Nat
             /\ e.got[d.buyer] = d.got[d.buyer] + y.deposit + d.buyerBond
<1> DEFINE p == PromoteDue(d, t)
           a == WeeksStartedAt(d, t)
           y == ChargeWeeksThrough(p, a)
           e == PayFinalAndClose(y)
<1>0. DOMAIN d = DealFields /\ Typed(d) /\ a \in Int
  BY WeeksOrdered DEF Covers, Typed
<1>1. Covers(p, 0) /\ Agree(p, d, {"tokensFinal"})
  <2>1. Covers(p, 0)
    BY PromoteCovers
  <2> QED
    BY <1>0, <2>1 DEF PromoteDue, Promote, Agree, DealFields
<1> HIDE DEF p
<1>2. p.probeAccepted = d.probeAccepted /\ p.subWeeks = d.subWeeks /\ SameParties(d, p)
  BY <1>1 DEF Agree, DealFields, SameParties
<1> HIDE DEF a
<1>3. Covers(y, 0) /\ Agree(y, p, Charges)
  BY <1>0, <1>1, ChargeWeeksCovers, WeeksOnly DEF Covers, Typed
<1> HIDE DEF y
<1>4. SameParties(p, y) /\ y.probeAccepted = p.probeAccepted /\ y.subWeeks = p.subWeeks
  BY <1>3, ChargedParties
<1>5. /\ y.buyer = d.buyer /\ y.put = d.put /\ y.got = d.got /\ y.buyerBond = d.buyerBond
      /\ y.probeAccepted /\ IsSubscription(y) /\ IsSubscription(p)
  BY <1>2, <1>4 DEF SameParties, IsSubscription
<1>6. StopEffect(d, t) = e
  BY <1>5 DEF StopEffect, y, p, a
<1>7. y.deposit \in Nat /\ d.got[d.buyer] \in Nat /\ d.buyerBond \in Nat
  BY <1>0, <1>3 DEF Covers, Typed, Notes
<1> DEFINE n == IF ~IsSubscription(y) /\ y.tokensFinal > y.tokensPaid
                THEN y.tokensFinal - y.tokensPaid ELSE 0
<1>8. /\ e.put = y.put
      /\ e.got[y.buyer] = y.got[y.buyer] + (y.deposit - Lesser(y.deposit, Value(n))) + y.buyerBond
  BY <1>3, <1>5, PayFinalPays
<1>9. n = 0
  BY <1>5
<1> HIDE DEF n, e
<1>10. Lesser(y.deposit, Value(n)) = 0
  BY <1>7, <1>9, NothingFree DEF Lesser
<1> QED
  BY <1>5, <1>6, <1>7, <1>8, <1>10 DEF y, p, a

\* What a dispute may refund of a subscription is no more than what stop() leaves.
LEMMA WeeksRefund ==
  ASSUME WholeShells, NEW d, Staking(d), d.opened, d.probeAccepted, IsSubscription(d),
         NEW K \in Nat \ {0}, NEW j \in Nat \ {0}, BooksAt(d, K, j)
  PROVE  LET v == Lifted(ChargeWeeksThrough(d, WeeksElapsedAt(d, d.disputeTime)))
             u == [d EXCEPT !.disputed = FALSE]
             y == ChargeWeeksThrough(PromoteDue(u, d.disputeTime), WeeksStartedAt(u, d.disputeTime))
         IN  Refundable(Trusted(v)) <= y.deposit
<1> DEFINE t == d.disputeTime
           w == ChargeWeeksThrough(d, WeeksElapsedAt(d, t))
           v == Lifted(w)
           c == Trusted(v)
           u == [d EXCEPT !.disputed = FALSE]
           p == PromoteDue(u, t)
           s == WeeksStartedAt(u, t)
           y == ChargeWeeksThrough(p, s)
           E == WeeksElapsedAt(d, t)
<1>0. /\ Covers(d, 0) /\ Typed(d) /\ DOMAIN d = DealFields /\ t \in Nat /\ d.weekIndex \in Nat
      /\ d.subWeeks = SUB_WEEKS /\ SUB_WEEKS \in 1..4 /\ d.deposit \in Nat /\ d.periodStart \in Nat
  BY TimeAssumption DEF Staking, Covers, Typed, IsSubscription
<1>1. Covers(u, 0) /\ Agree(u, d, {"disputed"}) /\ SellerGain(u) = SellerGain(d)
  BY Undisputed
<1> HIDE DEF u, t
<1>2. /\ Typed(u) /\ u.periodStart = d.periodStart /\ u.subWeeks = d.subWeeks /\ SameBooks(d, u)
      /\ u.opened = d.opened
  BY <1>1 DEF Agree, DealFields, SameBooks, Covers
<1>3. Covers(p, 0) /\ SameBooks(u, p) /\ SellerGain(p) = SellerGain(u)
  BY <1>0, <1>1, <1>2, PromoteCovers, PromoteBooked
<1> HIDE DEF p
<1>4. BooksAt(p, K, j)
  BY <1>1, <1>2, <1>3, BooksFrame
<1>5. /\ p.opened /\ p.probeAccepted /\ p.weekIndex = d.weekIndex /\ p.deposit = d.deposit
      /\ p.subWeeks = d.subWeeks /\ IsSubscription(p) /\ DOMAIN p = DealFields
  BY <1>2, <1>3 DEF SameBooks, Covers, Typed, IsSubscription
<1>6. /\ s = WeeksStartedAt(d, t) /\ E \in Int /\ s \in Int /\ E <= s /\ s <= 4 /\ s <= SUB_WEEKS
  <2>1. s = WeeksStartedAt(d, t)
    BY <1>2 DEF WeeksStartedAt, WeeksElapsedAt
  <2>2. E \in Int /\ WeeksStartedAt(d, t) \in Int /\ E <= WeeksStartedAt(d, t) /\ WeeksStartedAt(d, t) <= 4
    BY <1>0, WeeksOrdered
  <2>3. E <= d.subWeeks
    <3>1. (t - d.periodStart) \div SUB_WEEK_LEN \in Int
      BY <1>0, TimeAssumption
    <3> QED
      BY <1>0, <3>1 DEF WeeksElapsedAt, Lesser
  <2>4. WeeksStartedAt(d, t) <= SUB_WEEKS
    BY <1>0, <2>2, <2>3 DEF WeeksStartedAt
  <2> QED
    BY <2>1, <2>2, <2>4
<1> HIDE DEF s, E
<1>7. Covers(w, 0) /\ Agree(w, d, Charges)
  BY <1>0, <1>6, ChargeWeeksCovers, WeeksOnly DEF E
<1> HIDE DEF w
<1>8. Covers(v, 0) /\ Agree(v, w, {"tokensFinal", "tokensPend", "disputed"})
  BY <1>7, LiftedFacts
<1> HIDE DEF v
<1>9. /\ v.subWeeks = d.subWeeks /\ v.tokensPerWeek = d.tokensPerWeek /\ v.disputeTime = t
      /\ v.periodStart = d.periodStart /\ v.probeAccepted = d.probeAccepted
      /\ v.deposit = w.deposit /\ v.weekIndex = w.weekIndex
  BY <1>7, <1>8 DEF Agree, Charges, DealFields, t
<1>10. /\ Covers(c, 0) /\ c.probeAccepted = v.probeAccepted
       /\ c.subWeeks = v.subWeeks /\ c.tokensPerWeek = v.tokensPerWeek
       /\ c.periodStart = v.periodStart /\ c.disputeTime = v.disputeTime
  BY <1>8, TrustedFacts
<1>11. CASE s <= d.weekIndex
  <2>1. w = d
    BY <1>0, <1>6, <1>11, WeeksIdle DEF w, E
  <2>2. y = p
    BY <1>5, <1>6, <1>0, <1>11, WeeksIdle
  <2>3. ReleaseProbe(v) = v
    BY <1>9 DEF ReleaseProbe
  <2>4. WeeksElapsedAt(v, v.disputeTime) = E
    BY <1>9 DEF WeeksElapsedAt, E
  <2>5. ChargeWeeksThrough(v, E) = v
    BY <1>0, <1>6, <1>9, <1>11, <2>1, WeeksIdle
  <2>6. c = ChargeTokens(v, Unpaid(v))
    BY <2>3, <2>4, <2>5 DEF Trusted, Unpaid
  <2>7. Unpaid(v) \in Nat /\ Typed(v) /\ v.deposit \in Nat
    BY <1>8 DEF Unpaid, ClaimBase, Covers, Typed
  <2>8. c.deposit = v.deposit - Lesser(v.deposit, Value(Unpaid(v)))
    BY <2>6, <2>7, ChargeSplit
  <2>9. c.deposit <= v.deposit
    <3>1. Value(Unpaid(v)) \in Nat
      BY <2>7, ValueNat DEF Value
    <3> QED
      BY <2>7, <2>8, <3>1 DEF Lesser
  <2>10. Refundable(c) <= c.deposit /\ Refundable(c) \in Nat /\ c.deposit \in Nat
    BY <1>10, RefundableBound DEF Covers, Typed
  <2> QED
    BY <1>5, <1>9, <2>1, <2>2, <2>7, <2>9, <2>10 DEF v, w, p, u, s, t
<1>12. CASE ~(s <= d.weekIndex)
  <2> DEFINE k == SUB_WEEKS - s
             n == k * d.tokensPerWeek
  <2>1. s >= 1 /\ k \in Nat /\ d.weekIndex <= s
    BY <1>0, <1>6, <1>12
  <2>2. y.weekIndex = s
    BY <1>0, <1>5, <1>6, <2>1, WeeksReach
  <2>3. BooksAt(y, K, j) /\ y.probeAccepted
    <3>1. BooksAt(y, K, j)
      BY <1>0, <1>3, <1>4, <1>5, <1>6, WeeksBooks
    <3>2. Agree(y, p, Charges)
      BY <1>5, WeeksOnly
    <3> HIDE DEF y
    <3> QED
      BY <1>5, <3>1, <3>2, ChargedParties
  <2> HIDE DEF y
  <2>4. y.deposit = (K - Mark(y, j)) * Unit /\ d.tokensPerWeek = j * TICK_SIZE /\ K = j * SUB_WEEKS
    BY <2>3 DEF BooksAt
  <2>5. s * j \in Nat /\ s * j >= 1 /\ Mark(y, j) = s * j
    <3>1. s \in Nat /\ 1 * j <= s * j
      BY <1>6, <2>1, MulMono
    <3>2. s * j \in Nat /\ 1 * j = j /\ j >= 1
      BY <3>1
    <3> QED
      BY <2>2, <3>1, <3>2 DEF Mark, Greater
  <2>6. k * j \in Nat /\ n = (k * j) * TICK_SIZE /\ K - s * j = k * j
    <3>1. TICK_SIZE \in Nat /\ SUB_WEEKS \in Nat /\ s \in Nat
      BY <1>0, <1>6, <2>1, PriceAssumption
    <3> QED
      BY <2>1, <2>4, <3>1
  <2>7. PayOf(n) + FeeOf(n) = (k * j) * Unit
    BY <2>6, TicksValue
  <2>8. WeeksStartedAt(c, c.disputeTime) = s
    BY <1>6, <1>9, <1>10 DEF WeeksStartedAt, WeeksElapsedAt
  <2>9. Refundable(c) = Lesser(c.deposit, PayOf(n) + FeeOf(n))
    <3>1. IsSubscription(c) /\ c.probeAccepted /\ c.subWeeks = SUB_WEEKS /\ c.tokensPerWeek = d.tokensPerWeek
      BY <1>0, <1>9, <1>10 DEF IsSubscription
    <3>2. (IF SUB_WEEKS > s THEN SUB_WEEKS - s ELSE 0) = k
      BY <1>0, <1>6
    <3> QED
      BY <2>8, <3>1, <3>2 DEF Refundable
  <2>10. c.deposit \in Nat /\ (k * j) * Unit \in Nat
    BY <1>10, <2>6, UnitNat DEF Covers, Typed
  <2>11. Refundable(c) <= (k * j) * Unit
    BY <2>7, <2>9, <2>10 DEF Lesser
  <2> QED
    BY <2>4, <2>5, <2>6, <2>11 DEF y, v, w, p, u, s, t
<1> QED
  BY <1>11, <1>12

\* A subscription past its probe.
LEMMA WeeksPriced ==
  ASSUME WholeShells, NEW d, Staking(d), d.opened, d.probeAccepted, IsSubscription(d),
         NEW K \in Nat \ {0}, NEW j \in Nat \ {0}, BooksAt(d, K, j)
  PROVE  LET conceded == ReleaseDisputeEffect(d)
             refused  == ResolveDisputeTimeoutEffect(d)
             stopped  == StopEffect([d EXCEPT !.disputed = FALSE], d.disputeTime)
         IN  /\ SellerGain(conceded) > SellerGain(refused)
             /\ BuyerLoss(refused, d.buyer) >= BuyerLoss(stopped, d.buyer)
             /\ BuyerLoss(conceded, d.buyer) >= BuyerLoss(stopped, d.buyer)
<1> DEFINE u        == [d EXCEPT !.disputed = FALSE]
           conceded == ReleaseDisputeEffect(d)
           refused  == ResolveDisputeTimeoutEffect(d)
           stopped  == StopEffect(u, d.disputeTime)
           g        == d.got[d.buyer]
           v        == Lifted(ChargeWeeksThrough(d, WeeksElapsedAt(d, d.disputeTime)))
           x        == Refundable(Trusted(v))
           y        == ChargeWeeksThrough(PromoteDue(u, d.disputeTime), WeeksStartedAt(u, d.disputeTime))
<1>0. /\ d.buyer \in Buyers /\ d.buyerBond = 2 * P /\ P \in Nat \ {0} /\ d.disputeTime \in Nat
      /\ g \in Nat /\ d.put[d.buyer] \in Nat
  BY TwoTicks DEF Staking, Covers, Typed, Notes
<1>1. x <= y.deposit
  BY WeeksRefund
<1>2. /\ SellerGain(conceded) > SellerGain(refused)
      /\ conceded.put = d.put /\ conceded.got[d.buyer] <= g + x + P
      /\ refused.put = d.put /\ refused.got[d.buyer] <= g + x + P
      /\ x \in Nat /\ conceded.got[d.buyer] \in Int /\ refused.got[d.buyer] \in Int
  BY SubscriptionDispute
<1>3. Covers(u, 0) /\ Agree(u, d, {"disputed"})
  BY Undisputed
<1> HIDE DEF u
<1>4. /\ u.buyer = d.buyer /\ u.put = d.put /\ u.got = d.got /\ u.buyerBond = d.buyerBond
      /\ u.probeAccepted /\ IsSubscription(u)
  BY <1>3 DEF Agree, DealFields, IsSubscription
<1>5. /\ stopped.put = u.put /\ y.deposit \in Nat
      /\ stopped.got[u.buyer] = u.got[u.buyer] + y.deposit + u.buyerBond
  BY <1>0, <1>3, <1>4, SubscriptionStop
<1> HIDE DEF conceded, refused, stopped, x, y
<1>6. stopped.put = d.put /\ stopped.got[d.buyer] = g + y.deposit + 2 * P
  BY <1>0, <1>4, <1>5
<1>7. BuyerLoss(refused, d.buyer) >= BuyerLoss(stopped, d.buyer)
  BY <1>0, <1>1, <1>2, <1>5, <1>6 DEF BuyerLoss
<1>8. BuyerLoss(conceded, d.buyer) >= BuyerLoss(stopped, d.buyer)
  BY <1>0, <1>1, <1>2, <1>5, <1>6 DEF BuyerLoss
<1> QED
  BY <1>2, <1>7, <1>8 DEF conceded, refused, stopped, u

-----------------------------------------------------------------------------
(***************************************************************************)
(* The stakes of a deal at every stage of its life: Staked, and Bought of  *)
(* a deal with one fill, are kept by every call.                           *)
(***************************************************************************)
\* Where nothing at stake has changed, the stakes stand,
LEMMA StakesFrame ==
  ASSUME NEW d, NEW e, Staked(d), SameStakes(d, e), d.tokensFinal \in Nat, e.tokensFinal \in Nat,
         e.tokensFinal >= d.tokensFinal
  PROVE  Staked(e)
<1>1. IsSubscription(e) <=> IsSubscription(d)
  BY DEF SameStakes, IsSubscription
<1>2. d.tokensFinal >= TICK_SIZE => e.tokensFinal >= TICK_SIZE
  BY PriceAssumption
<1> QED
  BY <1>1, <1>2 DEF Staked, SameStakes

\* and the purchase with them.
LEMMA PurchaseFrame ==
  ASSUME NEW d, NEW e, Staked(d), Bought(d), SamePurchase(d, e)
  PROVE  Bought(e)
<1>1. \A b \in Buyers : BuyerLoss(e, b) = BuyerLoss(d, b)
  BY DEF SamePurchase, BuyerLoss
<1>2. d.alive /\ d.funded => BuyerLoss(e, e.buyer) = BuyerLoss(d, d.buyer)
  BY <1>1 DEF SamePurchase, Staked
<1> QED
  BY <1>1, <1>2 DEF Bought, SamePurchase

\* Such a step keeps both.
LEMMA AsideFrame ==
  ASSUME NEW d, NEW e, Agree(e, d, Aside), d.tokensFinal \in Nat, Staked(d)
  PROVE  Staked(e) /\ (Bought(d) => Bought(e)) /\ SameStakes(d, e) /\ SamePurchase(d, e)
<1>1. SameStakes(d, e) /\ SamePurchase(d, e) /\ e.tokensFinal = d.tokensFinal
  BY DEF Agree, Aside, Charges, Slack, DealFields, SameStakes, SamePurchase
<1>2. e.tokensFinal \in Nat /\ e.tokensFinal >= d.tokensFinal
  BY <1>1
<1>3. Staked(e)
  BY <1>1, <1>2, StakesFrame
<1>4. Bought(d) => Bought(e)
  BY <1>1, PurchaseFrame
<1> QED
  BY <1>1, <1>3, <1>4

\* A deal that is gone has nothing at stake.
LEMMA GoneStakes == ASSUME NEW e, Gone(e), ~e.disputed PROVE Staked(e) /\ Bought(e)
  BY DEF Gone, Staked, Bought

\* Listing and delisting.
LEMMA ListingStakes ==
  ASSUME NEW d, Typed(d), Staked(d)
  PROVE  /\ Staked(PostFromNoteEffect(d)) /\ Staked(OnSellClosedEffect(d))
         /\ Bought(d) => Bought(PostFromNoteEffect(d)) /\ Bought(OnSellClosedEffect(d))
<1>1. Agree(PostFromNoteEffect(d), d, {"authorized", "offerPosted"})
  BY DEF PostFromNoteEffect, Typed, Agree, DealFields
<1>2. Agree(OnSellClosedEffect(d), d, {"authorized", "offerPosted"})
  BY DEF OnSellClosedEffect, Typed, Agree, DealFields
<1>3. {"authorized", "offerPosted"} \subseteq Aside
  BY DEF Aside
<1>4. Agree(PostFromNoteEffect(d), d, Aside) /\ Agree(OnSellClosedEffect(d), d, Aside)
  BY <1>1, <1>2, <1>3, AgreeWeaker
<1> QED
  BY <1>4, AsideFrame DEF Typed

\* Raising a dispute puts it on record.
LEMMA DisputeStakes ==
  ASSUME NEW d, Typed(d), Staked(d), d.alive, NEW t
  PROVE  Staked(DisputeEffect(d, t)) /\ (Bought(d) => Bought(DisputeEffect(d, t)))
<1> DEFINE e == DisputeEffect(d, t)
<1>1. /\ e.alive = d.alive /\ e.opened = d.opened /\ e.funded = d.funded /\ e.buyer = d.buyer
      /\ e.everDisputed = TRUE
      /\ e.sellerBond = d.sellerBond /\ e.sellerBondFunded = d.sellerBondFunded
      /\ e.probeAccepted = d.probeAccepted /\ e.tokensPend = d.tokensPend
      /\ e.subWeeks = d.subWeeks /\ e.fundedTokens = d.fundedTokens
      /\ e.tokensFinal = d.tokensFinal
      /\ SamePurchase(d, e)
  BY DEF Typed, DealFields, DisputeEffect, SamePurchase
<1> HIDE DEF e
<1>2. Staked(e)
  BY <1>1 DEF Staked, IsSubscription
<1>3. Bought(d) => Bought(e)
  BY <1>1, PurchaseFrame
<1> QED
  BY <1>2, <1>3 DEF e

\* What a note pays in and gets back, seen from a buyer's side.
LEMMA LossAfter ==
  ASSUME NEW d, Typed(d), NEW n \in Notes, NEW x \in Nat, NEW y \in Nat, NEW b \in Buyers,
         NEW e, e.put = Credit(d.put, n, x), e.got = Credit(d.got, n, y)
  PROVE  BuyerLoss(e, b) = BuyerLoss(d, b) + (IF b = n THEN x - y ELSE 0)
<1>1. /\ b \in Notes /\ d.put[b] \in Nat /\ d.got[b] \in Nat
      /\ d.put \in [Notes -> Nat] /\ d.got \in [Notes -> Nat]
  BY DEF Typed, Notes
<1>2. e.put[b] = (IF b = n THEN d.put[b] + x ELSE d.put[b])
  BY <1>1 DEF Credit
<1>3. e.got[b] = (IF b = n THEN d.got[b] + y ELSE d.got[b])
  BY <1>1 DEF Credit
<1> QED
  BY <1>1, <1>2, <1>3 DEF BuyerLoss

\* A bond comes in full, the rest of the payment goes back.
LEMMA BondsStakes ==
  ASSUME NEW d, Sound(d), d.alive, Staked(d), ~d.opened, NEW amount \in Nat, amount >= BondAmount
  PROVE  /\ Staked(FundDealEffect(d, amount))
         /\ Bought(d) => Bought(FundDealEffect(d, amount))
         /\ d.buyer # NoBuyer =>
              /\ Staked(FundBuyerBondEffect(d, amount))
              /\ Bought(d) /\ ~d.buyerBondFunded => Bought(FundBuyerBondEffect(d, amount))
<1> DEFINE y == amount - BondAmount
<1>0. Typed(d) /\ DOMAIN d = DealFields /\ y \in Nat /\ BondAmount \in Nat
  BY SoundCovers, UnitNat DEF Typed
<1>1. Staked(FundDealEffect(d, amount)) /\ (Bought(d) => Bought(FundDealEffect(d, amount)))
  <2> DEFINE r == Receive(d, Seller, amount)
             s == [r EXCEPT !.sellerBond = BondAmount, !.sellerBondFunded = TRUE]
             e == PayShell(s, Seller, y)
             G(x) == /\ DOMAIN x = DealFields
                     /\ x.alive = d.alive /\ x.opened = d.opened /\ x.funded = d.funded
                     /\ x.buyer = d.buyer
                     /\ x.disputed = d.disputed /\ x.everDisputed = d.everDisputed
                     /\ x.probeAccepted = d.probeAccepted /\ x.tokensPend = d.tokensPend
                     /\ x.subWeeks = d.subWeeks /\ x.fundedTokens = d.fundedTokens
                     /\ x.tokensFinal = d.tokensFinal /\ x.fills = d.fills
                     /\ x.buyerBond = d.buyerBond /\ x.buyerBondFunded = d.buyerBondFunded
  <2>1. G(r) /\ r.put = Credit(d.put, Seller, amount) /\ r.got = d.got
    BY <1>0 DEF Receive, DealFields
  <2>2. e = FundDealEffect(d, amount)
    BY DEF FundDealEffect
  <2> HIDE DEF r
  <2>3. G(s) /\ s.put = r.put /\ s.got = r.got /\ s.sellerBond = BondAmount /\ s.sellerBondFunded = TRUE
    BY <2>1 DEF DealFields
  <2> HIDE DEF s, y
  <2>4. /\ G(e) /\ e.put = s.put /\ e.got = Credit(s.got, Seller, y)
        /\ e.sellerBond = s.sellerBond /\ e.sellerBondFunded = s.sellerBondFunded
    BY <2>3 DEF DealFields, PayShell
  <2> HIDE DEF e
  <2>5. Staked(e)
    BY <2>3, <2>4 DEF Staked, IsSubscription
  <2>6. \A b \in Buyers : BuyerLoss(e, b) = BuyerLoss(d, b)
    <3> TAKE b \in Buyers
    <3>1. b # Seller /\ Seller \in Notes /\ BuyerLoss(d, b) \in Int
      BY <1>0, PartiesAssumption DEF Notes, BuyerLoss, Typed
    <3>2. BuyerLoss(e, b) = BuyerLoss(d, b) + (IF b = Seller THEN amount - y ELSE 0)
      BY <1>0, <2>1, <2>3, <2>4, <3>1, LossAfter
    <3> QED
      BY <3>1, <3>2
  <2>7. Bought(d) => Bought(e)
    BY <2>4, <2>6 DEF Bought, Staked
  <2> QED
    BY <2>2, <2>5, <2>7
<1>2. ASSUME d.buyer # NoBuyer
      PROVE  /\ Staked(FundBuyerBondEffect(d, amount))
             /\ Bought(d) /\ ~d.buyerBondFunded => Bought(FundBuyerBondEffect(d, amount))
  <2> DEFINE r == Receive(d, d.buyer, amount)
             s == [r EXCEPT !.buyerBond = BondAmount, !.buyerBondFunded = TRUE]
             e == PayShell(s, d.buyer, y)
             G(x) == /\ DOMAIN x = DealFields /\ SameStakes(d, x)
                     /\ x.tokensFinal = d.tokensFinal /\ x.fills = d.fills
  <2>0. d.buyer \in Buyers
    BY <1>0, <1>2 DEF Typed
  <2>1. G(r) /\ r.put = Credit(d.put, d.buyer, amount) /\ r.got = d.got
    BY <1>0 DEF Receive, DealFields, SameStakes
  <2>2. e = FundBuyerBondEffect(d, amount)
    BY DEF FundBuyerBondEffect
  <2> HIDE DEF r
  <2>3. G(s) /\ s.put = r.put /\ s.got = r.got /\ s.buyerBond = BondAmount /\ s.buyerBondFunded = TRUE
    BY <2>1 DEF DealFields, SameStakes
  <2> HIDE DEF s, y
  <2>4. /\ G(e) /\ e.put = s.put /\ e.got = Credit(s.got, d.buyer, y)
        /\ e.buyerBond = s.buyerBond /\ e.buyerBondFunded = s.buyerBondFunded
    BY <2>3 DEF DealFields, PayShell, SameStakes
  <2> HIDE DEF e
  <2>5. Staked(e)
    BY <1>0, <2>4, StakesFrame DEF Typed
  <2>6. ASSUME Bought(d), ~d.buyerBondFunded PROVE Bought(e)
    <3>1. d.buyer \in Notes /\ d.put[d.buyer] \in Nat /\ d.got[d.buyer] \in Nat
      BY <1>0, <2>0 DEF Typed, Notes
    <3>2. BuyerLoss(e, d.buyer) = BuyerLoss(d, d.buyer) + (amount - y)
      BY <1>0, <2>0, <2>1, <2>3, <2>4, <3>1, LossAfter
    <3>3. amount - y = BondAmount /\ BuyerLoss(d, d.buyer) \in Int
      BY <1>0, <3>1 DEF BuyerLoss, y
    <3>4. d.fills # 0 /\ d.buyerBond = 0
      BY <1>2, <2>6 DEF Bought
    <3> DEFINE cost == (d.fundedTokens \div TICK_SIZE) * Unit
    <3>5. d.funded => BuyerLoss(d, d.buyer) = 0 + cost
      BY <2>6, <3>4 DEF Bought
    <3>6. cost \in Int
      BY <1>0, PriceAssumption, UnitNat DEF Typed
    <3>7. d.funded => BuyerLoss(e, e.buyer) = BondAmount + (e.fundedTokens \div TICK_SIZE) * Unit
      <4>1. e.buyer = d.buyer /\ (e.fundedTokens \div TICK_SIZE) * Unit = cost
        BY <2>4 DEF SameStakes
      <4> HIDE DEF cost
      <4> QED
        BY <1>0, <3>2, <3>3, <3>5, <3>6, <4>1
    <3> HIDE DEF cost
    <3> QED
      BY <2>3, <2>4, <3>4, <3>7 DEF Bought, SameStakes
  <2> QED
    BY <2>2, <2>5, <2>6
<1> QED
  BY <1>1, <1>2

\* open() finds the seller's bond, and no claim yet.
LEMMA OpenStakes ==
  ASSUME NEW d, Sound(d), d.alive, Staked(d), ~d.opened, d.sellerBondFunded, NEW t \in Nat
  PROVE  /\ Staked(OpenEffect(d, t))
         /\ Bought(d) /\ d.buyerBondFunded => Bought(OpenEffect(d, t))
<1> DEFINE e == OpenEffect(d, t)
<1>0. Typed(d) /\ d.tokensPend = 0
  BY SoundCovers DEF Sound, Lifecycle
<1>1. /\ e.alive = d.alive /\ e.opened = TRUE /\ e.funded = d.funded /\ e.buyer = d.buyer
      /\ e.disputed = d.disputed /\ e.everDisputed = d.everDisputed
      /\ e.sellerBond = d.sellerBond /\ e.sellerBondFunded = d.sellerBondFunded
      /\ e.probeAccepted = FALSE /\ e.tokensPend = d.tokensPend
      /\ e.fundedTokens = d.fundedTokens /\ e.fills = d.fills
      /\ e.buyerBond = d.buyerBond /\ e.buyerBondFunded = d.buyerBondFunded
      /\ e.put = d.put /\ e.got = d.got
  BY <1>0 DEF Typed, DealFields, OpenEffect
<1> HIDE DEF e
<1>2. Staked(e)
  BY <1>0, <1>1 DEF Staked
<1>3. Bought(d) /\ d.buyerBondFunded => Bought(e)
  BY <1>1 DEF Bought, BuyerLoss
<1> QED
  BY <1>2, <1>3 DEF e

\* The trial's tick is claimed and trusted; a deal has at least two.
LEMMA AcceptProbeStakes ==
  ASSUME NEW d, Sound(d), d.alive, Booked(d), Staked(d), d.opened, NEW t \in Nat
  PROVE  Staked(AcceptProbeEffect(d, t)) /\ (Bought(d) => Bought(AcceptProbeEffect(d, t)))
<1> DEFINE e == AcceptProbeEffect(d, t)
<1>0. Typed(d) /\ d.funded
  BY SoundCovers DEF Sound, Lifecycle
<1>1. /\ e.alive = d.alive /\ e.opened = d.opened /\ e.funded = d.funded /\ e.buyer = d.buyer
      /\ e.disputed = d.disputed /\ e.everDisputed = d.everDisputed
      /\ e.sellerBond = d.sellerBond /\ e.sellerBondFunded = d.sellerBondFunded
      /\ e.probeAccepted = TRUE /\ e.tokensPend = TICK_SIZE /\ e.tokensFinal = TICK_SIZE
      /\ e.fundedTokens = d.fundedTokens /\ SamePurchase(d, e)
  BY <1>0 DEF Typed, DealFields, AcceptProbeEffect, SamePurchase
<1> HIDE DEF e
<1>2. PICK K \in Nat \ {0}, j \in Nat \ {0} : BooksAt(d, K, j)
  BY <1>0 DEF Booked
<1>3. TICK_SIZE <= d.fundedTokens
  <2>1. 1 * TICK_SIZE <= K * TICK_SIZE
    BY PriceAssumption, MulMono
  <2> QED
    BY <1>2, <2>1, PriceAssumption DEF BooksAt
<1>4. Staked(e)
  BY <1>1, <1>3, PriceAssumption DEF Staked
<1>5. Bought(d) => Bought(e)
  BY <1>1, PurchaseFrame
<1> QED
  BY <1>4, <1>5 DEF e

\* A hand-over, recorded or sent back.
LEMMA FundFromOrderBookStakes ==
  ASSUME NEW d, Sound(d), d.alive, Staked(d), NEW t \in Nat, NEW b \in Buyers,
         NEW ticks \in Nat, NEW sub \in BOOLEAN
  PROVE  LET e == FundFromOrderBookEffect(d, t, b, ticks * Unit + (IF sub THEN BondAmount ELSE 0), sub)
         IN  Staked(e) /\ (Bought(d) /\ d.fills = 0 => Bought(e))
<1> DEFINE bond == IF sub THEN BondAmount ELSE 0
           esc  == ticks * Unit
           paid == esc + bond
           lp   == Credit(d.put, b, paid)
           held == [d EXCEPT !.balance = @ + paid, !.put = lp, !.fills = @ + 1]
           e    == FundFromOrderBookEffect(d, t, b, paid, sub)
           no   == d.funded \/ paid < bond \/ paid - bond < 2 * Unit \/ paid - bond > MaxTicks * Unit
           K    == esc \div Unit
<1>1. Typed(d) /\ DOMAIN d = DealFields /\ b \in Notes
  BY SoundCovers DEF Typed, Notes
<1>2. /\ bond \in Nat /\ Unit \in Nat \ {0} /\ esc \in Nat /\ paid \in Nat /\ paid - bond = esc
      /\ K = ticks /\ BondAmount \in Nat \ {0}
  <2>1. bond \in Nat /\ Unit \in Nat \ {0} /\ esc \in Nat /\ BondAmount \in Nat \ {0}
    BY UnitNat, TwoTicks
  <2>2. K = ticks
    BY <2>1, DivExact
  <2> HIDE DEF bond, esc
  <2> QED
    BY <2>1, <2>2
<1>3. [Receive(d, b, paid) EXCEPT !.fills = @ + 1] = held
  <2> HIDE DEF paid
  <2> QED
    BY <1>1 DEF Receive, DealFields
<1>4. CASE no
  <2>1. e = PayShell(held, b, paid)
    BY <1>3, <1>4 DEF FundFromOrderBookEffect
  <2> HIDE DEF lp, paid, no
  <2>2. /\ DOMAIN held = DealFields /\ held.put = lp /\ held.got = d.got /\ held.fills = d.fills + 1
        /\ SameStakes(d, held) /\ held.tokensFinal = d.tokensFinal
        /\ held.buyerBond = d.buyerBond /\ held.buyerBondFunded = d.buyerBondFunded
    BY <1>1 DEF SameStakes, DealFields
  <2> HIDE DEF held, e
  <2>3. /\ SameStakes(held, e) /\ e.tokensFinal = held.tokensFinal /\ e.fills = held.fills
        /\ e.buyerBond = held.buyerBond /\ e.buyerBondFunded = held.buyerBondFunded
    BY <2>1, <2>2 DEF PayShell, SameStakes, DealFields
  <2>4. SameStakes(d, e) /\ e.tokensFinal = d.tokensFinal /\ d.tokensFinal \in Nat /\ d.fills \in Nat
    BY <1>1, <2>2, <2>3 DEF SameStakes, Typed
  <2>5. Staked(e)
    BY <2>4, StakesFrame
  <2>6. Bought(d) /\ d.fills = 0 => Bought(e)
    BY <2>2, <2>3, <2>4 DEF Bought, SameStakes
  <2> QED
    BY <2>5, <2>6 DEF e, paid, esc, bond
<1>5. CASE ~no
  <2> DEFINE tokens == K * TICK_SIZE
             weeks  == IF sub THEN SUB_WEEKS ELSE 0
             per    == IF sub THEN tokens \div SUB_WEEKS ELSE tokens
             flag   == held.buyerBondFunded \/ bond > 0
             h == [held EXCEPT !.buyerBond = bond, !.buyerBondFunded = flag]
             f == [h EXCEPT !.buyer = b, !.deposit = esc, !.funded = TRUE,
                            !.offerPosted = FALSE, !.fundedTime = t]
             g == [f EXCEPT !.subWeeks = weeks, !.weekIndex = 0, !.periodStart = t,
                            !.tokensPerWeek = per, !.fundedTokens = tokens, !.lastClaimTime = t]
  <2>1. ~d.funded /\ ~d.opened /\ ~d.probeAccepted /\ ~d.disputed /\ d.tokensPend = 0
    <3>1. ~d.funded
      BY <1>5
    <3> QED
      BY <3>1 DEF Sound, Lifecycle
  <2>2. e = g
    BY <1>2, <1>3, <1>5 DEF FundFromOrderBookEffect, RecordDealShape, RecordFunding
  <2>3. flag <=> (d.buyerBondFunded \/ bond > 0)
    BY <1>1 DEF DealFields
  <2> HIDE DEF lp, paid, bond, flag, esc, K, tokens, weeks, per, e, no
  <2>4. /\ DOMAIN h = DealFields /\ h.put = lp /\ h.got = d.got /\ h.sellerBond = d.sellerBond
        /\ h.sellerBondFunded = d.sellerBondFunded /\ h.disputed = d.disputed
        /\ h.tokensPend = d.tokensPend /\ h.fills = d.fills + 1
        /\ h.buyerBond = bond /\ h.buyerBondFunded = flag
        /\ h.alive = d.alive /\ h.opened = d.opened /\ h.probeAccepted = d.probeAccepted
    BY <1>1 DEF DealFields
  <2> HIDE DEF h
  <2>5. /\ DOMAIN f = DealFields /\ f.put = lp /\ f.got = d.got /\ f.sellerBond = d.sellerBond
        /\ f.sellerBondFunded = d.sellerBondFunded /\ f.disputed = d.disputed
        /\ f.tokensPend = d.tokensPend /\ f.fills = d.fills + 1 /\ f.buyer = b
        /\ f.buyerBond = bond /\ f.buyerBondFunded = flag
        /\ f.alive = d.alive /\ f.opened = d.opened /\ f.probeAccepted = d.probeAccepted
    BY <2>4 DEF DealFields
  <2> HIDE DEF f
  <2>6. /\ e.put = lp /\ e.got = d.got /\ e.sellerBond = d.sellerBond
        /\ e.sellerBondFunded = d.sellerBondFunded /\ e.disputed = d.disputed
        /\ e.tokensPend = d.tokensPend /\ e.fills = d.fills + 1 /\ e.buyer = b
        /\ e.buyerBond = bond /\ e.buyerBondFunded = flag
        /\ e.alive = d.alive /\ e.opened = d.opened /\ e.probeAccepted = d.probeAccepted
        /\ e.fundedTokens = tokens
    BY <2>2, <2>5 DEF DealFields
  <2> HIDE DEF g
  <2>7. Staked(e)
    BY <2>1, <2>6 DEF Staked
  <2>8. ASSUME Bought(d), d.fills = 0 PROVE Bought(e)
    <3>1. e.fundedTokens \div TICK_SIZE = ticks
      BY <1>2, <2>6, DivExact, PriceAssumption DEF tokens
    <3>2. ~d.buyerBondFunded /\ BuyerLoss(d, b) = 0
      BY <2>8 DEF Bought
    <3>3. bond = (IF flag THEN BondAmount ELSE 0)
      BY <1>2, <2>3, <3>2 DEF bond
    <3>4. BuyerLoss(e, b) = BuyerLoss(d, b) + paid
      BY <1>1, <1>2, <2>6 DEF BuyerLoss, lp, Credit, Typed
    <3>5. BuyerLoss(e, e.buyer) = e.buyerBond + (e.fundedTokens \div TICK_SIZE) * Unit
      BY <1>2, <2>6, <3>1, <3>2, <3>4 DEF paid, esc
    <3> QED
      BY <2>1, <2>6, <2>8, <3>3, <3>5 DEF Bought
  <2> QED
    BY <2>7, <2>8 DEF e, paid, esc, bond
<1> QED
  BY <1>4, <1>5

\* The weeks due, and then the claim that has matured, touch no stake.
LEMMA BeforeClaimStakes ==
  ASSUME NEW d, Sound(d), d.alive, Staked(d), NEW t \in Nat,
         NEW s, s = SettleBoundaries(d, WeeksElapsedAt(d, t))
  PROVE  /\ Typed(s) /\ SameStakes(d, s) /\ SamePurchase(d, s) /\ s.tokensFinal = d.tokensFinal
         /\ Staked(s) /\ (Bought(d) => Bought(s))
<1> DEFINE a == WeeksElapsedAt(d, t)
           c == ChargeWeeksThrough(d, a)
<1>1. Covers(d, 0) /\ Typed(d) /\ a \in Int
  BY SoundCovers, WeeksInt
<1>2. Agree(s, c, Slack) /\ Typed(s)
  BY <1>1, KeeperCharges, SettleBoundariesCovers DEF Covers
<1>3. Agree(c, d, Charges)
  BY <1>1, WeeksOnly DEF Typed
<1> HIDE DEF c
<1>4. Slack \subseteq Aside /\ Charges \subseteq Aside
  BY DEF Aside
<1>5. Agree(s, d, Aside)
  BY <1>2, <1>3, <1>4, AgreeWeaker, AgreeTrans
<1>6. s.tokensFinal = d.tokensFinal
  BY <1>5 DEF Agree, Aside, Charges, Slack, DealFields
<1> QED
  BY <1>1, <1>2, <1>5, <1>6, AsideFrame DEF Typed

\* Promotion raises the trusted mark only.
LEMMA PromoteStakes ==
  ASSUME NEW d, Typed(d), Staked(d), NEW t
  PROVE  LET e == PromoteDue(d, t)
         IN  /\ Staked(e) /\ (Bought(d) => Bought(e))
             /\ SameStakes(d, e) /\ SamePurchase(d, e)
             /\ e.tokensFinal \in Nat /\ e.tokensFinal >= d.tokensFinal
<1> DEFINE e == PromoteDue(d, t)
<1>1. SameStakes(d, e) /\ SamePurchase(d, e)
  BY DEF PromoteDue, Promote, Typed, DealFields, SameStakes, SamePurchase
<1>2. e.tokensFinal \in Nat /\ e.tokensFinal >= d.tokensFinal /\ d.tokensFinal \in Nat
  BY DEF PromoteDue, Promote, Typed, DealFields, Greater
<1> HIDE DEF e
<1>3. Staked(e)
  BY <1>1, <1>2, StakesFrame
<1>4. Bought(d) => Bought(e)
  BY <1>1, PurchaseFrame
<1> QED
  BY <1>1, <1>2, <1>3, <1>4 DEF e

\* A claim within the cap.
LEMMA ClaimTokensStakes ==
  ASSUME NEW d, Sound(d), d.alive, Staked(d), d.probeAccepted, NEW t \in Nat,
         NEW c \in Nat, c <= ClaimCap(SettleBoundaries(d, WeeksElapsedAt(d, t)))
  PROVE  /\ Staked(ClaimTokensEffect(d, t, c))
         /\ Bought(d) => Bought(ClaimTokensEffect(d, t, c))
<1> DEFINE s == SettleBoundaries(d, WeeksElapsedAt(d, t))
           p == PromoteDue(s, t)
           e == [p EXCEPT !.tokensPend = c, !.lastClaimTime = t]
<1>1. s = SettleBoundaries(d, WeeksElapsedAt(d, t)) /\ c <= ClaimCap(s)
  OBVIOUS
<1>2. e = ClaimTokensEffect(d, t, c)
  BY DEF ClaimTokensEffect, BeforeClaim
<1> HIDE DEF s
<1>3. Typed(s) /\ SameStakes(d, s) /\ Staked(s) /\ (Bought(d) => Bought(s))
  BY <1>1, BeforeClaimStakes
<1>4. /\ SameStakes(s, p) /\ SamePurchase(s, p) /\ Staked(p) /\ (Bought(s) => Bought(p))
      /\ DOMAIN p = DealFields
  BY <1>3, PromoteStakes, PromoteTerm DEF Typed, SameTerm
<1> HIDE DEF p
<1>5. /\ e.alive = p.alive /\ e.opened = p.opened /\ e.funded = p.funded /\ e.buyer = p.buyer
      /\ e.disputed = p.disputed /\ e.everDisputed = p.everDisputed
      /\ e.sellerBond = p.sellerBond /\ e.sellerBondFunded = p.sellerBondFunded
      /\ e.probeAccepted = p.probeAccepted /\ e.tokensPend = c
      /\ e.subWeeks = p.subWeeks /\ e.fundedTokens = p.fundedTokens
      /\ e.tokensFinal = p.tokensFinal /\ SamePurchase(p, e)
  BY <1>4 DEF DealFields, SamePurchase
<1> HIDE DEF e
<1>6. ~IsSubscription(e) => e.tokensPend <= e.fundedTokens
  BY <1>1, <1>4, <1>5 DEF ClaimCap, IsSubscription, SameStakes
<1>7. e.alive /\ e.probeAccepted
  BY <1>3, <1>4, <1>5 DEF SameStakes
<1>8. Staked(e)
  BY <1>4, <1>5, <1>6, <1>7 DEF Staked
<1>9. Bought(p) => Bought(e)
  BY <1>4, <1>5, PurchaseFrame
<1> QED
  BY <1>2, <1>3, <1>4, <1>8, <1>9

\* finalize and settleWeek, whether or not they close the deal.
LEMMA SettlingStakes ==
  ASSUME NEW d, Sound(d), d.alive, ~d.disputed, Staked(d), NEW t \in Nat
  PROVE  /\ Staked(FinalizeEffect(d, t)) /\ (Bought(d) => Bought(FinalizeEffect(d, t)))
         /\ Staked(SettleWeekEffect(d, t)) /\ (Bought(d) => Bought(SettleWeekEffect(d, t)))
<1>1. Covers(d, 0) /\ Typed(d)
  BY SoundCovers
<1>2. ASSUME NEW x, Covers(x, 0), ~x.disputed
      PROVE  Staked(PayFinalAndClose(x)) /\ Bought(PayFinalAndClose(x))
  <2>1. Gone(PayFinalAndClose(x))
    BY <1>2, PayFinalAndCloseEnds
  <2>2. PayFinalAndClose(x).disputed = FALSE
    BY <1>2, PayFinalAndCloseCloses DEF Covers, Typed, Closed, SameTerm
  <2> QED
    BY <1>2, <2>1, <2>2, GoneStakes
<1>3. Staked(FinalizeEffect(d, t)) /\ (Bought(d) => Bought(FinalizeEffect(d, t)))
  <2> DEFINE p == PromoteDue(d, t)
  <2>1. Covers(p, 0) /\ Staked(p) /\ (Bought(d) => Bought(p)) /\ SameStakes(d, p)
    BY <1>1, PromoteCovers, PromoteStakes
  <2>2. FinalizeEffect(d, t) = PayFinalAndClose(p) \/ FinalizeEffect(d, t) = p
    BY DEF FinalizeEffect
  <2> HIDE DEF p
  <2>3. ~p.disputed
    BY <2>1 DEF SameStakes
  <2> QED
    BY <1>2, <2>1, <2>2, <2>3
<1>4. Staked(SettleWeekEffect(d, t)) /\ (Bought(d) => Bought(SettleWeekEffect(d, t)))
  <2> DEFINE s == SettleBoundaries(d, WeeksElapsedAt(d, t))
             p == PromoteDue(s, t)
  <2>1. WeeksElapsedAt(d, t) \in Int
    BY <1>1, WeeksInt
  <2>2. Covers(s, 0) /\ Typed(s) /\ Staked(s) /\ (Bought(d) => Bought(s)) /\ SameStakes(d, s)
    BY <1>1, <2>1, SettleBoundariesCovers, BeforeClaimStakes
  <2>3. SettleWeekEffect(d, t) = PayFinalAndClose(p) \/ SettleWeekEffect(d, t) = s
    BY DEF SettleWeekEffect
  <2> HIDE DEF s
  <2>4. Covers(p, 0) /\ SameStakes(s, p)
    BY <2>2, PromoteCovers, PromoteStakes
  <2> HIDE DEF p
  <2>5. ~p.disputed
    BY <2>2, <2>4 DEF SameStakes
  <2> QED
    BY <1>2, <2>2, <2>3, <2>4, <2>5
<1> QED
  BY <1>3, <1>4

\* The four exits of an open deal.
LEMMA ExitsStakes ==
  ASSUME NEW d, Sound(d), d.alive, NEW t \in Nat
  PROVE  /\ ~d.disputed => /\ Staked(StopEffect(d, t)) /\ Bought(StopEffect(d, t))
                           /\ Staked(SellerStopEffect(d, t)) /\ Bought(SellerStopEffect(d, t))
         /\ Staked(ReleaseDisputeEffect(d)) /\ Bought(ReleaseDisputeEffect(d))
         /\ Staked(ResolveDisputeTimeoutEffect(d)) /\ Bought(ResolveDisputeTimeoutEffect(d))
<1>1. Covers(d, 0) /\ Typed(d) /\ DOMAIN d = DealFields
  BY SoundCovers DEF Typed
<1>2. /\ ~d.disputed => ~StopEffect(d, t).disputed /\ ~SellerStopEffect(d, t).disputed
      /\ ~ReleaseDisputeEffect(d).disputed /\ ~ResolveDisputeTimeoutEffect(d).disputed
  BY <1>1, StopCloses, SellerStopCloses, DisputeEndCloses DEF Closed, SameTerm, Typed
<1>3. Gone(StopEffect(d, t)) /\ Gone(SellerStopEffect(d, t))
  BY <1>1, StopEnds, SellerStopEnds
<1>4. Gone(ReleaseDisputeEffect(d)) /\ Gone(ResolveDisputeTimeoutEffect(d))
  BY <1>1, ReleaseDisputeEnds, ResolveDisputeTimeoutEnds
<1> QED
  BY <1>2, <1>3, <1>4, GoneStakes

\* Taking an unopened deal down.
LEMMA TakenDownStakes ==
  ASSUME NEW d, Sound(d), d.alive, ~d.opened
  PROVE  /\ Staked(CloseEffect(d)) /\ Bought(CloseEffect(d))
         /\ Staked(DestroyEffect(d)) /\ Bought(DestroyEffect(d))
<1>1. Covers(d, 0) /\ DOMAIN d = DealFields /\ d.disputed = FALSE /\ d.opened = FALSE
  BY SoundCovers DEF Typed, Sound, Lifecycle
<1>2. CloseEffect(d).disputed = FALSE /\ DestroyEffect(d).disputed = FALSE
  BY <1>1, TakenDownCloses DEF Closed, SameTerm
<1>3. Gone(CloseEffect(d)) /\ Gone(DestroyEffect(d))
  BY <1>1, CloseEnds, DestroyEnds
<1> QED
  BY <1>2, <1>3, GoneStakes

\* A clean-up takes every stake off the table; the fill it followed stays counted.
LEMMA CleanupUnopenedStakes ==
  ASSUME NEW d, Sound(d), d.alive, ~d.opened, d.funded, Staked(d)
  PROVE  /\ Staked(CleanupUnopenedEffect(d))
         /\ Bought(d) => Bought(CleanupUnopenedEffect(d))
<1> DEFINE r       == ReleaseBuyerBond(d)
           cleared == [r EXCEPT !.deposit = 0, !.sellerBond = 0, !.funded = FALSE,
                                !.sellerBondFunded = FALSE, !.buyerBondFunded = FALSE,
                                !.offerPosted = FALSE]
           paid1   == PayShell(cleared, d.buyer, r.deposit)
           paid    == PayShell(paid1, Seller, d.sellerBond)
           e       == BurnShell(paid, paid.balance)
           Kept(x) == /\ DOMAIN x = DealFields
                      /\ x.alive = d.alive /\ x.opened = d.opened /\ x.disputed = d.disputed
                      /\ x.probeAccepted = d.probeAccepted /\ x.tokensPend = d.tokensPend
                      /\ x.fills = d.fills /\ x.buyerBond = 0
           Off(x)  == Kept(x) /\ ~x.funded /\ ~x.sellerBondFunded /\ ~x.buyerBondFunded
<1>1. DOMAIN d = DealFields /\ d.disputed = FALSE /\ d.probeAccepted = FALSE /\ d.tokensPend = 0
  BY SoundCovers DEF Typed, Sound, Lifecycle
<1>2. Kept(r)
  BY <1>1 DEF ReleaseBuyerBond, DealFields
<1>3. e = CleanupUnopenedEffect(d)
  BY DEF CleanupUnopenedEffect
<1> HIDE DEF r
<1>4. Off(cleared)
  BY <1>2 DEF DealFields
<1> HIDE DEF cleared
<1>5. Off(paid1)
  BY <1>4 DEF DealFields, PayShell
<1> HIDE DEF paid1
<1>6. Off(paid)
  BY <1>5 DEF DealFields, PayShell
<1> HIDE DEF paid
<1>7. Off(e)
  BY <1>6 DEF DealFields, BurnShell
<1> HIDE DEF e
<1>8. Staked(e)
  BY <1>1, <1>7 DEF Staked
<1>9. Bought(d) => Bought(e)
  BY <1>7 DEF Bought
<1> QED
  BY <1>3, <1>8, <1>9

\* Drawing earnings is between the contract and the seller.
LEMMA WithdrawShellStakes ==
  ASSUME NEW d, Sound(d), d.alive, Staked(d), NEW amount \in Nat, 0 < amount,
         amount <= d.finalizedOwed
  PROVE  /\ Staked(WithdrawShellEffect(d, amount))
         /\ Bought(d) => Bought(WithdrawShellEffect(d, amount))
<1> DEFINE m    == [d EXCEPT !.finalizedOwed = @ - amount]
           lg   == Credit(d.got, Seller, amount)
           e    == PayShell(m, Seller, amount)
<1>1. Typed(d) /\ DOMAIN d = DealFields /\ d.opened /\ d.tokensFinal \in Nat
  BY SoundCovers DEF Sound, Lifecycle, Typed
<1>2. /\ DOMAIN m = DealFields /\ SameStakes(d, m) /\ m.tokensFinal = d.tokensFinal
      /\ SamePurchase(d, m) /\ m.got = d.got
  BY <1>1 DEF DealFields, SameStakes, SamePurchase
<1> HIDE DEF m
<1>3. /\ SameStakes(m, e) /\ e.tokensFinal = m.tokensFinal /\ e.got = lg
      /\ e.fills = m.fills /\ e.buyerBond = m.buyerBond
      /\ e.buyerBondFunded = m.buyerBondFunded /\ e.put = m.put
  BY <1>2 DEF DealFields, SameStakes, PayShell
<1>4. SameStakes(d, e) /\ e.tokensFinal = d.tokensFinal
  BY <1>2, <1>3 DEF SameStakes
<1>5. WithdrawShellEffect(d, amount) = e
  BY <1>1, <1>4 DEF WithdrawShellEffect, SameStakes, m
<1> HIDE DEF e
<1>6. \A b \in Buyers : e.got[b] = d.got[b]
  <2> TAKE b \in Buyers
  <2>1. b # Seller /\ b \in Notes /\ d.got \in [Notes -> Nat]
    BY <1>1, PartiesAssumption DEF Notes, Typed
  <2> QED
    BY <1>3, <2>1 DEF Credit
<1>7. SamePurchase(d, e)
  BY <1>2, <1>3, <1>4, <1>6 DEF SamePurchase, SameStakes
<1>8. Staked(e)
  BY <1>1, <1>4, StakesFrame
<1>9. Bought(d) => Bought(e)
  BY <1>7, PurchaseFrame
<1> QED
  BY <1>5, <1>8, <1>9

\* A freshly deployed deal has nothing at stake.
LEMMA InitStakes == Init => StakesInv
<1> SUFFICES ASSUME Init PROVE Staked(deal) /\ Bought(deal)
  BY InitBooks DEF StakesInv
<1>1. /\ deal.alive = TRUE /\ deal.opened = FALSE /\ deal.funded = FALSE
      /\ deal.disputed = FALSE /\ deal.sellerBondFunded = FALSE /\ deal.probeAccepted = FALSE
      /\ deal.tokensPend = 0 /\ deal.buyer = NoBuyer /\ deal.buyerBond = 0
      /\ deal.buyerBondFunded = FALSE
      /\ deal.got = [n \in Notes |-> 0] /\ deal.put = [n \in Notes |-> 0]
  BY DEF Init, NewDeal
<1>2. \A b \in Buyers : BuyerLoss(deal, b) = 0
  BY <1>1 DEF BuyerLoss, Notes
<1> QED
  BY <1>1, <1>2 DEF Staked, Bought

\* Every call keeps the stakes.
LEMMA NextStakes ==
  ASSUME WholeShells, WholeWeeks PROVE StakesInv /\ [Next]_vars => StakesInv'
<1> DEFINE Kept(e) == Staked(e) /\ (MaxFills <= 1 => Bought(e))
<1> SUFFICES ASSUME StakesInv, [Next]_vars PROVE Kept(deal')
  BY NextBooks DEF StakesInv
<1> now \in Nat /\ Sound(deal) /\ Booked(deal) /\ Staked(deal) /\ (MaxFills <= 1 => Bought(deal))
  BY TimeAssumption DEF StakesInv, BooksInv, IndInv
<1>0. ASSUME NEW e, Call(e), Kept(e) PROVE Kept(deal')
  BY <1>0 DEF Call
<1>a. deal.alive => Typed(deal)
  BY SoundCovers
<1>1. ASSUME NEW b \in Buyers, NEW ticks \in FillTicks, NEW sub \in Shapes,
             FundFromOrderBook(b, ticks, sub)
      PROVE  Kept(deal')
  <2>1. ticks \in Nat /\ sub \in BOOLEAN
    BY InputAssumption
  <2> DEFINE paid == ticks * Unit + (IF sub THEN BondAmount ELSE 0)
             e    == FundFromOrderBookEffect(deal, now, b, paid, sub)
  <2>2. deal.alive /\ Call(e) /\ deal.fills < MaxFills
    BY <1>1 DEF FundFromOrderBook, Call
  <2>3. MaxFills <= 1 => deal.fills = 0
    BY <1>a, <2>2, InputAssumption DEF Typed
  <2>4. Staked(e) /\ (Bought(deal) /\ deal.fills = 0 => Bought(e))
    BY <2>1, <2>2, FundFromOrderBookStakes
  <2> HIDE DEF e
  <2>5. Kept(e)
    BY <2>3, <2>4
  <2> QED
    BY <1>0, <2>2, <2>5
<1>2. CASE PostFromNote
  BY <1>0, <1>2, <1>a, ListingStakes DEF PostFromNote, Call
<1>3. CASE OnSellClosed
  BY <1>0, <1>3, <1>a, ListingStakes DEF OnSellClosed, Call
<1>4. CASE Close
  <2>1. ~deal.opened /\ deal.alive
    BY <1>4 DEF Close, Call, Sound, Lifecycle
  <2> QED
    BY <1>0, <1>4, <2>1, TakenDownStakes DEF Close
<1>5. ASSUME NEW amount \in BondPayments, FundDeal(amount) PROVE Kept(deal')
  BY <1>0, <1>5, BondsStakes, InputAssumption DEF FundDeal, Call
<1>6. ASSUME NEW amount \in BondPayments, FundBuyerBond(amount) PROVE Kept(deal')
  BY <1>0, <1>6, BondsStakes, InputAssumption DEF FundBuyerBond, Call
<1>7. CASE Open
  BY <1>0, <1>7, OpenStakes DEF Open, Call
<1>8. CASE AcceptProbe
  BY <1>0, <1>8, AcceptProbeStakes DEF AcceptProbe, Call
<1>9. ASSUME NEW c \in 0..MaxTicks * TICK_SIZE, ClaimTokens(c) PROVE Kept(deal')
  <2>1. MaxTicks * TICK_SIZE \in Nat
    BY PriceAssumption
  <2>2. c \in Nat
    BY <2>1
  <2>3. /\ deal.alive /\ deal.probeAccepted
        /\ c <= ClaimCap(SettleBoundaries(deal, WeeksElapsedAt(deal, now)))
        /\ Call(ClaimTokensEffect(deal, now, c))
    BY <1>9 DEF ClaimTokens, Call
  <2>4. /\ Staked(ClaimTokensEffect(deal, now, c))
        /\ Bought(deal) => Bought(ClaimTokensEffect(deal, now, c))
    BY <2>2, <2>3, ClaimTokensStakes
  <2> QED
    BY <1>0, <2>3, <2>4
<1>10. CASE Finalize
  BY <1>0, <1>10, SettlingStakes DEF Finalize, FinalizeReady, Call
<1>11. CASE SettleWeek
  BY <1>0, <1>11, SettlingStakes DEF SettleWeek, SettleWeekReady, Call
<1>12. CASE Stop
  BY <1>0, <1>12, ExitsStakes DEF Stop, Call
<1>13. CASE SellerStop
  BY <1>0, <1>13, ExitsStakes DEF SellerStop, Call
<1>14. CASE Dispute
  BY <1>0, <1>14, <1>a, DisputeStakes DEF Dispute, Call
<1>15. CASE ReleaseDispute \/ ResolveDisputeTimeout
  BY <1>0, <1>15, ExitsStakes DEF ReleaseDispute, ResolveDisputeTimeout, Call
<1>17. ASSUME NEW byBuyer \in BOOLEAN, CleanupUnopened(byBuyer) PROVE Kept(deal')
  BY <1>0, <1>17, CleanupUnopenedStakes DEF CleanupUnopened, CleanupReady, Call
<1>18. ASSUME NEW amount \in Withdrawals, WithdrawShell(amount) PROVE Kept(deal')
  BY <1>0, <1>18, WithdrawShellStakes, InputAssumption DEF WithdrawShell, Call
<1>19. CASE Destroy
  BY <1>0, <1>19, TakenDownStakes DEF Destroy, Call
<1>20. CASE AdvanceTime
  BY <1>20 DEF AdvanceTime
<1>21. CASE Destroyed \/ UNCHANGED vars
  BY <1>21 DEF Destroyed, vars
<1> QED
  BY <1>1, <1>2, <1>3, <1>4, <1>5, <1>6, <1>7, <1>8, <1>9, <1>10, <1>11, <1>12, <1>13,
     <1>14, <1>15, <1>17, <1>18, <1>19, <1>20, <1>21 DEF Next

\* The stakes stand throughout: a deal that streams has the seller's bond of two ticks behind
\* it, and an ordinary one is never claimed beyond what was funded.
THEOREM StakesKept == ASSUME WholeShells, WholeWeeks PROVE Spec => []StakesInv
  BY InitStakes, NextStakes, PTL DEF Spec

\* A dispute over a deal with both bonds in is priced, whatever its shape and stage.
LEMMA DisputePriced ==
  ASSUME WholeShells, ModestFee, StakesInv, deal.disputed, deal.buyerBond = BondAmount
  PROVE  ExitsPriced
<1> DEFINE conceded == ReleaseDisputeEffect(deal)
           refused  == ResolveDisputeTimeoutEffect(deal)
           stopped  == StopEffect([deal EXCEPT !.disputed = FALSE], deal.disputeTime)
<1>1. deal.alive /\ deal.opened /\ deal.funded /\ Sound(deal) /\ Staked(deal) /\ Booked(deal)
  BY DEF StakesInv, BooksInv, IndInv, Staked, Sound, Lifecycle
<1>2. PICK K \in Nat \ {0}, j \in Nat \ {0} : BooksAt(deal, K, j)
  BY <1>1 DEF Booked
<1>3. Staking(deal)
  <2>1. Covers(deal, 0)
    BY <1>1, SoundCovers
  <2>2. deal.buyer \in Buyers /\ deal.sellerBond = BondAmount /\ (~deal.probeAccepted => deal.tokensPend = 0)
    BY <1>1 DEF Staked
  <2>3. deal.tokensFinal <= deal.tokensPend
    BY <1>1 DEF Sound, ClaimsBounded
  <2>4. ~deal.probeAccepted => deal.probeTick = P
    BY <1>1, <1>2 DEF BooksAt
  <2> QED
    BY <2>1, <2>2, <2>3, <2>4 DEF Staking
<1>4. /\ SellerGain(conceded) > SellerGain(refused)
      /\ BuyerLoss(refused, deal.buyer) >= BuyerLoss(stopped, deal.buyer)
      /\ IsSubscription(deal) => BuyerLoss(conceded, deal.buyer) >= BuyerLoss(stopped, deal.buyer)
  <2>1. CASE ~deal.probeAccepted
    BY <1>3, <2>1, TrialPriced
  <2>2. CASE deal.probeAccepted /\ IsSubscription(deal)
    BY <1>1, <1>2, <1>3, <2>2, WeeksPriced
  <2>3. CASE deal.probeAccepted /\ ~IsSubscription(deal)
    BY <1>3, <2>3, OrdinaryPriced
  <2> QED
    BY <2>1, <2>2, <2>3
<1> HIDE DEF conceded, refused, stopped
<1>5. \A c \in {conceded}, r \in {refused}, s \in {stopped} :
        /\ SellerGain(c) > SellerGain(r)
        /\ BuyerLoss(r, deal.buyer) >= BuyerLoss(s, deal.buyer)
        /\ IsSubscription(deal) => BuyerLoss(c, deal.buyer) >= BuyerLoss(s, deal.buyer)
  BY <1>4
<1> QED
  BY <1>5 DEF ExitsPriced, conceded, refused, stopped

\* With whole-SHELL prices, whole weeks and a fee of at most the price, every dispute of a deal
\* that holds both bonds is priced: the seller is strictly better off conceding than letting it
\* time out, and no door is cheaper for the buyer than stop().
THEOREM ExitsArePriced ==
  ASSUME WholeShells, WholeWeeks, ModestFee
  PROVE  Spec => [](deal.buyerBond = BondAmount => ExitsPriced)
<1>1. StakesInv => (deal.buyerBond = BondAmount => ExitsPriced)
  <2> SUFFICES ASSUME StakesInv, deal.buyerBond = BondAmount PROVE ExitsPriced
    OBVIOUS
  <2>1. CASE deal.disputed
    BY <2>1, DisputePriced
  <2>2. CASE ~deal.disputed
    BY <2>2 DEF ExitsPriced
  <2> QED
    BY <2>1, <2>2
<1> QED
  BY <1>1, StakesKept, PTL

\* And where the book hands the deal over once, every dispute is.
THEOREM OneFillPriced ==
  ASSUME WholeShells, WholeWeeks, ModestFee, MaxFills <= 1 PROVE Spec => []ExitsPriced
<1>1. StakesInv => ExitsPriced
  <2> SUFFICES ASSUME StakesInv PROVE ExitsPriced
    OBVIOUS
  <2>1. CASE deal.disputed
    <3>1. deal.alive /\ deal.opened
      BY <2>1 DEF StakesInv, BooksInv, IndInv, Staked, Sound, Lifecycle
    <3>2. deal.buyerBond = BondAmount
      BY <3>1 DEF StakesInv, Bought
    <3> QED
      BY <2>1, <3>2, DisputePriced
  <2>2. CASE ~deal.disputed
    BY <2>2 DEF ExitsPriced
  <2> QED
    BY <2>1, <2>2
<1> QED
  BY <1>1, StakesKept, PTL

-----------------------------------------------------------------------------
(***************************************************************************)
(* The bill of an ordinary deal that ends undisputed.                      *)
(***************************************************************************)
\* Whole parts come out of a division.
LEMMA DivWhole ==
  ASSUME NEW a \in Nat, NEW k \in Nat, NEW u \in Nat \ {0}
  PROVE  (a + k * u) \div u = a \div u + k
<1> DEFINE x == a \div u
           z == (a + k * u) \div u
<1>0. k * u \in Nat
  OBVIOUS
<1>1. /\ x \in Nat /\ z \in Nat /\ x * u <= a /\ a < x * u + u
      /\ z * u <= a + k * u /\ a + k * u < z * u + u
  BY <1>0, a + k * u \in Nat
<1> HIDE DEF x, z
<1>2. (x + k) * u = x * u + k * u /\ x * u \in Nat /\ z * u \in Nat
  BY <1>1
<1>3. z <= x + k
  <2> SUFFICES ASSUME x + k + 1 <= z PROVE FALSE
    BY <1>1
  <2>1. (x + k + 1) * u <= z * u /\ (x + k + 1) * u = x * u + k * u + u
    BY <1>1, MulMono
  <2> QED
    BY <1>0, <1>1, <1>2, <2>1
<1>4. x + k <= z
  <2> SUFFICES ASSUME z + 1 <= x + k PROVE FALSE
    BY <1>1
  <2>1. (z + 1) * u <= (x + k) * u /\ (z + 1) * u = z * u + u
    BY <1>1, MulMono
  <2> QED
    BY <1>0, <1>1, <1>2, <2>1
<1> QED
  BY <1>1, <1>3, <1>4 DEF x, z

\* One tick is paid by the trial; the escrow of the others covers any claim for them in full.
LEMMA BillAmounts ==
  ASSUME WholeShells, NEW K \in Nat \ {0}, NEW n \in Nat, TICK_SIZE <= n, n <= K * TICK_SIZE
  PROVE  LET m == n - TICK_SIZE
             D == (K - 1) * Unit
         IN  /\ m \in Nat /\ D \in Nat /\ Value(m) \in Nat /\ PayOf(m) \in Nat
             /\ Lesser(D, Value(m)) = Value(m) /\ Earned(D, m) = PayOf(m)
             /\ PayOf(n) = PayOf(m) + P
<1> DEFINE m == n - TICK_SIZE
           D == (K - 1) * Unit
           r == (K - 1) * TICK_SIZE
<1>1. P \in Nat /\ TICK_SIZE \in Nat \ {0} /\ Unit \in Nat /\ K - 1 \in Nat
  BY PriceAssumption, UnitNat
<1>2. m \in Nat /\ D \in Nat /\ r \in Nat /\ r = K * TICK_SIZE - TICK_SIZE /\ m <= r
  BY <1>1
<1>3. Value(r) = D
  BY <1>1, TicksValue DEF Value
<1>4. PayOf(n) = PayOf(m) + P
  <2>1. n * P = m * P + P * TICK_SIZE /\ m * P \in Nat
    BY <1>1, <1>2
  <2>2. (m * P + P * TICK_SIZE) \div TICK_SIZE = (m * P) \div TICK_SIZE + P
    BY <1>1, <2>1, DivWhole
  <2> QED
    BY <2>1, <2>2 DEF PayOf
<1> HIDE DEF m, D, r
<1>5. PayOf(m) \in Nat /\ FeeOf(m) \in Nat /\ Value(m) \in Nat
  BY <1>2, ValueNat DEF Value
<1>6. Value(m) <= D
  BY <1>2, <1>3, ValueGrows
<1>7. Lesser(D, Value(m)) = Value(m) /\ Earned(D, m) = PayOf(m)
  BY <1>2, <1>5, <1>6 DEF Lesser, Earned
<1> QED
  BY <1>2, <1>4, <1>5, <1>7 DEF m, D

\* Such is every ordinary deal that streams on its only fill; the buyer has paid for the ticks
\* and the bond, the seller has earned the trial's tick.
LEMMA StreamingOrdinary ==
  ASSUME StakesInv, MaxFills <= 1, deal.alive, deal.probeAccepted, ~IsSubscription(deal)
  PROVE  /\ deal.opened /\ deal.buyerBond = BondAmount /\ SellerGain(deal) = P
         /\ deal.sellerBond = BondAmount
         /\ \E K \in Nat \ {0} : /\ Ordinary(deal, K)
                                 /\ BuyerLoss(deal, deal.buyer) = BondAmount + K * Unit
<1>1. deal.opened /\ deal.funded /\ Sound(deal) /\ Staked(deal) /\ Booked(deal) /\ Bought(deal)
  BY DEF StakesInv, BooksInv, IndInv, Sound, Lifecycle
<1>2. PICK K \in Nat \ {0}, j \in Nat \ {0} : BooksAt(deal, K, j)
  BY <1>1 DEF Booked
<1>3. Covers(deal, 0) /\ Typed(deal)
  BY <1>1, SoundCovers
<1>4. Mark(deal, j) = 1
  <2>1. deal.weekIndex \in Nat /\ deal.weekIndex <= 0
    BY <1>2, <1>3 DEF BooksAt, IsSubscription, Typed
  <2>2. deal.weekIndex = 0 /\ 0 * j = 0
    BY <2>1
  <2> QED
    BY <2>2 DEF Mark, Greater
<1>5. P \in Nat /\ TICK_SIZE \in Nat \ {0} /\ 1 * P = P /\ 1 * TICK_SIZE = TICK_SIZE
  BY PriceAssumption
<1>6. /\ deal.fundedTokens = K * TICK_SIZE /\ deal.tokensPaid = TICK_SIZE
      /\ deal.deposit = (K - 1) * Unit /\ SellerGain(deal) = P
  BY <1>2, <1>4, <1>5 DEF BooksAt
<1>7. /\ deal.tokensFinal >= TICK_SIZE /\ deal.tokensPend <= deal.fundedTokens
      /\ deal.buyer \in Buyers /\ deal.sellerBond = BondAmount
  BY <1>1 DEF Staked
<1>8. deal.tokensFinal <= deal.tokensPend
  BY <1>1 DEF Sound, ClaimsBounded
<1>9. TICK_SIZE <= deal.tokensFinal
  BY <1>3, <1>5, <1>7 DEF Typed
<1>10. Ordinary(deal, K)
  BY <1>3, <1>6, <1>7, <1>8, <1>9 DEF Ordinary
<1>11. deal.fundedTokens \div TICK_SIZE = K
  BY <1>5, <1>6, DivExact
<1>12. /\ deal.buyerBond = BondAmount
       /\ BuyerLoss(deal, deal.buyer) = deal.buyerBond + (deal.fundedTokens \div TICK_SIZE) * Unit
  BY <1>1 DEF Bought
<1>13. BuyerLoss(deal, deal.buyer) = BondAmount + K * Unit
  BY <1>11, <1>12
<1> QED
  BY <1>1, <1>6, <1>7, <1>10, <1>12, <1>13

\* Closing it pays the seller for the trusted claims and leaves the buyer the rest.
LEMMA OrdinaryClose ==
  ASSUME WholeShells, NEW d, NEW K, Ordinary(d, K)
  PROVE  LET e == PayFinalAndClose(d)
             n == d.tokensFinal
         IN  /\ e.put = d.put
             /\ e.got[d.buyer] = d.got[d.buyer] + ((K - 1) * Unit - Value(n - TICK_SIZE)) + d.buyerBond
             /\ SellerGain(e) >= SellerGain(d) + PayOf(n - TICK_SIZE)
<1> DEFINE e == PayFinalAndClose(d)
           n == d.tokensFinal
           m == n - TICK_SIZE
           D == (K - 1) * Unit
           o == IF ~IsSubscription(d) /\ d.tokensFinal > d.tokensPaid
                THEN d.tokensFinal - d.tokensPaid ELSE 0
<1>1. /\ n \in Nat /\ d.tokensPend \in Nat /\ TICK_SIZE \in Nat /\ K \in Nat \ {0}
      /\ K * TICK_SIZE \in Nat /\ TICK_SIZE <= n /\ n <= K * TICK_SIZE
  BY PriceAssumption DEF Ordinary, Covers, Typed
<1>2. m \in Nat /\ Lesser(D, Value(m)) = Value(m) /\ Earned(D, m) = PayOf(m)
  BY <1>1, BillAmounts
<1>3. o = m
  BY <1>1 DEF Ordinary
<1>4. d.deposit = D
  BY DEF Ordinary
<1>5. /\ e.put = d.put
      /\ e.got[d.buyer] = d.got[d.buyer] + (d.deposit - Lesser(d.deposit, Value(o))) + d.buyerBond
      /\ SellerGain(e) >= SellerGain(d) + Earned(d.deposit, o)
  BY PayFinalPays DEF Ordinary
<1> HIDE DEF e, o, D, m
<1> QED
  BY <1>2, <1>3, <1>4, <1>5 DEF e, m, n, D

\* A close that charges the matured claims, and no more than was claimed, is fair when neither
\* party forfeits more than a tick of bond.
LEMMA BilledWhen ==
  ASSUME WholeShells, NEW d, NEW K, Ordinary(d, K), d.buyerBond = BondAmount,
         BuyerLoss(d, d.buyer) = BondAmount + K * Unit, SellerGain(d) = P,
         NEW t \in Nat, NEW n \in Nat, NEW b \in 0..P, NEW s \in 0..P, NEW e,
         Matured(d, t) \in Nat, Matured(d, t) <= n, TICK_SIZE <= n, n <= d.tokensPend, e.put = d.put,
         e.got[d.buyer] = d.got[d.buyer] + ((K - 1) * Unit - Value(n - TICK_SIZE)) + (d.buyerBond - b),
         SellerGain(e) \in Int, SellerGain(e) >= SellerGain(d) - s + PayOf(n - TICK_SIZE)
  PROVE  Billed(d, t, e)
<1> DEFINE m     == n - TICK_SIZE
           later == d.tokensPend - TICK_SIZE
           D     == (K - 1) * Unit
<1>1. /\ d.tokensPend \in Nat /\ TICK_SIZE \in Nat /\ P \in Nat /\ Unit \in Nat /\ K \in Nat \ {0}
      /\ BondAmount \in Nat /\ d.got[d.buyer] \in Nat /\ d.put[d.buyer] \in Nat
  BY PriceAssumption, UnitNat DEF Ordinary, Covers, Typed, Notes
<1>2. m \in Nat /\ later \in Nat /\ m <= later /\ n <= K * TICK_SIZE /\ K * TICK_SIZE \in Nat
  BY <1>1 DEF Ordinary
<1>3. D \in Nat /\ Value(m) \in Nat /\ PayOf(m) \in Nat /\ PayOf(n) = PayOf(m) + P
  BY <1>1, <1>2, BillAmounts
<1>4. D = K * Unit - Unit /\ K * Unit \in Nat
  BY <1>1
<1>6. PayOf(Matured(d, t)) <= PayOf(n) /\ PayOf(Matured(d, t)) \in Nat
  BY ValueGrows, ValueNat
<1>7. SellerGain(e) >= SellerGain(d) - s + PayOf(m)
  OBVIOUS
<1>8. e.got[d.buyer] = d.got[d.buyer] + (D - Value(m)) + (BondAmount - b)
  OBVIOUS
<1> HIDE DEF D, m, later
<1>v. PayOf(later) \in Nat /\ FeeOf(later) \in Nat /\ Value(later) \in Nat
  BY <1>2, ValueNat DEF Value
<1>5. Value(m) <= Value(later) /\ Value(later) \in Nat
  BY <1>2, <1>v, ValueGrows
<1>9. SellerGain(e) + P >= PayOf(Matured(d, t))
  BY <1>1, <1>3, <1>6, <1>7
<1>10. BuyerLoss(e, d.buyer) = Unit + Value(m) + b
  <2> DEFINE g == d.got[d.buyer]
             p == d.put[d.buyer]
             ku == K * Unit
             v == Value(m)
  <2>1. p - g = BondAmount + ku /\ BuyerLoss(e, d.buyer) = p - e.got[d.buyer]
    BY DEF BuyerLoss
  <2>2. e.got[d.buyer] = g + (D - v) + (BondAmount - b) /\ D = ku - Unit
    BY <1>4, <1>8
  <2>3. g \in Nat /\ p \in Nat /\ ku \in Nat /\ v \in Nat /\ Unit \in Nat /\ b \in Nat /\ BondAmount \in Nat
    BY <1>1, <1>3, <1>4
  <2> HIDE DEF g, p, ku, v
  <2>4. BuyerLoss(e, d.buyer) = Unit + v + b
    BY <2>1, <2>2, <2>3
  <2> QED
    BY <2>4 DEF v
<1>11. BuyerLoss(e, d.buyer) <= Unit + Value(later) + P
  BY <1>1, <1>3, <1>5, <1>10
<1>12. Value(later) = PayOf(later) + FeeOf(later) /\ PayOf(later) \in Nat /\ FeeOf(later) \in Nat
  BY <1>2, ValueNat DEF Value
<1>13. BuyerLoss(e, d.buyer) <= Unit + PayOf(later) + FeeOf(later) + P
  BY <1>1, <1>3, <1>10, <1>11, <1>12
<1> QED
  BY <1>9, <1>13 DEF Billed, later

\* Promotion keeps an ordinary deal one, with the matured claims trusted.
LEMMA MaturedOrdinary ==
  ASSUME NEW d, NEW K, Ordinary(d, K), NEW t \in Nat
  PROVE  LET p == PromoteDue(d, t)
         IN  /\ Ordinary(p, K) /\ Agree(p, d, {"tokensFinal"}) /\ p.tokensFinal = Matured(d, t)
             /\ Matured(d, t) \in Nat /\ TICK_SIZE <= Matured(d, t) /\ Matured(d, t) <= d.tokensPend
<1> DEFINE p == PromoteDue(d, t)
<1>1. /\ d.tokensFinal \in Nat /\ d.tokensPend \in Nat /\ TICK_SIZE \in Nat /\ DOMAIN d = DealFields
      /\ TICK_SIZE <= d.tokensFinal /\ d.tokensFinal <= d.tokensPend
  BY PriceAssumption DEF Ordinary, Covers, Typed
<1>2. Covers(p, 0)
  BY PromoteCovers DEF Ordinary
<1>3. /\ Agree(p, d, {"tokensFinal"}) /\ p.tokensFinal \in Nat /\ TICK_SIZE <= p.tokensFinal
      /\ p.tokensFinal <= d.tokensPend
  BY <1>1 DEF PromoteDue, Promote, Greater, Agree, DealFields
<1>4. p.tokensFinal = Matured(d, t)
  BY DEF Matured
<1> HIDE DEF p
<1>5. /\ p.buyer = d.buyer /\ p.probeAccepted = d.probeAccepted /\ p.subWeeks = d.subWeeks
      /\ p.deposit = d.deposit /\ p.tokensPaid = d.tokensPaid /\ p.tokensPend = d.tokensPend
  BY <1>3 DEF Agree, DealFields
<1>6. Ordinary(p, K)
  BY <1>2, <1>3, <1>5 DEF Ordinary, IsSubscription
<1> QED
  BY <1>3, <1>4, <1>6 DEF p

\* The three ways such a deal ends: finalize of the last tick, stop and seller stop.
LEMMA OrdinaryBilled ==
  ASSUME WholeShells, NEW d, NEW K, Ordinary(d, K), d.buyerBond = BondAmount,
         d.sellerBond = BondAmount, BuyerLoss(d, d.buyer) = BondAmount + K * Unit,
         SellerGain(d) = P, NEW t \in Nat
  PROVE  /\ Billed(d, t, PayFinalAndClose(PromoteDue(d, t)))
         /\ Billed(d, t, StopEffect(d, t)) /\ Billed(d, t, SellerStopEffect(d, t))
<1> DEFINE p == PromoteDue(d, t)
           n == Matured(d, t)
<1>1. /\ P \in Nat /\ BondAmount \in Nat /\ BondAmount = 2 * P /\ Typed(d) /\ DOMAIN d = DealFields
      /\ 0 \in 0..P /\ P \in 0..P /\ d.buyer \in Buyers /\ d.got[d.buyer] \in Nat
      /\ d.tokensPend \in Nat /\ TICK_SIZE \in Nat
      /\ TICK_SIZE <= d.tokensPend
  BY TwoTicks, PriceAssumption DEF Ordinary, Covers, Typed, Notes
<1>2. /\ Ordinary(p, K) /\ Agree(p, d, {"tokensFinal"}) /\ p.tokensFinal = n
      /\ n \in Nat /\ TICK_SIZE <= n /\ n <= d.tokensPend
  BY MaturedOrdinary
<1>3. /\ p.put = d.put /\ p.got = d.got /\ p.buyer = d.buyer /\ p.buyerBond = d.buyerBond
      /\ p.sellerBond = d.sellerBond /\ p.finalizedOwed = d.finalizedOwed
      /\ p.subWeeks = d.subWeeks /\ p.probeAccepted = d.probeAccepted /\ p.tokensPend = d.tokensPend
      /\ p.tokensPaid = d.tokensPaid /\ p.deposit = d.deposit
  BY <1>2 DEF Agree, DealFields
<1>4. SellerGain(p) = P
  BY <1>3 DEF SellerGain
<1>g. ASSUME NEW x, Gone(x) PROVE SellerGain(x) \in Int
  BY <1>g DEF Gone, Typed, Notes, SellerGain
<1>5. Billed(d, t, PayFinalAndClose(p))
  <2> DEFINE e == PayFinalAndClose(p)
             z == 0
  <2>1. /\ e.put = p.put /\ SellerGain(e) >= SellerGain(p) + PayOf(p.tokensFinal - TICK_SIZE)
        /\ e.got[p.buyer] = p.got[p.buyer] + ((K - 1) * Unit - Value(p.tokensFinal - TICK_SIZE)) + p.buyerBond
    BY <1>2, OrdinaryClose
  <2>2. SellerGain(e) \in Int
    BY <1>2, <1>g, PayFinalAndCloseEnds DEF Ordinary
  <2>3. z \in 0..P /\ d.buyerBond - z = d.buyerBond /\ SellerGain(d) - z = SellerGain(d)
    BY <1>1
  <2> HIDE DEF e, p, n, z
  <2>4. /\ SellerGain(e) >= SellerGain(d) - z + PayOf(n - TICK_SIZE) /\ e.put = d.put
        /\ e.got[d.buyer] = d.got[d.buyer] + ((K - 1) * Unit - Value(n - TICK_SIZE)) + (d.buyerBond - z)
    BY <1>2, <1>3, <1>4, <2>1, <2>3
  <2>5. Billed(d, t, e)
    BY <1>2, <2>2, <2>3, <2>4, BilledWhen DEF n
  <2> QED
    BY <2>5 DEF e
<1>6. Billed(d, t, StopEffect(d, t))
  <2> DEFINE e == StopEffect(d, t)
             o == IF d.tokensPend > d.tokensPaid THEN d.tokensPend - d.tokensPaid ELSE 0
             z == 0
             q == d.tokensPend
             D == (K - 1) * Unit
  <2>1. /\ e.put = d.put /\ SellerGain(e) >= SellerGain(d) + Earned(d.deposit, o)
        /\ e.got[d.buyer] = d.got[d.buyer] + (d.deposit - Lesser(d.deposit, Value(o)))
                            + (d.buyerBond - Lesser(P, d.buyerBond))
    BY OrdinaryStop DEF Ordinary
  <2>2. SellerGain(e) \in Int
    BY <1>g, StopEnds DEF Ordinary
  <2>3. z \in 0..P /\ SellerGain(d) - z = SellerGain(d) /\ Lesser(P, d.buyerBond) = P
    BY <1>1 DEF Lesser
  <2>4. o = q - TICK_SIZE /\ d.deposit = D
    BY <1>1 DEF Ordinary
  <2>5. Lesser(D, Value(q - TICK_SIZE)) = Value(q - TICK_SIZE) /\ Earned(D, q - TICK_SIZE) = PayOf(q - TICK_SIZE)
    <3>1. K \in Nat \ {0} /\ q <= K * TICK_SIZE /\ q \in Nat /\ TICK_SIZE <= q
      BY <1>1 DEF Ordinary
    <3> QED
      BY <3>1, BillAmounts
  <2> HIDE DEF e, p, n, z, o, D
  <2>6. /\ SellerGain(e) >= SellerGain(d) - z + PayOf(q - TICK_SIZE) /\ e.put = d.put
        /\ e.got[d.buyer] = d.got[d.buyer] + (D - Value(q - TICK_SIZE)) + (d.buyerBond - P)
    BY <2>1, <2>3, <2>4, <2>5
  <2>7. q \in Nat /\ Matured(d, t) \in Nat /\ Matured(d, t) <= q /\ TICK_SIZE <= q /\ q <= d.tokensPend
    BY <1>1, <1>2 DEF n
  <2> HIDE DEF q
  <2>8. Billed(d, t, e)
    BY <1>1, <2>2, <2>3, <2>6, <2>7, BilledWhen DEF D
  <2> QED
    BY <2>8 DEF e
<1>7. Billed(d, t, SellerStopEffect(d, t))
  <2> DEFINE cut == [p EXCEPT !.tokensPend = p.tokensFinal]
             z   == 0
             f   == ForfeitBonds(cut, z, P)
             w   == ChargeWeeksThrough(f, WeeksElapsedAt(d, t))
             e   == PayFinalAndClose(f)
  <2>0. SellerStopEffect(d, t) = PayFinalAndClose(w)
    BY DEF SellerStopEffect, Ordinary
  <2>z. z \in Nat /\ z \in 0..P
    BY <1>1
  <2> DEFINE y == P
  <2>y. y \in 0..P /\ y = P
    BY <1>1
  <2> HIDE DEF z, y, p, n
  <2>1. Covers(cut, 0) /\ Agree(cut, p, {"tokensPend"}) /\ cut.tokensPend = n
    <3>1. Covers(p, 0)
      BY <1>2 DEF Ordinary
    <3>2. Covers(cut, 0)
      BY <3>1 DEF Covers, Typed, DealFields, Earmarks
    <3>3. DOMAIN p = DealFields
      BY <3>1 DEF Covers, Typed
    <3> QED
      BY <1>2, <3>2, <3>3 DEF Agree, DealFields
  <2> HIDE DEF cut
  <2>2. /\ cut.put = d.put /\ cut.got = d.got /\ cut.buyer = d.buyer /\ cut.buyerBond = d.buyerBond
        /\ cut.sellerBond = d.sellerBond /\ cut.finalizedOwed = d.finalizedOwed
        /\ cut.subWeeks = d.subWeeks /\ cut.probeAccepted = d.probeAccepted
        /\ cut.tokensPaid = d.tokensPaid /\ cut.deposit = d.deposit /\ cut.tokensFinal = n
    BY <1>2, <1>3, <2>1 DEF Agree, DealFields
  <2>3. /\ Covers(f, 0) /\ Agree(f, cut, {"buyerBond", "sellerBond", "balance", "burned"})
        /\ f.buyerBond = cut.buyerBond - Lesser(z, cut.buyerBond)
        /\ f.sellerBond = cut.sellerBond - Lesser(P, cut.sellerBond)
    BY <1>1, <2>z, <2>1, Forfeits, ForfeitBondsCovers DEF Covers
  <2> HIDE DEF f
  <2>4. Lesser(z, cut.buyerBond) = 0 /\ Lesser(P, cut.sellerBond) = P
    BY <1>1, <2>2 DEF Lesser, z
  <2>5. /\ f.put = d.put /\ f.got = d.got /\ f.buyer = d.buyer /\ f.buyerBond = d.buyerBond
        /\ f.sellerBond = d.sellerBond - P /\ f.finalizedOwed = d.finalizedOwed
        /\ f.subWeeks = d.subWeeks /\ f.probeAccepted = d.probeAccepted
        /\ f.tokensPaid = d.tokensPaid /\ f.deposit = d.deposit /\ f.tokensFinal = n /\ f.tokensPend = n
    <3>1. f.buyerBond = d.buyerBond /\ f.sellerBond = d.sellerBond - P
      BY <1>1, <2>2, <2>3, <2>4
    <3> QED
      BY <2>1, <2>2, <2>3, <3>1 DEF Agree, DealFields
  <2>6. Ordinary(f, K)
    <3>1. K \in Nat \ {0} /\ n <= K * TICK_SIZE /\ n <= n
      BY <1>1, <1>2 DEF Ordinary
    <3> QED
      BY <1>2, <2>3, <2>5, <3>1 DEF Ordinary, IsSubscription
  <2>7. w = f
    BY <2>6 DEF ChargeWeeksThrough, Ordinary
  <2>8. SellerGain(f) = SellerGain(d) - P
    <3>1. d.got[Seller] \in Nat /\ d.put[Seller] \in Nat /\ d.finalizedOwed \in Nat /\ d.sellerBond \in Nat
      BY <1>1 DEF Typed, Notes
    <3> QED
      BY <1>1, <2>5, <3>1 DEF SellerGain
  <2>9. /\ e.put = f.put /\ SellerGain(e) >= SellerGain(f) + PayOf(f.tokensFinal - TICK_SIZE)
        /\ e.got[f.buyer] = f.got[f.buyer] + ((K - 1) * Unit - Value(f.tokensFinal - TICK_SIZE)) + f.buyerBond
    BY <2>6, OrdinaryClose
  <2>10. SellerGain(e) \in Int
    BY <2>3, <1>g, PayFinalAndCloseEnds
  <2> HIDE DEF e, w
  <2>11. d.buyerBond - z = d.buyerBond
    BY <1>1 DEF z
  <2>12. /\ SellerGain(e) >= SellerGain(d) - y + PayOf(n - TICK_SIZE) /\ e.put = d.put
         /\ e.got[d.buyer] = d.got[d.buyer] + ((K - 1) * Unit - Value(n - TICK_SIZE)) + (d.buyerBond - z)
    BY <2>y, <2>5, <2>8, <2>9, <2>11
  <2>13. Billed(d, t, e)
    BY <1>2, <2>z, <2>y, <2>10, <2>12, BilledWhen DEF n
  <2> QED
    BY <2>0, <2>7, <2>13 DEF e
<1> QED
  BY <1>5, <1>6, <1>7 DEF p

\* A call that does not end an open deal leaves it alive.
LEMMA StaysAlive ==
  ASSUME NEW d, Sound(d), Staked(d), d.alive, d.opened, NEW t \in Nat, NEW b, NEW paid, NEW sub,
         NEW c, NEW amount
  PROVE  /\ FundFromOrderBookEffect(d, t, b, paid, sub).alive
         /\ PostFromNoteEffect(d).alive /\ OnSellClosedEffect(d).alive /\ DisputeEffect(d, t).alive
         /\ ClaimTokensEffect(d, t, c).alive /\ WithdrawShellEffect(d, amount).alive
<1>1. Typed(d) /\ DOMAIN d = DealFields /\ d.funded
  BY SoundCovers DEF Typed, Sound, Lifecycle
<1>2. PostFromNoteEffect(d).alive /\ OnSellClosedEffect(d).alive /\ DisputeEffect(d, t).alive
  BY <1>1 DEF PostFromNoteEffect, OnSellClosedEffect, DisputeEffect, DealFields
<1>3. FundFromOrderBookEffect(d, t, b, paid, sub).alive
  <2> DEFINE r == Receive(d, b, paid)
             h == [r EXCEPT !.fills = @ + 1]
  <2>1. DOMAIN r = DealFields /\ r.alive
    BY <1>1 DEF Receive, DealFields
  <2>2. FundFromOrderBookEffect(d, t, b, paid, sub) = PayShell(h, b, paid)
    BY <1>1 DEF FundFromOrderBookEffect
  <2> HIDE DEF r
  <2>3. DOMAIN h = DealFields /\ h.alive
    BY <2>1 DEF DealFields
  <2> HIDE DEF h
  <2> QED
    BY <2>2, <2>3 DEF PayShell, DealFields
<1>4. ClaimTokensEffect(d, t, c).alive
  <2> DEFINE s == SettleBoundaries(d, WeeksElapsedAt(d, t))
             p == PromoteDue(s, t)
  <2>1. s.alive /\ Typed(s) /\ Staked(s)
    BY BeforeClaimStakes DEF SameStakes
  <2>2. ClaimTokensEffect(d, t, c) = [p EXCEPT !.tokensPend = c, !.lastClaimTime = t]
    BY DEF ClaimTokensEffect, BeforeClaim
  <2> HIDE DEF s
  <2>3. p.alive /\ DOMAIN p = DealFields
    BY <2>1, PromoteStakes, PromoteTerm DEF SameStakes, Typed, SameTerm
  <2> HIDE DEF p
  <2> QED
    BY <2>2, <2>3 DEF DealFields
<1>5. WithdrawShellEffect(d, amount).alive
  <2> DEFINE m == [d EXCEPT !.finalizedOwed = @ - amount]
             e == PayShell(m, Seller, amount)
  <2>1. DOMAIN m = DealFields /\ m.alive /\ m.opened
    BY <1>1 DEF DealFields
  <2> HIDE DEF m
  <2>2. e.alive /\ e.opened
    BY <2>1 DEF DealFields, PayShell
  <2> HIDE DEF e
  <2> QED
    BY <2>2 DEF WithdrawShellEffect, e, m
<1> QED
  BY <1>2, <1>3, <1>4, <1>5

\* Every step that ends such a deal bills it fairly.
LEMMA ClosingBilled ==
  ASSUME WholeShells, MaxFills <= 1, StakesInv, Next, Closing, ~deal.everDisputed,
         deal.probeAccepted, ~IsSubscription(deal)
  PROVE  Billed(deal, now, deal')
<1>1. /\ deal.alive /\ ~deal'.alive /\ Sound(deal) /\ Staked(deal) /\ now \in Nat
      /\ ~deal.disputed
  BY TimeAssumption DEF Closing, StakesInv, BooksInv, IndInv, Staked
<1>2. /\ deal.opened /\ deal.buyerBond = BondAmount /\ SellerGain(deal) = P
      /\ deal.sellerBond = BondAmount
  BY <1>1, StreamingOrdinary
<1>3. PICK K \in Nat \ {0} : Ordinary(deal, K) /\ BuyerLoss(deal, deal.buyer) = BondAmount + K * Unit
  BY <1>1, StreamingOrdinary
<1>4. deal.funded
  BY <1>1, <1>2 DEF Sound, Lifecycle
<1>5. /\ Billed(deal, now, PayFinalAndClose(PromoteDue(deal, now)))
      /\ Billed(deal, now, StopEffect(deal, now)) /\ Billed(deal, now, SellerStopEffect(deal, now))
  BY <1>1, <1>2, <1>3, OrdinaryBilled
<1>6. ASSUME NEW e, Call(e), e.alive PROVE FALSE
  BY <1>1, <1>6 DEF Call
<1>7. ASSUME NEW b \in Buyers, NEW ticks \in FillTicks, NEW sub \in Shapes,
             FundFromOrderBook(b, ticks, sub)
      PROVE  FALSE
  BY <1>1, <1>2, <1>6, <1>7, StaysAlive DEF FundFromOrderBook
<1>8. CASE PostFromNote \/ OnSellClosed \/ Dispute
  BY <1>1, <1>2, <1>6, <1>8, StaysAlive DEF PostFromNote, OnSellClosed, Dispute
<1>9. ASSUME NEW c \in 0..MaxTicks * TICK_SIZE, ClaimTokens(c) PROVE FALSE
  <2>1. Call(ClaimTokensEffect(deal, now, c))
    BY <1>9 DEF ClaimTokens
  <2> QED
    BY <1>1, <1>2, <1>6, <2>1, StaysAlive
<1>10. ASSUME NEW amount \in Withdrawals, WithdrawShell(amount) PROVE FALSE
  BY <1>1, <1>2, <1>6, <1>10, StaysAlive DEF WithdrawShell
<1>11. CASE Finalize
  <2> DEFINE p == PromoteDue(deal, now)
  <2>1. Call(FinalizeEffect(deal, now))
    BY <1>11 DEF Finalize
  <2>2. FinalizeEffect(deal, now) = PayFinalAndClose(p) \/ FinalizeEffect(deal, now) = p
    BY DEF FinalizeEffect
  <2>3. p.alive
    BY <1>1, SoundCovers, PromoteStakes DEF SameStakes
  <2> HIDE DEF p
  <2>4. deal' = PayFinalAndClose(p)
    BY <1>6, <2>1, <2>2, <2>3 DEF Call
  <2> QED
    BY <1>5, <2>4 DEF p
<1>12. CASE Stop \/ SellerStop
  BY <1>5, <1>12 DEF Stop, SellerStop, Call
<1>13. ASSUME \/ Close \/ Open \/ AcceptProbe \/ SettleWeek \/ ReleaseDispute
              \/ ResolveDisputeTimeout \/ Destroy \/ AdvanceTime \/ Destroyed
       PROVE  FALSE
  BY <1>1, <1>2, <1>4, <1>13
     DEF Close, Open, AcceptProbe, SettleWeek, SettleWeekReady, ReleaseDispute,
         ResolveDisputeTimeout, ResolveReady, Destroy, AdvanceTime, Destroyed
<1>14. ASSUME NEW amount, FundDeal(amount) \/ FundBuyerBond(amount) PROVE FALSE
  BY <1>2, <1>14 DEF FundDeal, FundBuyerBond
<1>15. ASSUME NEW byBuyer, CleanupUnopened(byBuyer) PROVE FALSE
  BY <1>2, <1>15 DEF CleanupUnopened, CleanupReady
<1> QED
  BY <1>7, <1>8, <1>9, <1>10, <1>11, <1>12, <1>13, <1>14, <1>15 DEF Next

\* With whole-SHELL prices and one hand-over, an ordinary deal that ends undisputed bills what
\* was claimed, whichever of its three ends it takes: the seller is paid for every matured claim
\* up to the tick of bond he forfeits by quitting, the buyer pays for no more than was claimed
\* and the tick of bond that stop() forfeits.
THEOREM BillIsFair ==
  ASSUME WholeShells, WholeWeeks, MaxFills <= 1 PROVE Spec => FairBill
<1> DEFINE Fair == Closing /\ ~deal.everDisputed /\ deal.probeAccepted /\ ~IsSubscription(deal) =>
                     LET later == deal.tokensPend - TICK_SIZE
                     IN  /\ SellerGain(deal') + P >= PayOf(Matured(deal, now))
                         /\ BuyerLoss(deal', deal.buyer) <= Unit + PayOf(later) + FeeOf(later) + P
<1>1. StakesInv /\ [Next]_vars => [Fair]_vars
  <2> SUFFICES ASSUME StakesInv, Next, Closing, ~deal.everDisputed, deal.probeAccepted,
                      ~IsSubscription(deal)
               PROVE  Billed(deal, now, deal')
    BY DEF Billed
  <2> QED
    BY ClosingBilled
<1>2. FairBill <=> [][Fair]_vars
  BY PTL DEF FairBill
<1> HIDE DEF Fair
<1> QED
  BY <1>1, <1>2, StakesKept, PTL DEF Spec
-----------------------------------------------------------------------------
(***************************************************************************)
(* The weekly keeper beside its deal, for any number of restarts and any   *)
(* interleaving of claims, settlements, exits and disputes.  The argument  *)
(* compares the deal with what the keeper last read of it (Since).  Money  *)
(* plays no part: every private function of the contract is used only for  *)
(* the fields it leaves alone and for the marks it moves.                  *)
(***************************************************************************)

-----------------------------------------------------------------------------
(***************************************************************************)
(* Numbers: weeks, prices and products.                                    *)
(***************************************************************************)

\* Fewer seconds hold no more weeks.
LEMMA DivMonotone ==
  ASSUME NEW a \in Int, NEW b \in Int, a <= b
  PROVE  a \div SUB_WEEK_LEN <= b \div SUB_WEEK_LEN
BY TimeAssumption

\* Weeks are counted by an integer.
LEMMA DivInt == ASSUME NEW a \in Int PROVE a \div SUB_WEEK_LEN \in Int
BY TimeAssumption

\* A time span is nonnegative, so is its number of weeks.
LEMMA DivNat == ASSUME NEW a \in Nat PROVE a \div SUB_WEEK_LEN \in Nat
BY TimeAssumption

\* Prices are numbers.
LEMMA PriceInt ==
  ASSUME NEW n \in Int
  PROVE  Fee(n) \in Int /\ PayOf(n) \in Int /\ FeeOf(n) \in Int
<1>1. \A m \in Int : Fee(m) \in Int
  BY PriceAssumption DEF Fee
<1>2. PayOf(n) \in Int
  BY PriceAssumption DEF PayOf
<1> QED
  BY <1>1, <1>2 DEF FeeOf

\* A unit is at least its price.
LEMMA UnitPositive == Unit \in Nat \ {0} /\ BondAmount \in Nat \ {0}
<1>1. Fee(P) \in Nat
  BY PriceAssumption DEF Fee
<1> QED
  BY <1>1, PriceAssumption DEF Unit, BondAmount

\* The claims of one more week.
LEMMA NextWeek ==
  ASSUME NEW w \in Nat, NEW n \in Nat
  PROVE  /\ (w + 1) * n \in Nat /\ (w + 1) * n >= n
         /\ (w + 1 + 1) * n >= (w + 1) * n
OBVIOUS
-----------------------------------------------------------------------------
(***************************************************************************)
(* What the private functions leave alone while a deal goes on.            *)
(***************************************************************************)
\* A charge moves money only.
LEMMA ChargeMarks ==
  ASSUME NEW d, Marked(d), NEW n \in Int
  PROVE  LET e == ChargeTokens(d, n)
         IN  SameMarks(d, e) /\ Marked(e)
<1> DEFINE short == PayOf(n) + FeeOf(n) > d.deposit
           fee   == IF short THEN Lesser(d.deposit, FeeOf(n)) ELSE FeeOf(n)
           pay   == IF short THEN d.deposit - fee ELSE PayOf(n)
           e     == [d EXCEPT !.deposit = @ - (pay + fee),
                              !.finalizedOwed = @ + pay, !.feeAccrued = @ + fee]
<1>1. ChargeTokens(d, n) = e
  BY DEF ChargeTokens
<1>2. d.deposit \in Int /\ DOMAIN d = DealFields
  BY DEF Marked
<1>3. fee \in Int /\ pay \in Int
  BY <1>2, PriceInt DEF Lesser
<1> HIDE DEF short, fee, pay
<1>4. SameMarks(d, e)
  BY <1>2 DEF SameMarks, DealFields
<1>5. e.deposit \in Int /\ e.probeTick = d.probeTick
  BY <1>2, <1>3 DEF DealFields
<1>6. Marked(e)
  BY <1>4, <1>5 DEF Marked, SameMarks
<1> QED
  BY <1>1, <1>4, <1>6

\* Reporting the delivered volume moves no mark.
LEMMA RecordMarks ==
  ASSUME NEW d, Marked(d)
  PROVE  LET e == ReportFinalized(RecordDelivered(d))
         IN  SameMarks(d, e) /\ Marked(e)
<1> DEFINE r == RecordDelivered(d)
           e == ReportFinalized(r)
<1>1. SameMarks(d, r) /\ Marked(r)
  <2> DEFINE k == (IF d.probeAccepted THEN Greater(d.tokensFinal, TICK_SIZE)
                   ELSE d.tokensFinal) \div TICK_SIZE
  <2>1. r = [d EXCEPT !.ticksFinalized = k]
    BY DEF RecordDelivered
  <2> HIDE DEF k, r
  <2>2. SameMarks(d, r) /\ r.deposit = d.deposit /\ r.probeTick = d.probeTick
    BY <2>1 DEF SameMarks, Marked, DealFields
  <2> QED
    BY <2>2 DEF Marked, SameMarks
<1> HIDE DEF r
<1>2. e = r \/ e = [r EXCEPT !.reported = r.ticksFinalized]
  BY DEF ReportFinalized
<1> HIDE DEF e
<1>3. SameMarks(r, e) /\ e.deposit = r.deposit /\ e.probeTick = r.probeTick
  BY <1>1, <1>2 DEF SameMarks, Marked, DealFields
<1>4. SameMarks(d, e)
  BY <1>1, <1>3 DEF SameMarks
<1>5. Marked(e)
  BY <1>1, <1>3 DEF Marked, SameMarks
<1> QED
  BY <1>4, <1>5 DEF e, r
-----------------------------------------------------------------------------
(***************************************************************************)
(* Weeks.  A deal whose probe was accepted moves through its weeks; the    *)
(* paid mark and the base of the week follow.                              *)
(***************************************************************************)
\* Charging goes on where charging left off.
LEMMA ChargedTrans ==
  ASSUME NEW d, NEW e, NEW f, Marked(d), Marked(e), Marked(f), Charged(d, e), Charged(e, f)
  PROVE  Charged(d, f)
BY DEF Charged, Marked

\* No week is due.
LEMMA ChargedSelf == ASSUME NEW d, Marked(d) PROVE Charged(d, d)
BY DEF Charged, Marked

\* One week.
LEMMA ChargeOneWeekMarks ==
  ASSUME NEW d, Running(d)
  PROVE  LET e == ChargeOneWeek(d)
         IN  Running(e) /\ Charged(d, e) /\ e.weekIndex = d.weekIndex + 1
<1> DEFINE target == (d.weekIndex + 1) * d.tokensPerWeek
           due    == IF target > d.tokensPaid THEN target - d.tokensPaid ELSE 0
           c      == ChargeTokens(d, due)
           base   == Greater(d.tokensFinal, d.tokensPend)
           e      == [c EXCEPT !.tokensPaid = target, !.weekIndex = @ + 1,
                               !.weekBaseTokens = base]
<1>1. ChargeOneWeek(d) = e
  BY DEF ChargeOneWeek
<1>2. Marked(d)
  BY DEF Running
<1>3. d.weekIndex \in Nat /\ d.tokensPerWeek \in Nat /\ d.tokensPaid \in Nat
      /\ d.tokensFinal \in Nat /\ d.tokensPend \in Nat
  BY <1>2 DEF Marked
<1>4. target \in Nat /\ target >= d.tokensPerWeek
      /\ (d.weekIndex + 1 + 1) * d.tokensPerWeek >= target
  BY <1>3, NextWeek
<1>5. target >= d.tokensPaid
  BY DEF Running
<1> HIDE DEF target
<1>6. due \in Int
  BY <1>3, <1>4
<1> HIDE DEF due
<1>7. SameMarks(d, c) /\ Marked(c)
  BY <1>2, <1>6, ChargeMarks
<1>8. base = d.tokensPend
  BY <1>3 DEF Greater, Running
<1> HIDE DEF c, base
<1>9. /\ DOMAIN e = DealFields
      /\ e.alive = d.alive /\ e.opened = d.opened /\ e.funded = d.funded
      /\ e.disputed = d.disputed /\ e.probeAccepted = d.probeAccepted
      /\ e.tokensFinal = d.tokensFinal /\ e.tokensPend = d.tokensPend
      /\ e.lastClaimTime = d.lastClaimTime /\ e.subWeeks = d.subWeeks
      /\ e.tokensPerWeek = d.tokensPerWeek /\ e.fundedTokens = d.fundedTokens
      /\ e.periodStart = d.periodStart /\ e.deposit = c.deposit /\ e.probeTick = c.probeTick
      /\ e.weekIndex = d.weekIndex + 1 /\ e.tokensPaid = target /\ e.weekBaseTokens = base
  BY <1>7 DEF SameMarks, DealFields
<1> HIDE DEF e
<1>10. Marked(e)
  BY <1>2, <1>3, <1>4, <1>7, <1>8, <1>9 DEF Marked
<1>11. Charged(d, e)
  BY <1>2, <1>3, <1>5, <1>8, <1>9 DEF Charged, Marked, Running
<1>12. Running(e)
  BY <1>3, <1>4, <1>8, <1>9, <1>10, PriceAssumption DEF Running
<1> QED
  BY <1>1, <1>9, <1>11, <1>12

\* All weeks that are due.  Four iterations reach every target of the term.
LEMMA ChargeWeeksMarks ==
  ASSUME NEW d, Running(d), NEW target \in Int, target <= SUB_WEEKS
  PROVE  LET e == ChargeWeeksThrough(d, target)
         IN  Running(e) /\ Charged(d, e) /\ e.weekIndex = Greater(d.weekIndex, target)
<1> DEFINE Step(e) == IF e.weekIndex < target THEN ChargeOneWeek(e) ELSE e
<1>1. ASSUME NEW e, Running(e)
      PROVE  /\ Running(Step(e)) /\ Charged(e, Step(e)) /\ Marked(Step(e)) /\ e.weekIndex \in Nat
             /\ Step(e).weekIndex = IF e.weekIndex < target THEN e.weekIndex + 1 ELSE e.weekIndex
  BY <1>1, ChargeOneWeekMarks, ChargedSelf DEF Running, Marked
<1>2. ChargeWeeksThrough(d, target) = Step(Step(Step(Step(d))))
  BY TimeAssumption DEF ChargeWeeksThrough, IsSubscription, Running, Marked
<1> HIDE DEF Step
<1> DEFINE d1 == Step(d)
           d2 == Step(d1)
           d3 == Step(d2)
           d4 == Step(d3)
<1>3. Running(d) /\ Marked(d)
  BY DEF Running
<1>4. Running(d1) /\ Charged(d, d1) /\ Marked(d1)
  BY <1>1
<1>5. Running(d2) /\ Charged(d1, d2) /\ Marked(d2)
  BY <1>1, <1>4
<1>6. Running(d3) /\ Charged(d2, d3) /\ Marked(d3)
  BY <1>1, <1>5
<1>7. Running(d4) /\ Charged(d3, d4) /\ Marked(d4)
  BY <1>1, <1>6
<1>8. /\ d.weekIndex \in Nat
      /\ d1.weekIndex = IF d.weekIndex < target THEN d.weekIndex + 1 ELSE d.weekIndex
      /\ d2.weekIndex = IF d1.weekIndex < target THEN d1.weekIndex + 1 ELSE d1.weekIndex
      /\ d3.weekIndex = IF d2.weekIndex < target THEN d2.weekIndex + 1 ELSE d2.weekIndex
      /\ d4.weekIndex = IF d3.weekIndex < target THEN d3.weekIndex + 1 ELSE d3.weekIndex
  BY <1>1, <1>4, <1>5, <1>6, <1>7
<1> HIDE DEF d1, d2, d3, d4
<1>9. d4.weekIndex = Greater(d.weekIndex, target)
  BY <1>8, TimeAssumption DEF Greater
<1>10. Charged(d, d4)
  BY <1>3, <1>4, <1>5, <1>6, <1>7, ChargedTrans
<1> QED
  BY <1>2, <1>7, <1>9, <1>10 DEF d1, d2, d3, d4
-----------------------------------------------------------------------------
(***************************************************************************)
(* The calls a deal survives: it stays under way, and has moved forward.   *)
(***************************************************************************)
\* Nothing has moved.
LEMMA SinceSelf == ASSUME NEW d, Marked(d) PROVE Since(d, d)
BY DEF Since, Marked

\* Two moves make one.
LEMMA SinceTrans ==
  ASSUME NEW d, NEW e,
         NEW s, Reading(s),
         Marked(d), Marked(e), Since(s, d), Since(d, e)
  PROVE  Since(s, e)
<1> USE DEF Marked, Reading
<1>1. /\ e.tokensFinal >= s.tokensFinal /\ e.tokensPend >= s.tokensPend
      /\ e.lastClaimTime >= s.lastClaimTime /\ e.weekIndex >= s.weekIndex
      /\ e.tokensPaid >= s.tokensPaid /\ e.weekBaseTokens >= s.weekBaseTokens
      /\ e.periodStart >= s.periodStart
  BY DEF Since
<1>2. /\ e.subWeeks = s.subWeeks /\ e.tokensPerWeek = s.tokensPerWeek
      /\ e.fundedTokens = s.fundedTokens
      /\ s.probeAccepted => e.probeAccepted
      /\ s.disputed => e.disputed
  BY DEF Since
<1>3. e.periodStart = s.periodStart \/ (~s.probeAccepted /\ e.probeAccepted)
  BY DEF Since
<1>4. ASSUME s.tokensPend > s.tokensFinal, e.tokensFinal = s.tokensFinal
      PROVE  e.tokensPend = s.tokensPend /\ e.lastClaimTime = s.lastClaimTime
  <2>1. d.tokensFinal = s.tokensFinal
    BY <1>4 DEF Since
  <2>2. d.tokensPend = s.tokensPend /\ d.lastClaimTime = s.lastClaimTime
    BY <1>4, <2>1 DEF Since
  <2> QED
    BY <1>4, <2>1, <2>2 DEF Since
<1>5. ASSUME s.probeAccepted, s.weekIndex >= s.subWeeks
      PROVE  e.tokensPend = s.tokensPend /\ e.lastClaimTime = s.lastClaimTime
  <2>1. d.probeAccepted /\ d.weekIndex >= d.subWeeks
    BY <1>5, TimeAssumption DEF Since
  <2>2. d.tokensPend = s.tokensPend /\ d.lastClaimTime = s.lastClaimTime
    BY <1>5 DEF Since
  <2> QED
    BY <2>1, <2>2 DEF Since
<1> QED
  BY <1>1, <1>2, <1>3, <1>4, <1>5 DEF Since

\* How many weeks have ended, of a deal under way.
LEMMA ElapsedWeeks ==
  ASSUME NEW t \in Nat, NEW d, UnderWay(d, t)
  PROVE  LET w == WeeksElapsedAt(d, t)
         IN  /\ w \in Nat /\ w <= SUB_WEEKS /\ w <= FullWeeks(d, t)
             /\ d.probeAccepted => d.weekIndex <= w
<1>1. d.periodStart \in Nat /\ d.subWeeks = SUB_WEEKS /\ t - d.periodStart \in Nat
      /\ d.weekIndex \in Nat
  BY DEF UnderWay, Marked
<1>2. FullWeeks(d, t) \in Nat
  BY <1>1, DivNat DEF FullWeeks
<1>3. WeeksElapsedAt(d, t) = Lesser(FullWeeks(d, t), SUB_WEEKS)
  BY <1>1 DEF WeeksElapsedAt, FullWeeks
<1> QED
  BY <1>1, <1>2, <1>3, TimeAssumption DEF Lesser, UnderWay

\* Due weeks are charged: the deal is where its clock is.
LEMMA SettleBoundariesMoves ==
  ASSUME NEW t \in Nat, NEW d, UnderWay(d, t), d.probeAccepted
  PROVE  LET e == SettleBoundaries(d, WeeksElapsedAt(d, t))
         IN  /\ UnderWay(e, t) /\ Charged(d, e)
             /\ e.weekIndex = WeeksElapsedAt(d, t)
<1> DEFINE due == WeeksElapsedAt(d, t)
           c   == ChargeWeeksThrough(d, due)
           r   == ReportFinalized(RecordDelivered(c))
           e   == SettleBoundaries(d, due)
<1>1. due \in Nat /\ due <= SUB_WEEKS /\ due <= FullWeeks(d, t) /\ d.weekIndex <= due
  BY ElapsedWeeks
<1>2. Running(d) /\ Marked(d) /\ d.weekIndex \in Nat
  BY DEF Running, UnderWay, Marked
<1> HIDE DEF due
<1>3. CASE due <= d.weekIndex
  <2>1. e = d
    BY <1>3 DEF SettleBoundaries
  <2> QED
    BY <2>1, <1>1, <1>2, <1>3, ChargedSelf DEF due
<1>4. CASE ~(due <= d.weekIndex)
  <2>1. e = r
    BY <1>4 DEF SettleBoundaries
  <2>2. Running(c) /\ Charged(d, c) /\ c.weekIndex = Greater(d.weekIndex, due)
    BY <1>1, <1>2, ChargeWeeksMarks
  <2>3. c.weekIndex = due
    BY <1>1, <1>2, <2>2 DEF Greater
  <2> HIDE DEF c
  <2>4. SameMarks(c, r) /\ Marked(r)
    BY <2>2, RecordMarks DEF Running
  <2> HIDE DEF r
  <2>5. Charged(d, r) /\ r.weekIndex = due
    BY <2>2, <2>3, <2>4 DEF Charged, SameMarks
  <2>6. Running(r)
    BY <2>2, <2>4 DEF Running, SameMarks
  <2>7. FullWeeks(r, t) = FullWeeks(d, t)
    BY <2>5 DEF Charged, FullWeeks
  <2>8. UnderWay(r, t)
    <3>1. /\ Marked(r) /\ r.alive = TRUE /\ r.opened /\ r.funded /\ r.probeAccepted
          /\ r.tokensPerWeek >= TICK_SIZE /\ r.fundedTokens >= TICK_SIZE
          /\ 1 <= r.periodStart /\ r.periodStart <= t
          /\ 1 <= r.lastClaimTime /\ r.lastClaimTime <= t
          /\ r.tokensPend <= r.fundedTokens /\ r.tokensFinal >= TICK_SIZE
      BY <2>4, <2>5 DEF UnderWay, Charged
    <3>2. r.tokensPend <= r.weekBaseTokens + r.tokensPerWeek
      BY <1>2, <2>4, <2>5 DEF UnderWay, Charged, Marked
    <3> QED
      BY <3>1, <3>2, <2>5, <2>6, <2>7, <1>1 DEF UnderWay, Running
  <2> QED
    BY <2>1, <2>5, <2>8 DEF due
<1> QED
  BY <1>3, <1>4

\* Charging weeks is moving forward.
LEMMA ChargedSince == ASSUME NEW d, NEW e, Marked(d), Charged(d, e) PROVE Since(d, e)
BY DEF Charged, Since, Marked

\* A claim that has stood its window becomes trusted.
LEMMA PromoteDueMoves ==
  ASSUME NEW t \in Nat, NEW d, UnderWay(d, t)
  PROVE  LET e == PromoteDue(d, t)
         IN  /\ UnderWay(e, t) /\ Since(d, e)
             /\ e.weekIndex = d.weekIndex /\ e.lastClaimTime = d.lastClaimTime
             /\ e.tokensPend = d.tokensPend /\ e.periodStart = d.periodStart
             /\ e.probeAccepted = d.probeAccepted /\ e.tokensPerWeek = d.tokensPerWeek
             /\ e.disputed = d.disputed
             /\ WindowPassed(d, t) => e.tokensFinal = d.tokensPend
             /\ ~WindowPassed(d, t) => e.tokensFinal = d.tokensFinal
<1>1. Marked(d) /\ d.tokensFinal \in Nat /\ d.tokensPend \in Nat /\ d.tokensFinal <= d.tokensPend
  BY DEF UnderWay, Marked
<1>2. CASE ~WindowPassed(d, t)
  BY <1>1, <1>2, SinceSelf DEF PromoteDue
<1>3. CASE WindowPassed(d, t)
  <2> DEFINE e == [d EXCEPT !.tokensFinal = d.tokensPend]
  <2>1. PromoteDue(d, t) = e
    BY <1>1, <1>3 DEF PromoteDue, Promote, Greater
  <2>2. /\ DOMAIN e = DealFields
        /\ e.alive = d.alive /\ e.opened = d.opened /\ e.funded = d.funded
        /\ e.disputed = d.disputed /\ e.probeAccepted = d.probeAccepted
        /\ e.tokensFinal = d.tokensPend /\ e.tokensPend = d.tokensPend
        /\ e.lastClaimTime = d.lastClaimTime /\ e.subWeeks = d.subWeeks
        /\ e.tokensPerWeek = d.tokensPerWeek /\ e.fundedTokens = d.fundedTokens
        /\ e.periodStart = d.periodStart /\ e.deposit = d.deposit /\ e.probeTick = d.probeTick
        /\ e.weekIndex = d.weekIndex /\ e.tokensPaid = d.tokensPaid
        /\ e.weekBaseTokens = d.weekBaseTokens
    BY <1>1 DEF Marked, DealFields
  <2> HIDE DEF e
  <2>3. Marked(e)
    BY <1>1, <2>2 DEF Marked
  <2>4. Since(d, e)
    BY <1>1, <2>2 DEF Since, Marked
  <2>5. FullWeeks(e, t) = FullWeeks(d, t)
    BY <2>2 DEF FullWeeks
  <2>6. UnderWay(e, t)
    BY <1>1, <2>2, <2>3, <2>5, PriceAssumption DEF UnderWay
  <2> QED
    BY <1>3, <2>1, <2>2, <2>4, <2>6
<1> QED
  BY <1>2, <1>3

\* Finalize promotes: a subscription closes by its weeks only.
LEMMA FinalizeMoves ==
  ASSUME NEW t \in Nat, NEW d, UnderWay(d, t)
  PROVE  FinalizeEffect(d, t) = PromoteDue(d, t)
<1>1. UnderWay(PromoteDue(d, t), t)
  BY PromoteDueMoves
<1>2. IsSubscription(PromoteDue(d, t))
  BY <1>1, TimeAssumption DEF IsSubscription, UnderWay, Marked
<1> QED
  BY <1>2 DEF FinalizeEffect

\* The accepted probe starts the term.
LEMMA AcceptProbeMoves ==
  ASSUME NEW t \in Nat, NEW d, UnderWay(d, t), ~d.probeAccepted
  PROVE  LET e == AcceptProbeEffect(d, t) IN UnderWay(e, t) /\ Since(d, e)
<1> DEFINE fee == Lesser(Fee(P), d.deposit)
           e   == AcceptProbeEffect(d, t)
<1>1. Marked(d) /\ d.deposit \in Int /\ DOMAIN d = DealFields
  BY DEF UnderWay, Marked
<1>2. fee \in Int
  BY <1>1, PriceInt, PriceAssumption DEF Lesser
<1>3. e = [d EXCEPT !.finalizedOwed = @ + d.probeTick, !.feeAccrued = @ + fee,
                    !.deposit = @ - fee, !.probeTick = 0, !.probeAccepted = TRUE,
                    !.periodStart = t, !.tokensPaid = TICK_SIZE,
                    !.tokensFinal = TICK_SIZE, !.tokensPend = TICK_SIZE,
                    !.weekBaseTokens = 0, !.ticksFinalized = 1, !.lastClaimTime = t]
  BY DEF AcceptProbeEffect
<1> HIDE DEF fee, e
<1>4. /\ DOMAIN e = DealFields
      /\ e.alive = d.alive /\ e.opened = d.opened /\ e.funded = d.funded
      /\ e.disputed = d.disputed /\ e.probeAccepted = TRUE
      /\ e.tokensFinal = TICK_SIZE /\ e.tokensPend = TICK_SIZE
      /\ e.lastClaimTime = t /\ e.subWeeks = d.subWeeks
      /\ e.tokensPerWeek = d.tokensPerWeek /\ e.fundedTokens = d.fundedTokens
      /\ e.periodStart = t /\ e.deposit = d.deposit - fee /\ e.probeTick = 0
      /\ e.weekIndex = d.weekIndex /\ e.tokensPaid = TICK_SIZE
      /\ e.weekBaseTokens = 0
  BY <1>1, <1>3 DEF DealFields
<1>5. Marked(e)
  <2>1. e.deposit \in Int /\ e.probeTick \in Int
    BY <1>1, <1>2, <1>4
  <2>2. e.tokensFinal \in Nat /\ e.tokensPend \in Nat /\ e.tokensPaid \in Nat
    BY <1>4, PriceAssumption
  <2>3. e.weekBaseTokens \in Nat /\ e.periodStart \in Nat /\ e.lastClaimTime \in Nat
    BY <1>4
  <2> QED
    BY <2>1, <2>2, <2>3, <1>1, <1>4 DEF Marked
<1>6. Since(d, e)
  BY <1>1, <1>4, PriceAssumption, TimeAssumption DEF Since, UnderWay, Marked
<1>7. d.weekIndex = 0 /\ FullWeeks(e, t) \in Nat
  <2>1. t - e.periodStart \in Nat
    BY <1>4
  <2> QED
    BY <2>1, DivNat DEF FullWeeks, UnderWay
<1>8. e.tokensPaid <= (e.weekIndex + 1) * e.tokensPerWeek
  BY <1>1, <1>4, <1>7, PriceAssumption DEF UnderWay, Marked
<1>9. 1 <= t
  BY <1>1 DEF UnderWay, Marked
<1>10. UnderWay(e, t)
  BY <1>1, <1>4, <1>5, <1>7, <1>8, <1>9, PriceAssumption, TimeAssumption DEF UnderWay, Marked
<1> QED
  BY <1>6, <1>10 DEF e

\* A claim: due weeks, then the old claim is trusted, then the new one pends.
LEMMA ClaimTokensMoves ==
  ASSUME NEW t \in Nat, NEW d, UnderWay(d, t), d.probeAccepted, NEW cumulative \in Nat,
         cumulative > d.tokensPend,
         cumulative <= ClaimCap(SettleBoundaries(d, WeeksElapsedAt(d, t))),
         BeforeClaim(d, t).tokensPend = BeforeClaim(d, t).tokensFinal
  PROVE  LET e == ClaimTokensEffect(d, t, cumulative) IN UnderWay(e, t) /\ Since(d, e)
<1> DEFINE s == SettleBoundaries(d, WeeksElapsedAt(d, t))
           b == BeforeClaim(d, t)
           e == ClaimTokensEffect(d, t, cumulative)
<1>1. Marked(d)
  BY DEF UnderWay
<1>2. UnderWay(s, t) /\ Charged(d, s)
  BY SettleBoundariesMoves
<1>3. b = PromoteDue(s, t) /\ e = [b EXCEPT !.tokensPend = cumulative, !.lastClaimTime = t]
  BY DEF BeforeClaim, ClaimTokensEffect
<1>4. cumulative <= ClaimCap(s) /\ b.tokensPend = b.tokensFinal
  OBVIOUS
<1> HIDE DEF s, b, e
<1>5. UnderWay(b, t) /\ Since(s, b) /\ b.tokensPend = s.tokensPend /\ b.periodStart = s.periodStart
      /\ b.probeAccepted = s.probeAccepted
  BY <1>2, <1>3, PromoteDueMoves
<1>6. Marked(s) /\ Marked(b)
  BY <1>2, <1>5 DEF UnderWay
<1>7. Since(d, b)
  <2>1. Since(d, s)
    BY <1>1, <1>2, ChargedSince
  <2>2. Reading(d)
    BY <1>1 DEF Marked, Reading
  <2> QED
    BY <2>1, <2>2, <1>5, <1>6, SinceTrans
<1>8. s.tokensPend = d.tokensPend /\ b.tokensFinal = d.tokensPend /\ s.probeAccepted = d.probeAccepted
  BY <1>2, <1>4, <1>5 DEF Charged
<1>9. /\ d.weekIndex < d.subWeeks /\ cumulative <= s.fundedTokens
      /\ cumulative <= s.weekBaseTokens + s.tokensPerWeek
  <2>1. s.subWeeks = d.subWeeks /\ s.weekIndex >= d.weekIndex /\ IsSubscription(s)
    BY <1>2, <1>6, TimeAssumption DEF Charged, IsSubscription, Marked
  <2>2. CASE s.weekIndex >= s.subWeeks
    <3>1. ClaimCap(s) = s.tokensPend
      BY <2>1, <2>2 DEF ClaimCap
    <3> QED
      BY <3>1, <1>1, <1>4, <1>8 DEF Marked
  <2>3. CASE ~(s.weekIndex >= s.subWeeks)
    <3>1. ClaimCap(s) = Lesser(s.weekBaseTokens + s.tokensPerWeek, s.fundedTokens)
      BY <2>1, <2>3 DEF ClaimCap
    <3>2. cumulative <= s.fundedTokens /\ cumulative <= s.weekBaseTokens + s.tokensPerWeek
      BY <3>1, <1>4, <1>6 DEF Lesser, Marked
    <3> QED
      BY <3>2, <2>1, <2>3, <1>1, <1>6, TimeAssumption DEF Marked
  <2> QED
    BY <2>2, <2>3
<1>10. /\ DOMAIN e = DealFields
       /\ e.alive = b.alive /\ e.opened = b.opened /\ e.funded = b.funded
       /\ e.disputed = b.disputed /\ e.probeAccepted = b.probeAccepted
       /\ e.tokensFinal = b.tokensFinal /\ e.tokensPend = cumulative
       /\ e.lastClaimTime = t /\ e.subWeeks = b.subWeeks
       /\ e.tokensPerWeek = b.tokensPerWeek /\ e.fundedTokens = b.fundedTokens
       /\ e.periodStart = b.periodStart /\ e.deposit = b.deposit /\ e.probeTick = b.probeTick
       /\ e.weekIndex = b.weekIndex /\ e.tokensPaid = b.tokensPaid
       /\ e.weekBaseTokens = b.weekBaseTokens
  BY <1>3, <1>6 DEF Marked, DealFields
<1>11. Marked(e)
  BY <1>6, <1>10 DEF Marked
<1>12. FullWeeks(e, t) = FullWeeks(b, t)
  BY <1>10 DEF FullWeeks
<1>13. b.fundedTokens = s.fundedTokens
  BY <1>5 DEF Since
<1>14. UnderWay(e, t)
  <2>1. /\ e.alive = TRUE /\ e.opened /\ e.funded /\ e.probeAccepted
        /\ e.tokensPerWeek >= TICK_SIZE /\ e.fundedTokens >= TICK_SIZE
        /\ 1 <= e.periodStart /\ e.periodStart <= t /\ e.weekIndex <= SUB_WEEKS
        /\ e.tokensFinal >= TICK_SIZE /\ e.tokensPaid >= TICK_SIZE
        /\ e.tokensPaid <= (e.weekIndex + 1) * e.tokensPerWeek
        /\ e.weekIndex <= FullWeeks(e, t)
    BY <1>5, <1>8, <1>10, <1>12 DEF UnderWay
  <2>2. 1 <= e.lastClaimTime /\ e.lastClaimTime <= t
    BY <1>10, <1>1 DEF UnderWay, Marked
  <2>3. /\ e.tokensFinal <= e.tokensPend /\ e.tokensPend <= e.fundedTokens
        /\ e.weekBaseTokens <= e.tokensPend
    BY <1>1, <1>4, <1>5, <1>6, <1>8, <1>9, <1>10, <1>13 DEF UnderWay, Marked
  <2>4. e.tokensPend <= e.weekBaseTokens + e.tokensPerWeek
    BY <1>5, <1>6, <1>9, <1>10 DEF Since, Marked
  <2> QED
    BY <2>1, <2>2, <2>3, <2>4, <1>11 DEF UnderWay
<1>15. Since(d, e)
  <2>1. /\ e.tokensFinal >= d.tokensFinal /\ e.tokensPend >= d.tokensPend
        /\ e.lastClaimTime >= d.lastClaimTime /\ e.weekIndex >= d.weekIndex
        /\ e.tokensPaid >= d.tokensPaid /\ e.weekBaseTokens >= d.weekBaseTokens
        /\ e.periodStart >= d.periodStart
    BY <1>1, <1>7, <1>10 DEF Since, UnderWay, Marked
  <2>2. /\ e.subWeeks = d.subWeeks /\ e.tokensPerWeek = d.tokensPerWeek
        /\ e.fundedTokens = d.fundedTokens
        /\ d.probeAccepted => e.probeAccepted
        /\ e.periodStart = d.periodStart \/ (~d.probeAccepted /\ e.probeAccepted)
        /\ d.disputed => e.disputed
    BY <1>7, <1>10 DEF Since
  <2>3. ~(d.tokensPend > d.tokensFinal /\ e.tokensFinal = d.tokensFinal)
    BY <1>1, <1>8, <1>10 DEF Marked
  <2>4. ~(d.weekIndex >= d.subWeeks)
    BY <1>1, <1>9, TimeAssumption DEF Marked
  <2> QED
    BY <2>1, <2>2, <2>3, <2>4 DEF Since
<1> QED
  BY <1>14, <1>15 DEF e

\* A dispute freezes the marks.
LEMMA DisputeMoves ==
  ASSUME NEW t \in Nat, NEW d, UnderWay(d, t)
  PROVE  LET e == DisputeEffect(d, t) IN UnderWay(e, t) /\ Since(d, e)
<1> DEFINE e == DisputeEffect(d, t)
<1>1. Marked(d)
  BY DEF UnderWay
<1>2. e = [d EXCEPT !.disputed = TRUE, !.everDisputed = TRUE, !.disputeTime = t]
  BY DEF DisputeEffect
<1> HIDE DEF e
<1>3. /\ DOMAIN e = DealFields
      /\ e.alive = d.alive /\ e.opened = d.opened /\ e.funded = d.funded
      /\ e.disputed = TRUE /\ e.probeAccepted = d.probeAccepted
      /\ e.tokensFinal = d.tokensFinal /\ e.tokensPend = d.tokensPend
      /\ e.lastClaimTime = d.lastClaimTime /\ e.subWeeks = d.subWeeks
      /\ e.tokensPerWeek = d.tokensPerWeek /\ e.fundedTokens = d.fundedTokens
      /\ e.periodStart = d.periodStart /\ e.deposit = d.deposit /\ e.probeTick = d.probeTick
      /\ e.weekIndex = d.weekIndex /\ e.tokensPaid = d.tokensPaid
      /\ e.weekBaseTokens = d.weekBaseTokens
  BY <1>1, <1>2 DEF Marked, DealFields
<1>4. Marked(e)
  BY <1>1, <1>3 DEF Marked
<1>5. FullWeeks(e, t) = FullWeeks(d, t)
  BY <1>3 DEF FullWeeks
<1>6. UnderWay(e, t)
  BY <1>3, <1>4, <1>5 DEF UnderWay
<1>7. Since(d, e)
  BY <1>1, <1>3 DEF Since, Marked
<1> QED
  BY <1>6, <1>7 DEF e

\* Time passes over a deal under way.
LEMMA TimePasses ==
  ASSUME NEW t \in Nat, NEW d, UnderWay(d, t)
  PROVE  UnderWay(d, t + 1)
<1>1. d.periodStart \in Nat /\ d.lastClaimTime \in Nat /\ d.weekIndex \in Nat
  BY DEF UnderWay, Marked
<1>2. FullWeeks(d, t) \in Int /\ FullWeeks(d, t + 1) \in Int /\ FullWeeks(d, t) <= FullWeeks(d, t + 1)
  BY <1>1, DivMonotone, DivInt DEF FullWeeks
<1> QED
  BY <1>1, <1>2 DEF UnderWay
\* settleWeek charges what is due, and closes the deal when the term is over and
\* the last claim has stood its window.
LEMMA SettleWeekMoves ==
  ASSUME NEW t \in Nat, NEW d, UnderWay(d, t), d.probeAccepted
  PROVE  LET e == SettleWeekEffect(d, t)
         IN  \/ Closed(d, e)
             \/ /\ UnderWay(e, t) /\ Charged(d, e) /\ e.weekIndex = WeeksElapsedAt(d, t)
                /\ ~(d.weekIndex >= d.subWeeks /\ WindowPassed(d, t))
<1> DEFINE s == SettleBoundaries(d, WeeksElapsedAt(d, t))
           p == PromoteDue(s, t)
<1>1. UnderWay(s, t) /\ Charged(d, s) /\ s.weekIndex = WeeksElapsedAt(d, t)
  BY SettleBoundariesMoves
<1>2. SettleWeekEffect(d, t) = IF s.weekIndex >= s.subWeeks /\ WindowPassed(s, t)
                               THEN PayFinalAndClose(p) ELSE s
  BY DEF SettleWeekEffect
<1>3. SameTerm(d, s)
  BY <1>1 DEF Charged, SameTerm
<1> HIDE DEF s
<1>4. SameTerm(s, p)
  BY <1>3, PromoteTerm, TermFields
<1> HIDE DEF p
<1>5. Closed(d, PayFinalAndClose(p))
  BY <1>3, <1>4, PayFinalAndCloseCloses, SameTermTrans DEF Closed, SameTerm
<1>6. CASE s.weekIndex >= s.subWeeks /\ WindowPassed(s, t)
  BY <1>2, <1>5, <1>6
<1>7. CASE ~(s.weekIndex >= s.subWeeks /\ WindowPassed(s, t))
  <2>1. SettleWeekEffect(d, t) = s
    BY <1>2, <1>7
  <2>2. s.subWeeks = d.subWeeks /\ s.weekIndex >= d.weekIndex /\ s.lastClaimTime = d.lastClaimTime
    BY <1>1 DEF Charged
  <2>3. s.weekIndex \in Nat /\ d.weekIndex \in Nat /\ d.subWeeks \in Nat
    BY <1>1, TimeAssumption DEF UnderWay, Marked
  <2>4. ~(d.weekIndex >= d.subWeeks /\ WindowPassed(d, t))
    BY <1>7, <2>2, <2>3 DEF WindowPassed
  <2> QED
    BY <1>1, <2>1, <2>4
<1> QED
  BY <1>6, <1>7
-----------------------------------------------------------------------------
(***************************************************************************)
(* The deal under the keeper: each call closes it or moves it forward.     *)
(***************************************************************************)
\* finalize, by anybody.
LEMMA FinalizeMoved == ASSUME DealSound, Finalize PROVE Moved
<1>1. deal.alive /\ UnderWay(deal, now) /\ now \in Nat
  BY DEF DealSound, Finalize, Call
<1>2. deal' = PromoteDue(deal, now) /\ now' = now
  BY <1>1, FinalizeMoves DEF Finalize, Call
<1> QED
  BY <1>1, <1>2, PromoteDueMoves DEF Moved

\* settleWeek, by anybody.
LEMMA SettleWeekMoved == ASSUME DealSound, SettleWeek PROVE Moved
<1>1. deal.alive /\ UnderWay(deal, now) /\ now \in Nat /\ deal.probeAccepted
  BY DEF DealSound, SettleWeek, SettleWeekReady, Call
<1>2. deal' = SettleWeekEffect(deal, now) /\ now' = now
  BY DEF SettleWeek, Call
<1>3. Closed(deal, deal') \/ (UnderWay(deal', now) /\ Charged(deal, deal'))
  BY <1>1, <1>2, SettleWeekMoves
<1> QED
  BY <1>1, <1>2, <1>3, ChargedSince DEF Moved, UnderWay

\* The buyer, the claim driver, anyone.
LEMMA OthersMoved == ASSUME DealSound, Others PROVE Moved /\ deal.alive /\ keeper' = keeper
<1>1. deal.alive => UnderWay(deal, now) /\ DOMAIN deal = DealFields
  BY DEF DealSound
<1>2. now \in Nat
  BY DEF DealSound
<1>3. CASE AcceptProbe
  <2>1. deal.alive /\ ~deal.probeAccepted /\ deal' = AcceptProbeEffect(deal, now) /\ now' = now
    BY <1>3 DEF AcceptProbe, Call
  <2> QED
    BY <2>1, <1>1, <1>2, AcceptProbeMoves DEF Moved, Others
<1>4. ASSUME NEW cumulative \in 0..MaxTicks * TICK_SIZE, ClaimTokens(cumulative)
      PROVE  Moved /\ deal.alive
  <2>1. /\ deal.alive /\ deal.probeAccepted /\ cumulative > deal.tokensPend
        /\ cumulative <= ClaimCap(SettleBoundaries(deal, WeeksElapsedAt(deal, now)))
        /\ BeforeClaim(deal, now).tokensPend = BeforeClaim(deal, now).tokensFinal
        /\ deal' = ClaimTokensEffect(deal, now, cumulative) /\ now' = now
    BY <1>4 DEF ClaimTokens, Call
  <2>2. cumulative \in Nat
    BY PriceAssumption
  <2> QED
    BY <2>1, <2>2, <1>1, <1>2, ClaimTokensMoves DEF Moved
<1>5. CASE Stop \/ SellerStop \/ ReleaseDispute \/ ResolveDisputeTimeout
  <2>1. /\ deal.alive /\ now' = now
        /\ \/ deal' = StopEffect(deal, now) \/ deal' = SellerStopEffect(deal, now)
           \/ deal' = ReleaseDisputeEffect(deal) \/ deal' = ResolveDisputeTimeoutEffect(deal)
    BY <1>5 DEF Stop, SellerStop, ReleaseDispute, ResolveDisputeTimeout, Call
  <2>2. Closed(deal, deal')
    BY <2>1, <1>1, StopCloses, SellerStopCloses, DisputeEndCloses
  <2> QED
    BY <2>1, <2>2 DEF Moved, Others
<1>6. CASE Dispute
  <2>1. deal.alive /\ deal' = DisputeEffect(deal, now) /\ now' = now
    BY <1>6 DEF Dispute, Call
  <2> QED
    BY <2>1, <1>1, <1>2, DisputeMoves DEF Moved, Others
<1>7. CASE Finalize
  BY <1>7, FinalizeMoved DEF Others, Finalize, Call
<1>8. CASE SettleWeek
  BY <1>8, SettleWeekMoved DEF Others, SettleWeek, Call
<1> QED
  BY <1>3, <1>4, <1>5, <1>6, <1>7, <1>8 DEF Others

\* After any of these calls the deal is as the keeper may find it.
LEMMA MovedSound == ASSUME DealSound, deal.alive, Moved PROVE DealSound'
<1>1. CASE Closed(deal, deal')
  BY <1>1 DEF DealSound, Moved, Closed, SameTerm
<1>2. CASE UnderWay(deal', now)
  <2>1. DealSound' <=> /\ now' \in Nat
                       /\ DOMAIN deal' = DealFields /\ deal'.alive \in BOOLEAN
                       /\ deal'.periodStart \in Nat /\ deal'.subWeeks = SUB_WEEKS
                       /\ deal'.periodStart <= now'
                       /\ deal'.alive => UnderWay(deal', now')
    BY DEF DealSound
  <2>2. now' = now /\ now \in Nat
    BY DEF Moved, DealSound
  <2>3. /\ DOMAIN deal' = DealFields /\ deal'.alive \in BOOLEAN
        /\ deal'.periodStart \in Nat /\ deal'.subWeeks = SUB_WEEKS
        /\ deal'.periodStart <= now
    BY <1>2 DEF UnderWay, Marked
  <2> QED
    BY <1>2, <2>1, <2>2, <2>3
<1> QED
  BY <1>1, <1>2 DEF Moved

\* A call by anybody: what the task has read is still older.
LEMMA MovedTask ==
  ASSUME KeeperInv, deal.alive, Moved,
         DOMAIN keeper' = DOMAIN keeper,
         \A f \in {"pc", "skew", "clock", "last", "plan"} : keeper'[f] = keeper[f],
         \/ keeper'.call = keeper.call
         \/ /\ keeper.pc = "reconcile" /\ keeper'.call = "landed"
            /\ deal'.alive => deal'.disputed \/ ~NotAhead \/ Progress(keeper.plan, keeper.last, deal')
  PROVE  KeeperInv'
<1>1. /\ keeper'.pc = keeper.pc /\ keeper'.skew = keeper.skew /\ keeper'.clock = keeper.clock
      /\ keeper'.last = keeper.last /\ keeper'.plan = keeper.plan
  OBVIOUS
<1>2. /\ DealSound /\ TaskTyped /\ ReadEarlier /\ ReadSound /\ CallFits
      /\ DoneMeansClosed /\ now' = now
  BY DEF KeeperInv, Moved
<1>3. DealSound'
  BY <1>2, MovedSound
<1>4. TaskTyped'
  BY <1>1, <1>2 DEF TaskTyped, NotAhead
<1>5. ReadSound'
  BY <1>1, <1>2 DEF ReadSound
<1>6. deal'.alive => /\ Since(deal, deal') /\ Marked(deal) /\ Marked(deal')
                     /\ deal.probeAccepted \in BOOLEAN /\ deal'.probeAccepted \in BOOLEAN
  BY <1>2 DEF Moved, Closed, DealSound, UnderWay, Marked
<1>7. ReadEarlier'
  <2>1. keeper'.pc \in {"reread", "send", "reconcile"} => keeper'.last # NoSnapshot
    BY <1>1, <1>2 DEF ReadEarlier
  <2>2. ASSUME deal'.alive, keeper.last # NoSnapshot
        PROVE  Since(keeper.last, deal')
    <3>1. Reading(keeper.last) /\ Since(keeper.last, deal)
      BY <1>2, <2>2 DEF ReadSound, ReadEarlier
    <3> QED
      BY <3>1, <2>2, <1>6, SinceTrans
  <2> QED
    BY <1>1, <2>1, <2>2 DEF ReadEarlier
<1>8. CallFits'
  <2>1. keeper.pc \in {"send", "reconcile"} => PlanFits(keeper.plan, keeper.last, keeper.clock)
    BY <1>2 DEF CallFits
  <2>2. PlanFits(keeper.plan, keeper.last, keeper.clock)' <=> PlanFits(keeper.plan, keeper.last, keeper.clock)
    BY <1>1 DEF PlanFits, PromoteDeadline, NextWeekBoundary, ScheduledWeekTarget, Lesser
  <2>3. keeper.pc = "reconcile" => keeper'.call \in {"sent", "landed", "lost"}
    BY <1>2 DEF CallFits
  <2>4. ASSUME keeper.pc = "reconcile", keeper'.call = "landed", deal'.alive
        PROVE  deal'.disputed \/ ~NotAhead \/ Progress(keeper.plan, keeper.last, deal')
    <3>1. CASE keeper.call = "landed"
      <4>1. deal.disputed \/ ~NotAhead \/ Progress(keeper.plan, keeper.last, deal)
        BY <1>2, <2>4, <3>1 DEF CallFits
      <4>2. deal.disputed => deal'.disputed
        BY <1>6, <2>4 DEF Since
      <4>3. keeper.last # NoSnapshot /\ Reading(keeper.last)
        BY <1>2, <2>4 DEF ReadEarlier, ReadSound
      <4>4. Progress(keeper.plan, keeper.last, deal) => Progress(keeper.plan, keeper.last, deal')
        <5>1. CASE keeper.plan.does = "finalize"
          BY <5>1, <4>3, <1>6, <2>4 DEF Progress, Since, Marked, Reading
        <5>2. CASE keeper.plan.does # "finalize"
          <6>1. PlanFits(keeper.plan, keeper.last, keeper.clock)
            BY <2>1, <2>4
          <6>2. keeper.last.weekIndex < keeper.last.subWeeks =>
                  keeper.plan.target = ScheduledWeekTarget(keeper.last, keeper.clock)
            BY <6>1, <5>2, <4>3, TimeAssumption DEF PlanFits, Reading
          <6>3. ScheduledWeekTarget(keeper.last, keeper.clock) \in Int
            <7>1. keeper.clock - keeper.last.periodStart \in Int
              BY <1>2, <4>3 DEF TaskTyped, Reading
            <7> QED
              BY <7>1, <4>3, DivInt, TimeAssumption DEF ScheduledWeekTarget, Lesser, Reading
          <6> QED
            BY <6>2, <6>3, <5>2, <4>3, <1>6, <2>4 DEF Progress, Since, Marked
        <5> QED
          BY <5>1, <5>2
      <4> QED
        BY <4>1, <4>2, <4>4
    <3>2. CASE keeper.call # "landed"
      BY <2>4, <3>2
    <3> QED
      BY <3>1, <3>2
  <2>5. Progress(keeper.plan, keeper.last, deal)' <=> Progress(keeper.plan, keeper.last, deal')
    BY <1>1 DEF Progress
  <2> QED
    BY <1>1, <2>1, <2>2, <2>3, <2>4, <2>5 DEF CallFits, NotAhead
<1>10. DoneMeansClosed'
  BY <1>1, <1>2 DEF DoneMeansClosed
<1> QED
  BY <1>3, <1>4, <1>5, <1>7, <1>8, <1>10 DEF KeeperInv
-----------------------------------------------------------------------------
(***************************************************************************)
(* Reading the deal and planning from it.                                  *)
(***************************************************************************)
\* A read tells whether the deal is there, and how it stands.
LEMMA SnapshotTells ==
  ASSUME DealSound
  PROVE  /\ ~deal.alive => DealSnapshot = NoSnapshot
         /\ deal.alive => DealSnapshot # NoSnapshot /\ SameReading(DealSnapshot, deal)
<1>1. ~deal.alive => DealSnapshot = NoSnapshot
  BY DEF DealSnapshot
<1>2. ASSUME deal.alive
      PROVE  DealSnapshot # NoSnapshot /\ SameReading(DealSnapshot, deal)
  <2>1. DealSnapshot = [f \in SnapshotFields |-> deal[f]]
    BY <1>2 DEF DealSnapshot
  <2>2. Marked(deal)
    BY <1>2 DEF DealSound, UnderWay
  <2>3. \A f \in SnapshotFields : deal[f] \in Int \cup BOOLEAN
    BY <2>2, TimeAssumption DEF Marked, SnapshotFields
  <2>4. DealSnapshot \in [SnapshotFields -> Int \cup BOOLEAN]
    BY <2>1, <2>3
  <2>5. SameReading(DealSnapshot, deal)
    BY <2>1 DEF SameReading, SnapshotFields
  <2> QED
    BY <2>4, <2>5, SnapshotAssumption
<1> QED
  BY <1>1, <1>2

\* Every state of a deal under way is valid and later than what was read.
LEMMA SnapshotAccepted ==
  ASSUME DealSound, ReadEarlier, ReadSound, deal.alive
  PROVE  LET s == DealSnapshot
         IN  /\ Acceptable(s) /\ ~IsStopped(s) /\ Reading(s) /\ Since(s, deal)
             /\ s.opened /\ s # NoSnapshot /\ SameReading(s, deal)
             /\ Servable(s) \/ deal.disputed
<1> DEFINE s == DealSnapshot
<1>1. s # NoSnapshot /\ SameReading(s, deal)
  BY SnapshotTells
<1>2. UnderWay(deal, now) /\ Marked(deal)
  BY DEF DealSound, UnderWay
<1> HIDE DEF s
<1>3. s.opened /\ ~IsStopped(s)
  BY <1>1, <1>2 DEF SameReading, UnderWay, IsStopped
<1>4. Reading(s)
  BY <1>1, <1>2 DEF SameReading, Marked, Reading
<1>5. Since(s, deal)
  BY <1>1, <1>2 DEF SameReading, Marked, Since
<1>6. ValidSnapshot(s)
  BY <1>1, <1>2, TimeAssumption DEF SameReading, UnderWay, Marked, ValidSnapshot
<1>7. ASSUME keeper.last # NoSnapshot
      PROVE  NonRegressing(keeper.last, s)
  <2>1. Since(keeper.last, deal) /\ Reading(keeper.last)
    BY <1>7 DEF ReadEarlier, ReadSound
  <2> QED
    BY <2>1, <1>1 DEF Since, SameReading, NonRegressing
<1>8. Acceptable(s)
  BY <1>6, <1>7 DEF Acceptable
<1>9. Servable(s) \/ deal.disputed
  BY <1>1, <1>2, PriceAssumption, TimeAssumption
     DEF SameReading, UnderWay, Marked, Servable, ClaimCap, IsSubscription, Lesser
<1> QED
  BY <1>1, <1>3, <1>4, <1>5, <1>8, <1>9 DEF s

\* The plan for an open deal is to wait or to make the call that fits.
LEMMA PlanTells ==
  ASSUME NEW s, Reading(s), s.opened, ~IsStopped(s), NEW c
  PROVE  LET p == Plan(s, c)
         IN  \/ p.does = "wait"
             \/ p.does \in {"finalize", "settleWeek"} /\ PlanFits(p, s, c)
<1>1. CASE ~s.probeAccepted \/ s.disputed
  BY <1>1 DEF Plan, Nothing
<1>2. CASE s.probeAccepted /\ ~s.disputed
  <2>1. CASE s.tokensPend > s.tokensFinal /\ c >= PromoteDeadline(s)
    <3>1. Plan(s, c) = Promotion
      BY <1>2, <2>1 DEF Plan
    <3> QED
      BY <3>1, <1>2, <2>1 DEF Promotion, PlanFits
  <2>2. CASE /\ ~(s.tokensPend > s.tokensFinal /\ c >= PromoteDeadline(s))
             /\ s.weekIndex < s.subWeeks /\ c >= NextWeekBoundary(s)
    <3>1. Plan(s, c) = Weeks(ScheduledWeekTarget(s, c))
      BY <1>2, <2>2 DEF Plan
    <3> QED
      BY <3>1, <1>2, <2>2 DEF Weeks, PlanFits
  <2>3. CASE /\ ~(s.tokensPend > s.tokensFinal /\ c >= PromoteDeadline(s))
             /\ ~(s.weekIndex < s.subWeeks /\ c >= NextWeekBoundary(s))
             /\ s.weekIndex = s.subWeeks
             /\ c >= PromoteDeadline(s) /\ s.tokensFinal = s.tokensPend
    <3>1. Plan(s, c) = Weeks(s.subWeeks)
      BY <1>2, <2>3 DEF Plan
    <3> QED
      BY <3>1, <1>2, <2>3 DEF Weeks, PlanFits
  <2>4. CASE /\ ~(s.tokensPend > s.tokensFinal /\ c >= PromoteDeadline(s))
             /\ ~(s.weekIndex < s.subWeeks /\ c >= NextWeekBoundary(s))
             /\ ~(/\ s.weekIndex = s.subWeeks
                  /\ c >= PromoteDeadline(s) /\ s.tokensFinal = s.tokensPend)
    <3>1. Plan(s, c) = Nothing(WaitUntil(s, c))
      BY <1>2, <2>4 DEF Plan
    <3> QED
      BY <3>1 DEF Nothing
  <2> QED
    BY <2>1, <2>2, <2>3, <2>4
<1> QED
  BY <1>1, <1>2 DEF Reading
-----------------------------------------------------------------------------
(***************************************************************************)
(* The steps of the task.                                                  *)
(***************************************************************************)

\* The task has read s, a state of a deal that is there, and goes on from it.
LEMMA GoesOn ==
  ASSUME KeeperInv, deal.alive, UNCHANGED <<deal, now>>,
         NEW s, s # NoSnapshot, Reading(s), Since(s, deal),
         DOMAIN keeper' = DOMAIN keeper,
         keeper'.pc \in {"schedule", "reread", "send", "asleep"},
         keeper'.skew = keeper.skew, keeper'.last = s,
         keeper'.clock \in Int, NotAhead => keeper'.clock <= now,
         keeper'.pc = "send" => PlanFits(keeper'.plan, s, keeper'.clock)
  PROVE  KeeperInv'
<1>1. DealSound'
  BY DEF KeeperInv, DealSound
<1>2. TaskTyped'
  BY DEF KeeperInv, TaskTyped, Places, NotAhead
<1>3. ReadEarlier' /\ ReadSound'
  BY DEF ReadEarlier, ReadSound
<1>4. CallFits'
  <2>1. PlanFits(keeper.plan, keeper.last, keeper.clock)' <=> PlanFits(keeper'.plan, s, keeper'.clock)
    BY DEF PlanFits, PromoteDeadline, NextWeekBoundary, ScheduledWeekTarget, Lesser
  <2> QED
    BY <2>1 DEF CallFits
<1>5. DoneMeansClosed'
  BY DEF DoneMeansClosed
<1> QED
  BY <1>1, <1>2, <1>3, <1>4, <1>5 DEF KeeperInv

\* The task ends, or is gone.
LEMMA TaskOver ==
  ASSUME KeeperInv, NEW pc \in {"done", "failed", "unrecorded", "down"}, pc = "done" => ~deal.alive, Task(Ended(pc))
  PROVE  KeeperInv'
<1>1. UNCHANGED <<deal, now>> /\ now \in Nat
  BY DEF Task, KeeperInv, DealSound
<1>2. /\ DOMAIN keeper' = DOMAIN keeper /\ keeper'.pc = pc /\ keeper'.skew = keeper.skew
      /\ keeper'.clock = 0 /\ keeper'.last = NoSnapshot
  BY DEF Task, Ended, KeeperInv, TaskTyped
<1>3. DealSound'
  BY <1>1 DEF KeeperInv, DealSound
<1>4. TaskTyped'
  BY <1>1, <1>2 DEF KeeperInv, TaskTyped, Places
<1>5. ReadEarlier' /\ ReadSound'
  BY <1>2 DEF ReadEarlier, ReadSound
<1>6. CallFits'
  BY <1>2 DEF CallFits
<1>7. DoneMeansClosed'
  BY <1>1, <1>2 DEF DoneMeansClosed
<1> QED
  BY <1>3, <1>4, <1>5, <1>6, <1>7 DEF KeeperInv

\* A read that plans.
LEMMA PlannedKeeps ==
  ASSUME KeeperInv, deal.alive, NEW next \in {"reread", "send"}, Planned(DealSnapshot, next)
  PROVE  KeeperInv'
<1> DEFINE s == DealSnapshot
           p == Plan(s, keeper.clock)
<1>1. /\ ~IsStopped(s) /\ Reading(s) /\ Since(s, deal) /\ s.opened /\ s # NoSnapshot
  BY SnapshotAccepted DEF KeeperInv
<1>2. p.does = "wait" \/ (p.does \in {"finalize", "settleWeek"} /\ PlanFits(p, s, keeper.clock))
  BY <1>1, PlanTells
<1>3. \/ p.does = "wait" /\ Task(AsleepAt(s, p.until))
      \/ p.does \in {"finalize", "settleWeek"}
         /\ Task([keeper EXCEPT !.pc = next, !.last = s, !.plan = p])
  BY <1>2 DEF Planned
<1> HIDE DEF s, p
<1>4. CASE Task(AsleepAt(s, p.until))
  <2>1. /\ UNCHANGED <<deal, now>> /\ now \in Nat
        /\ DOMAIN keeper' = DOMAIN keeper /\ keeper'.pc = "asleep"
        /\ keeper'.skew = keeper.skew /\ keeper'.last = s /\ keeper'.clock = 0
    BY <1>4 DEF Task, AsleepAt, KeeperInv, TaskTyped, DealSound
  <2>2. keeper'.clock \in Int /\ keeper'.clock <= now
    BY <2>1
  <2> QED
    BY <1>1, <2>1, <2>2, GoesOn
<1>5. CASE /\ p.does \in {"finalize", "settleWeek"}
           /\ Task([keeper EXCEPT !.pc = next, !.last = s, !.plan = p])
  <2>1. /\ UNCHANGED <<deal, now>>
        /\ DOMAIN keeper' = DOMAIN keeper /\ keeper'.pc = next
        /\ keeper'.skew = keeper.skew /\ keeper'.last = s /\ keeper'.clock = keeper.clock
        /\ keeper'.plan = p
    BY <1>5 DEF Task, KeeperInv, TaskTyped
  <2>2. keeper'.clock \in Int /\ (NotAhead => keeper'.clock <= now)
    BY <2>1 DEF KeeperInv, TaskTyped
  <2>3. PlanFits(keeper'.plan, s, keeper'.clock)
    BY <1>2, <1>5, <2>1
  <2> QED
    BY <1>1, <2>1, <2>2, <2>3, GoesOn
<1> QED
  BY <1>3, <1>4, <1>5

\* The first read of a step.
LEMMA ScheduleKeeps == ASSUME KeeperInv, Schedule PROVE KeeperInv'
<1>1. DealSound /\ ReadEarlier /\ ReadSound /\ deal.alive \in BOOLEAN
  BY DEF KeeperInv, DealSound
<1>2. CASE deal.alive
  <2>1. Planned(DealSnapshot, "reread") \/ Fail
    BY <1>1, <1>2, SnapshotTells DEF Schedule
  <2> QED
    BY <1>2, <2>1, PlannedKeeps, TaskOver DEF Fail
<1>3. CASE ~deal.alive
  <2>1. Done \/ Fail
    BY <1>1, <1>3, SnapshotTells DEF Schedule
  <2> QED
    BY <1>3, <2>1, TaskOver DEF Done, Fail
<1> QED
  BY <1>1, <1>2, <1>3

\* The read right before the write.
LEMMA RereadKeeps == ASSUME KeeperInv, Reread PROVE KeeperInv'
<1>1. DealSound /\ ReadEarlier /\ ReadSound /\ deal.alive \in BOOLEAN
  BY DEF KeeperInv, DealSound
<1>2. CASE deal.alive
  <2>1. Planned(DealSnapshot, "send") \/ Fail
    BY <1>1, <1>2, SnapshotTells DEF Reread
  <2> QED
    BY <1>2, <2>1, PlannedKeeps, TaskOver DEF Fail
<1>3. CASE ~deal.alive
  <2>1. Done
    BY <1>1, <1>3, SnapshotTells DEF Reread
  <2> QED
    BY <1>3, <2>1, TaskOver DEF Done
<1> QED
  BY <1>1, <1>2, <1>3

\* The task keeps what it read and what it planned; only the call moves on.
LEMMA CallMoves ==
  ASSUME KeeperInv, UNCHANGED <<deal, now>>, keeper.pc \in {"send", "reconcile"},
         DOMAIN keeper' = DOMAIN keeper, keeper'.pc = "reconcile",
         \A f \in {"skew", "clock", "last", "plan"} : keeper'[f] = keeper[f],
         keeper'.call \in {"sent", "landed", "lost"},
         keeper'.call = "landed" /\ deal.alive =>
           deal.disputed \/ ~NotAhead \/ Progress(keeper.plan, keeper.last, deal)
  PROVE  KeeperInv'
<1>1. /\ keeper'.skew = keeper.skew /\ keeper'.clock = keeper.clock
      /\ keeper'.last = keeper.last /\ keeper'.plan = keeper.plan
  OBVIOUS
<1>2. DealSound'
  BY DEF KeeperInv, DealSound
<1>3. TaskTyped'
  BY <1>1 DEF KeeperInv, TaskTyped, Places, NotAhead
<1>4. ReadEarlier' /\ ReadSound'
  BY <1>1 DEF KeeperInv, ReadEarlier, ReadSound
<1>5. CallFits'
  <2>1. PlanFits(keeper.plan, keeper.last, keeper.clock)
    BY DEF KeeperInv, CallFits
  <2>2. PlanFits(keeper.plan, keeper.last, keeper.clock)' <=> PlanFits(keeper.plan, keeper.last, keeper.clock)
    BY <1>1 DEF PlanFits, PromoteDeadline, NextWeekBoundary, ScheduledWeekTarget, Lesser
  <2>3. Progress(keeper.plan, keeper.last, deal)' <=> Progress(keeper.plan, keeper.last, deal)
    BY <1>1 DEF Progress
  <2> QED
    BY <1>1, <2>1, <2>2, <2>3 DEF CallFits, NotAhead
<1>6. DoneMeansClosed'
  BY DEF DoneMeansClosed
<1> QED
  BY <1>2, <1>3, <1>4, <1>5, <1>6 DEF KeeperInv

\* What is known when a call goes out or arrives at a living deal.
LEMMA CallFacts ==
  ASSUME KeeperInv, deal.alive, keeper.pc \in {"send", "reconcile"}
  PROVE  LET s == keeper.last
             c == keeper.clock
         IN  /\ PlanFits(keeper.plan, s, c) /\ Reading(s) /\ Since(s, deal)
             /\ UnderWay(deal, now) /\ Marked(deal) /\ now \in Nat
             /\ deal.probeAccepted /\ deal.periodStart = s.periodStart
             /\ c \in Int /\ (NotAhead => c <= now)
BY DEF KeeperInv, CallFits, ReadEarlier, ReadSound, TaskTyped, DealSound, UnderWay, PlanFits, Since

\* The call goes out, or is moot because the claim is trusted by now.
LEMMA SendKeeps == ASSUME KeeperInv, Send PROVE KeeperInv'
<1> DEFINE moot == \/ ~deal.alive
                   \/ keeper.plan.does = "finalize" /\ deal.tokensFinal >= deal.tokensPend
<1>1. /\ keeper.pc = "send" /\ UNCHANGED <<deal, now>>
      /\ keeper' = [keeper EXCEPT !.pc = "reconcile", !.call = IF moot THEN "landed" ELSE "sent"]
  BY DEF Send, Task
<1>2. /\ DOMAIN keeper' = DOMAIN keeper /\ keeper'.pc = "reconcile"
      /\ keeper'.skew = keeper.skew /\ keeper'.clock = keeper.clock
      /\ keeper'.last = keeper.last /\ keeper'.plan = keeper.plan
      /\ keeper'.call = IF moot THEN "landed" ELSE "sent"
  BY <1>1 DEF KeeperInv, TaskTyped
<1>3. ASSUME moot, deal.alive
      PROVE  Progress(keeper.plan, keeper.last, deal)
  <2>1. /\ PlanFits(keeper.plan, keeper.last, keeper.clock) /\ Reading(keeper.last)
        /\ Since(keeper.last, deal) /\ Marked(deal)
    BY <1>1, <1>3, CallFacts
  <2>2. keeper.plan.does = "finalize" /\ deal.tokensFinal >= deal.tokensPend
    BY <1>3
  <2>3. keeper.last.tokensPend > keeper.last.tokensFinal
    BY <2>1, <2>2 DEF PlanFits
  <2> QED
    BY <2>1, <2>2, <2>3 DEF Progress, Since, Marked, Reading
<1> HIDE DEF moot
<1>4. \A f \in {"skew", "clock", "last", "plan"} : keeper'[f] = keeper[f]
  BY <1>2
<1>5. keeper'.call \in {"sent", "landed", "lost"}
  BY <1>2
<1>6. keeper'.call = "landed" => moot
  BY <1>2
<1> QED
  BY <1>1, <1>2, <1>3, <1>4, <1>5, <1>6, CallMoves

\* The message is lost.
LEMMA LoseKeeps == ASSUME KeeperInv, Lose PROVE KeeperInv'
<1>1. /\ keeper.pc = "reconcile" /\ UNCHANGED <<deal, now>>
      /\ keeper' = [keeper EXCEPT !.call = "lost"]
  BY DEF Lose, Task
<1>2. /\ DOMAIN keeper' = DOMAIN keeper /\ keeper'.pc = "reconcile"
      /\ keeper'.skew = keeper.skew /\ keeper'.clock = keeper.clock
      /\ keeper'.last = keeper.last /\ keeper'.plan = keeper.plan
      /\ keeper'.call = "lost"
  BY <1>1 DEF KeeperInv, TaskTyped
<1>3. \A f \in {"skew", "clock", "last", "plan"} : keeper'[f] = keeper[f]
  BY <1>2
<1> QED
  BY <1>1, <1>2, <1>3, CallMoves

\* The week the keeper planned for has ended by now.
LEMMA TargetReached ==
  ASSUME KeeperInv, NotAhead, deal.alive, keeper.pc = "reconcile",
         keeper.plan.does = "settleWeek", keeper.last.weekIndex < keeper.last.subWeeks
  PROVE  /\ keeper.plan.target = ScheduledWeekTarget(deal, keeper.clock)
         /\ keeper.plan.target \in Int
         /\ WeeksElapsedAt(deal, now) \in Nat
         /\ keeper.plan.target <= WeeksElapsedAt(deal, now)
         /\ deal.weekIndex <= WeeksElapsedAt(deal, now)
<1> DEFINE s == keeper.last
           c == keeper.clock
<1>1. /\ PlanFits(keeper.plan, s, c) /\ Reading(s) /\ Since(s, deal)
      /\ UnderWay(deal, now) /\ Marked(deal) /\ now \in Nat
      /\ deal.probeAccepted /\ deal.periodStart = s.periodStart
      /\ c \in Int /\ c <= now
  BY CallFacts
<1>2. keeper.plan.target = ScheduledWeekTarget(s, c)
  BY <1>1, TimeAssumption DEF PlanFits, Reading
<1>3. ScheduledWeekTarget(s, c) = ScheduledWeekTarget(deal, c)
  BY <1>1 DEF ScheduledWeekTarget, Reading, Marked
<1>4. c - deal.periodStart \in Int /\ now - deal.periodStart \in Int
      /\ c - deal.periodStart <= now - deal.periodStart
  BY <1>1 DEF Marked
<1>5. /\ (c - deal.periodStart) \div SUB_WEEK_LEN \in Int
      /\ (now - deal.periodStart) \div SUB_WEEK_LEN \in Int
      /\ (c - deal.periodStart) \div SUB_WEEK_LEN <= (now - deal.periodStart) \div SUB_WEEK_LEN
  BY <1>4, DivInt, DivMonotone
<1>6. deal.subWeeks = SUB_WEEKS
  BY <1>1 DEF Marked
<1>7. /\ ScheduledWeekTarget(deal, c) \in Int
      /\ ScheduledWeekTarget(deal, c) <= WeeksElapsedAt(deal, now)
  BY <1>5, <1>6, TimeAssumption DEF ScheduledWeekTarget, WeeksElapsedAt, Lesser
<1>8. WeeksElapsedAt(deal, now) \in Nat /\ deal.weekIndex <= WeeksElapsedAt(deal, now)
  BY <1>1, ElapsedWeeks
<1> QED
  BY <1>2, <1>3, <1>7, <1>8

\* A call that arrives promotes, charges or closes; one that is refused was
\* forestalled by somebody else or by a dispute.
LEMMA LandKeeps == ASSUME KeeperInv, Land PROVE KeeperInv'
<1>1. keeper.pc = "reconcile" /\ keeper' = [keeper EXCEPT !.call = "landed"]
  BY DEF Land
<1>2. /\ DOMAIN keeper' = DOMAIN keeper /\ keeper'.pc = keeper.pc
      /\ keeper'.skew = keeper.skew /\ keeper'.clock = keeper.clock
      /\ keeper'.last = keeper.last /\ keeper'.plan = keeper.plan
      /\ keeper'.call = "landed"
  BY <1>1 DEF KeeperInv, TaskTyped
<1>3. DealSound
  BY DEF KeeperInv
<1>4. ASSUME keeper.plan.does = "finalize", Finalize
      PROVE  KeeperInv'
  <2>1. deal.alive /\ Moved
    BY <1>3, <1>4, FinalizeMoved DEF Finalize, Call
  <2>2. /\ PlanFits(keeper.plan, keeper.last, keeper.clock) /\ Reading(keeper.last)
        /\ Since(keeper.last, deal) /\ UnderWay(deal, now) /\ Marked(deal) /\ now \in Nat
    BY <1>1, <2>1, CallFacts
  <2>3. deal' = PromoteDue(deal, now) /\ WindowPassed(deal, now) /\ deal.tokensPend > deal.tokensFinal
    BY <1>4, <2>2, FinalizeMoves DEF Finalize, FinalizeReady, Call
  <2>4. deal'.tokensFinal = deal.tokensPend
    BY <2>2, <2>3, PromoteDueMoves
  <2>5. keeper.last.tokensPend > keeper.last.tokensFinal
    BY <1>4, <2>2 DEF PlanFits
  <2>6. Progress(keeper.plan, keeper.last, deal')
    BY <1>4, <2>2, <2>4, <2>5 DEF Progress, Since, Marked, Reading
  <2> QED
    BY <1>1, <1>2, <2>1, <2>6, MovedTask
<1>5. ASSUME keeper.plan.does # "finalize", SettleWeek
      PROVE  KeeperInv'
  <2>1. deal.alive /\ Moved
    BY <1>3, <1>5, SettleWeekMoved DEF SettleWeek, Call
  <2>2. /\ PlanFits(keeper.plan, keeper.last, keeper.clock) /\ Reading(keeper.last)
        /\ Since(keeper.last, deal) /\ UnderWay(deal, now) /\ Marked(deal) /\ now \in Nat
        /\ deal.probeAccepted /\ keeper.clock \in Int /\ (NotAhead => keeper.clock <= now)
    BY <1>1, <2>1, CallFacts
  <2>3. deal' = SettleWeekEffect(deal, now) /\ keeper.plan.does = "settleWeek"
    BY <1>5, <2>2 DEF SettleWeek, Call, PlanFits
  <2>4. \/ Closed(deal, deal')
        \/ /\ deal'.weekIndex = WeeksElapsedAt(deal, now)
           /\ ~(deal.weekIndex >= deal.subWeeks /\ WindowPassed(deal, now))
    BY <2>2, <2>3, SettleWeekMoves
  <2>5. NotAhead /\ deal'.alive => Progress(keeper.plan, keeper.last, deal')
    <3> SUFFICES ASSUME NotAhead PROVE deal'.alive => Progress(keeper.plan, keeper.last, deal')
      OBVIOUS
    <3>1. CASE Closed(deal, deal')
      BY <3>1 DEF Closed
    <3>2. CASE /\ ~Closed(deal, deal') /\ keeper.last.weekIndex < keeper.last.subWeeks
      <4>1. /\ keeper.plan.target <= WeeksElapsedAt(deal, now)
            /\ keeper.plan.target \in Int /\ WeeksElapsedAt(deal, now) \in Nat
        BY <1>1, <2>1, <2>3, <3>2, TargetReached
      <4> QED
        BY <1>5, <2>4, <3>2, <4>1 DEF Progress
    <3>3. CASE /\ ~Closed(deal, deal') /\ ~(keeper.last.weekIndex < keeper.last.subWeeks)
      <4>1. keeper.last.weekIndex = keeper.last.subWeeks
            /\ keeper.clock >= PromoteDeadline(keeper.last)
        BY <2>2, <2>3, <3>3 DEF PlanFits
      <4>2. deal.weekIndex >= deal.subWeeks /\ deal.lastClaimTime = keeper.last.lastClaimTime
        BY <2>2, <4>1, TimeAssumption DEF Since, Marked, Reading, PlanFits
      <4>3. WindowPassed(deal, now)
        BY <2>2, <4>1, <4>2, TimeAssumption
           DEF WindowPassed, PromoteDeadline, CLAIM_PROMOTE_WINDOW, Marked, Reading
      <4> QED
        BY <2>4, <3>3, <4>2, <4>3
    <3> QED
      BY <3>1, <3>2, <3>3
  <2> QED
    BY <1>1, <1>2, <2>1, <2>5, MovedTask
<1>6. ASSUME UNCHANGED <<deal, now>>,
             \/ ~deal.alive
             \/ keeper.plan.does = "finalize" /\ ~FinalizeReady
             \/ keeper.plan.does # "finalize" /\ ~SettleWeekReady
      PROVE  KeeperInv'
  <2>1. ASSUME deal.alive, ~deal.disputed, NotAhead
        PROVE  Progress(keeper.plan, keeper.last, deal)
    <3>1. /\ PlanFits(keeper.plan, keeper.last, keeper.clock) /\ Reading(keeper.last)
          /\ Since(keeper.last, deal) /\ UnderWay(deal, now) /\ Marked(deal) /\ now \in Nat
          /\ deal.probeAccepted /\ keeper.clock \in Int /\ keeper.clock <= now
      BY <1>1, <2>1, CallFacts
    <3>2. deal.opened /\ IsSubscription(deal)
      BY <3>1, TimeAssumption DEF UnderWay, Marked, IsSubscription
    <3>3. CASE keeper.plan.does = "finalize"
      <4>1. ~(deal.tokensPend > deal.tokensFinal /\ WindowPassed(deal, now))
        BY <1>6, <2>1, <3>2, <3>3 DEF FinalizeReady
      <4>2. /\ keeper.last.tokensPend > keeper.last.tokensFinal
            /\ keeper.clock >= PromoteDeadline(keeper.last)
        BY <3>1, <3>3 DEF PlanFits
      <4>3. CASE deal.tokensFinal = keeper.last.tokensFinal
        <5>1. deal.tokensPend = keeper.last.tokensPend
              /\ deal.lastClaimTime = keeper.last.lastClaimTime
          BY <3>1, <4>2, <4>3 DEF Since
        <5>2. WindowPassed(deal, now)
          BY <3>1, <4>2, <5>1, TimeAssumption
             DEF WindowPassed, PromoteDeadline, CLAIM_PROMOTE_WINDOW, Marked, Reading
        <5> QED
          BY <4>1, <4>2, <4>3, <5>1, <5>2
      <4>4. CASE deal.tokensFinal # keeper.last.tokensFinal
        BY <3>1, <3>3, <4>4 DEF Progress, Since, Marked, Reading
      <4> QED
        BY <4>3, <4>4
    <3>4. CASE keeper.plan.does # "finalize"
      <4>1. /\ ~(WeeksElapsedAt(deal, now) > deal.weekIndex)
            /\ ~(deal.weekIndex >= deal.subWeeks)
        BY <1>6, <2>1, <3>1, <3>2, <3>4 DEF SettleWeekReady
      <4>2. keeper.plan.does = "settleWeek"
        BY <3>1, <3>4 DEF PlanFits
      <4>3. keeper.last.weekIndex < keeper.last.subWeeks
        BY <3>1, <4>1, TimeAssumption DEF Since, Marked, Reading
      <4>4. /\ keeper.plan.target <= WeeksElapsedAt(deal, now)
            /\ keeper.plan.target \in Int /\ WeeksElapsedAt(deal, now) \in Nat
        BY <1>1, <2>1, <4>2, <4>3, TargetReached
      <4> QED
        BY <3>1, <3>4, <4>1, <4>3, <4>4 DEF Progress, Marked
    <3> QED
      BY <3>3, <3>4
  <2>2. \A f \in {"skew", "clock", "last", "plan"} : keeper'[f] = keeper[f]
    BY <1>2
  <2> QED
    BY <1>1, <1>2, <1>6, <2>1, <2>2, CallMoves
<1> QED
  BY <1>4, <1>5, <1>6 DEF Land

\* What the seller's clock shows.
LEMMA ClockReads ==
  ASSUME KeeperInv
  PROVE  LocalClock \in Int /\ (NotAhead => LocalClock <= now) /\ now \in Nat
BY DEF KeeperInv, DealSound, TaskTyped, LocalClock, NotAhead

\* The read after the write.
LEMMA ReconcileKeeps == ASSUME KeeperInv, Reconcile PROVE KeeperInv'
<1> DEFINE s == DealSnapshot
<1>1. DealSound /\ ReadEarlier /\ ReadSound /\ deal.alive \in BOOLEAN /\ keeper.pc = "reconcile"
  BY DEF KeeperInv, DealSound, Reconcile
<1>2. LocalClock \in Int /\ (NotAhead => LocalClock <= now) /\ now \in Nat
  BY ClockReads
<1>3. CASE ~deal.alive
  <2>1. Done
    BY <1>1, <1>3, SnapshotTells DEF Reconcile
  <2> QED
    BY <1>3, <2>1, TaskOver DEF Done
<1>4. CASE deal.alive
  <2>1. /\ ~IsStopped(s) /\ Reading(s) /\ Since(s, deal) /\ s # NoSnapshot
    BY <1>1, <1>4, SnapshotAccepted
  <2>2. Task(AsleepAt(s, LocalClock + Idle)) \/ Task(NextStep(s)) \/ Fail
    BY <2>1 DEF Reconcile
  <2> HIDE DEF s
  <2>3. CASE Task(AsleepAt(s, LocalClock + Idle))
    <3>1. /\ UNCHANGED <<deal, now>>
          /\ DOMAIN keeper' = DOMAIN keeper /\ keeper'.pc = "asleep"
          /\ keeper'.skew = keeper.skew /\ keeper'.last = s /\ keeper'.clock = 0
      BY <2>3 DEF Task, AsleepAt, KeeperInv, TaskTyped
    <3>2. keeper'.clock \in Int /\ keeper'.clock <= now
      BY <3>1, <1>2
    <3> QED
      BY <1>4, <2>1, <3>1, <3>2, GoesOn
  <2>4. CASE Task(NextStep(s))
    <3>1. /\ UNCHANGED <<deal, now>>
          /\ DOMAIN keeper' = DOMAIN keeper /\ keeper'.pc = "schedule"
          /\ keeper'.skew = keeper.skew /\ keeper'.last = s /\ keeper'.clock = LocalClock
      BY <2>4 DEF Task, NextStep, KeeperInv, TaskTyped
    <3> QED
      BY <1>2, <1>4, <2>1, <3>1, GoesOn
  <2>5. CASE Fail
    BY <2>5, TaskOver DEF Fail
  <2> QED
    BY <2>2, <2>3, <2>4, <2>5
<1> QED
  BY <1>1, <1>3, <1>4

\* A call that arrived on time and did not do what was wanted: the deal is
\* disputed, or more weeks have ended than the one it was sent for.
LEMMA CallJudged ==
  ASSUME KeeperInv, Reconcile, deal.alive, ~deal.disputed, Fail
  PROVE  Excused
<1> DEFINE s == DealSnapshot
<1>1. DealSound /\ ReadEarlier /\ ReadSound /\ keeper.pc = "reconcile"
  BY DEF KeeperInv, Reconcile
<1>2. /\ Acceptable(s) /\ Servable(s) /\ ~IsStopped(s) /\ ~s.disputed
      /\ s # NoSnapshot /\ SameReading(s, deal)
  BY <1>1, SnapshotAccepted DEF SameReading
<1>3. ~Applied(keeper.last, s)
  <2>1. Applied(keeper.last, s) => Task(NextStep(s))
    BY <1>2 DEF Reconcile
  <2>2. keeper'.pc = "failed"
    BY DEF Fail, Task, Ended, KeeperInv, TaskTyped
  <2>3. Task(NextStep(s)) => keeper'.pc = "schedule"
    BY DEF Task, NextStep, KeeperInv, TaskTyped
  <2> QED
    BY <2>1, <2>2, <2>3
<1> HIDE DEF s
<1>4. CASE keeper.call = "landed" /\ NotAhead
  <2>1. Progress(keeper.plan, keeper.last, deal)
    BY <1>1, <1>4 DEF KeeperInv, CallFits
  <2>2. /\ PlanFits(keeper.plan, keeper.last, keeper.clock) /\ Marked(deal)
    BY <1>1, CallFacts
  <2>3. keeper.plan.does = "settleWeek"
    BY <1>2, <1>3, <2>1, <2>2 DEF Progress, PlanFits, Applied, SameReading
  <2>4. /\ keeper.last.weekIndex < keeper.last.subWeeks
        /\ deal.weekIndex >= keeper.plan.target /\ deal.weekIndex # keeper.plan.target
    BY <1>2, <1>3, <2>1, <2>3 DEF Progress, Applied, SameReading
  <2>5. /\ keeper.plan.target = ScheduledWeekTarget(deal, keeper.clock)
        /\ keeper.plan.target \in Int /\ WeeksElapsedAt(deal, now) \in Nat
        /\ deal.weekIndex <= WeeksElapsedAt(deal, now)
    BY <1>1, <1>4, <2>3, <2>4, TargetReached
  <2>6. WeeksElapsedAt(deal, now) > ScheduledWeekTarget(deal, keeper.clock)
    BY <2>2, <2>4, <2>5 DEF Marked
  <2> QED
    BY <2>3, <2>6 DEF Excused
<1>5. keeper.call \in {"sent", "landed", "lost"} /\ keeper.skew \in Int
  BY <1>1 DEF KeeperInv, CallFits, TaskTyped
<1> QED
  BY <1>4, <1>5 DEF Excused, NotAhead

\* A new step begins with a new reading of the clock.
LEMMA WakeKeeps == ASSUME KeeperInv, Wake PROVE KeeperInv'
<1>1. /\ UNCHANGED <<deal, now>>
      /\ DOMAIN keeper' = DOMAIN keeper /\ keeper'.pc = "schedule"
      /\ keeper'.skew = keeper.skew /\ keeper'.last = keeper.last
      /\ keeper'.clock = LocalClock
  BY DEF Wake, Task, NextStep, KeeperInv, TaskTyped
<1>2. LocalClock \in Int /\ (NotAhead => LocalClock <= now)
  BY ClockReads
<1>3. DealSound'
  BY <1>1 DEF KeeperInv, DealSound
<1>4. TaskTyped'
  BY <1>1, <1>2 DEF KeeperInv, TaskTyped, Places, NotAhead
<1>5. ReadEarlier' /\ ReadSound'
  BY <1>1 DEF KeeperInv, ReadEarlier, ReadSound
<1>6. CallFits' /\ DoneMeansClosed'
  BY <1>1 DEF CallFits, DoneMeansClosed
<1> QED
  BY <1>3, <1>4, <1>5, <1>6 DEF KeeperInv

\* A task that starts.
LEMMA FreshTyped ==
  ASSUME NEW skew \in Skews, NEW n, now \in Nat
  PROVE  LET k == Fresh(skew, n)
         IN  /\ DOMAIN k = {"pc", "skew", "clock", "last", "plan", "call", "restarts"}
             /\ k.pc = "schedule" /\ k.skew = skew /\ k.last = NoSnapshot
             /\ skew \in Int /\ k.clock \in Int /\ (skew <= 0 => k.clock <= now)
BY KeeperAssumption DEF Fresh

\* A restarted seller begins anew.
LEMMA RestartKeeps == ASSUME KeeperInv, Restart PROVE KeeperInv'
<1>1. UNCHANGED <<deal, now>> /\ keeper' = Fresh(keeper.skew, keeper.restarts + 1)
      /\ keeper.skew \in Skews /\ now \in Nat
  BY DEF Restart, Task, KeeperInv, TaskTyped, DealSound
<1>2. /\ DOMAIN keeper' = {"pc", "skew", "clock", "last", "plan", "call", "restarts"}
      /\ keeper'.pc = "schedule" /\ keeper'.skew = keeper.skew /\ keeper'.last = NoSnapshot
      /\ keeper.skew \in Int /\ keeper'.clock \in Int /\ (keeper.skew <= 0 => keeper'.clock <= now)
  BY <1>1, FreshTyped
<1>3. DealSound'
  BY <1>1 DEF KeeperInv, DealSound
<1>4. TaskTyped'
  BY <1>1, <1>2 DEF TaskTyped, Places, NotAhead
<1>5. ReadEarlier' /\ ReadSound'
  BY <1>2 DEF ReadEarlier, ReadSound
<1>6. CallFits' /\ DoneMeansClosed'
  BY <1>2 DEF CallFits, DoneMeansClosed
<1> QED
  BY <1>3, <1>4, <1>5, <1>6 DEF KeeperInv

\* A deal under way is still so in the next block.
LEMMA TimeStepSound == ASSUME DealSound, deal' = deal, now' = now + 1 PROVE DealSound'
<1>1. now \in Nat
  BY DEF DealSound
<1>2. deal.alive => UnderWay(deal, now + 1)
  BY <1>1, TimePasses DEF DealSound
<1>3. DealSound' <=> /\ now + 1 \in Nat
                     /\ DOMAIN deal = DealFields /\ deal.alive \in BOOLEAN
                     /\ deal.periodStart \in Nat /\ deal.subWeeks = SUB_WEEKS
                     /\ deal.periodStart <= now + 1
                     /\ deal.alive => UnderWay(deal, now + 1)
  BY DEF DealSound
<1> QED
  BY <1>1, <1>2, <1>3 DEF DealSound

\* Time passes.
LEMMA BlocksKeeps == ASSUME KeeperInv, Blocks PROVE KeeperInv'
<1>1. deal' = deal /\ keeper' = keeper /\ now' = now + 1 /\ now \in Nat
  BY DEF Blocks, KeeperInv, DealSound
<1>2. DealSound'
  BY TimeStepSound DEF KeeperInv, Blocks
<1>3. TaskTyped'
  BY <1>1 DEF KeeperInv, TaskTyped, NotAhead
<1>4. ReadEarlier' /\ ReadSound' /\ DoneMeansClosed'
  BY <1>1 DEF KeeperInv, ReadEarlier, ReadSound, DoneMeansClosed
<1>5. CallFits'
  BY <1>1 DEF KeeperInv, CallFits, NotAhead
<1> QED
  BY <1>2, <1>3, <1>4, <1>5 DEF KeeperInv

\* Every step keeps the invariant.
LEMMA KeeperNextKeeps == ASSUME KeeperInv, [KeeperNext]_keeperVars PROVE KeeperInv'
<1>1. CASE KeeperStep
  BY <1>1, ScheduleKeeps, RereadKeeps, SendKeeps, ReconcileKeeps, WakeKeeps DEF KeeperStep
<1>2. CASE Land \/ Lose
  BY <1>2, LandKeeps, LoseKeeps
<1>3. CASE Crash \/ ObserverFails
  BY <1>3, TaskOver DEF Crash, ObserverFails
<1>4. CASE Restart
  BY <1>4, RestartKeeps
<1>5. CASE Others
  <2>1. DealSound
    BY DEF KeeperInv
  <2>2. Moved /\ deal.alive /\ keeper' = keeper
    BY <1>5, <2>1, OthersMoved
  <2> QED
    BY <2>2, MovedTask
<1>6. CASE Blocks
  BY <1>6, BlocksKeeps
<1>7. CASE UNCHANGED keeperVars
  <2>1. deal' = deal /\ now' = now /\ keeper' = keeper
    BY <1>7 DEF keeperVars
  <2> QED
    BY <2>1 DEF KeeperInv, DealSound, TaskTyped, ReadEarlier, ReadSound, CallFits,
                DoneMeansClosed, NotAhead, ScheduledWeekTarget, Lesser
<1> QED
  BY <1>1, <1>2, <1>3, <1>4, <1>5, <1>6, <1>7 DEF KeeperNext, Finished
-----------------------------------------------------------------------------
(***************************************************************************)
(* The deal as the keeper first meets it.                                  *)
(***************************************************************************)

\* A volume in whole weeks is at least one tick a week.
LEMMA WeeklyTick ==
  ASSUME NEW ticks \in WeeklyFills
  PROVE  /\ ticks \in Nat /\ ticks >= 2 /\ ticks <= MaxTicks
         /\ ticks * TICK_SIZE \in Nat /\ ticks * TICK_SIZE >= TICK_SIZE
         /\ (ticks * TICK_SIZE) \div SUB_WEEKS \in Nat
         /\ (ticks * TICK_SIZE) \div SUB_WEEKS >= TICK_SIZE
<1>1. ticks \in 2..MaxTicks /\ ticks % SUB_WEEKS = 0
  BY DEF WeeklyFills
<1>2. ticks \in Nat /\ ticks >= 2 /\ ticks <= MaxTicks
  BY <1>1, PriceAssumption
<1>3. ticks >= SUB_WEEKS
  BY <1>1, <1>2, TimeAssumption
<1>4. ASSUME NEW a \in Nat, NEW b \in Nat, NEW c \in Nat, a >= b
      PROVE  a * c >= b * c /\ a * c \in Nat
  BY <1>4
<1>5. ticks * TICK_SIZE >= SUB_WEEKS * TICK_SIZE /\ ticks * TICK_SIZE \in Nat
  BY <1>2, <1>3, <1>4, TimeAssumption, PriceAssumption
<1>6. SUB_WEEKS * TICK_SIZE >= TICK_SIZE /\ SUB_WEEKS * TICK_SIZE \in Nat
  BY TimeAssumption, PriceAssumption
<1>7. ASSUME NEW n \in Nat, n >= SUB_WEEKS * TICK_SIZE
      PROVE  n \div SUB_WEEKS \in Nat /\ n \div SUB_WEEKS >= TICK_SIZE
  BY <1>7, TimeAssumption, PriceAssumption
<1>8. ticks * TICK_SIZE >= TICK_SIZE
  BY <1>5, <1>6, PriceAssumption
<1> QED
  BY <1>2, <1>5, <1>7, <1>8

\* Listed, matched, bonded and opened: the subscription is under way.
LEMMA OpenedDealUnderWay ==
  ASSUME NEW b \in Buyers, NEW ticks \in WeeklyFills
  PROVE  UnderWay(OpenedDeal(b, ticks, 1), 1)
<1> DEFINE paid   == ticks * Unit + BondAmount
           escrow == paid - BondAmount
           m0     == PostFromNoteEffect(NewDeal)
           held   == [Receive(m0, b, paid) EXCEPT !.fills = @ + 1]
           bonded == [held EXCEPT !.buyerBond = BondAmount,
                                  !.buyerBondFunded = @ \/ BondAmount > 0]
           funded == RecordFunding(bonded, 1, b, escrow)
           shaped == RecordDealShape(funded, 1, TRUE, escrow \div Unit)
           m      == FundFromOrderBookEffect(m0, 1, b, paid, TRUE)
           n      == FundDealEffect(m, BondAmount)
           o      == OpenEffect(n, 1)
<1>1. Unit \in Nat \ {0} /\ BondAmount \in Nat \ {0} /\ ticks \in Nat /\ ticks >= 2 /\ ticks <= MaxTicks
  BY UnitPositive, WeeklyTick
<1>2. ticks * Unit \in Nat /\ ticks * Unit >= 2 * Unit /\ ticks * Unit <= MaxTicks * Unit
  <2>1. ASSUME NEW i \in Nat, NEW j \in Nat, NEW u \in Nat, i <= j
        PROVE  i * u <= j * u /\ j * u \in Nat
    BY <2>1
  <2> QED
    BY <1>1, <2>1, PriceAssumption
<1>3. escrow = ticks * Unit /\ escrow \div Unit = ticks /\ paid \in Nat /\ paid >= BondAmount
  <2>1. escrow = ticks * Unit /\ paid \in Nat /\ paid >= BondAmount
    BY <1>1, <1>2
  <2> QED
    BY <2>1, <1>1, DivExact
<1>4. OpenedDeal(b, ticks, 1) = o
  BY DEF OpenedDeal
\* the offer is listed
<1>5. /\ DOMAIN m0 = DealFields /\ m0.funded = FALSE /\ m0.alive = TRUE /\ m0.opened = FALSE
      /\ m0.disputed = FALSE /\ m0.probeAccepted = FALSE /\ m0.tokensFinal = 0
      /\ m0.tokensPend = 0 /\ m0.tokensPaid = 0 /\ m0.weekBaseTokens = 0
  BY DEF PostFromNoteEffect, NewDeal, DealFields
<1>6. ~(m0.funded \/ paid < BondAmount \/ escrow < 2 * Unit \/ escrow > MaxTicks * Unit)
  BY <1>1, <1>2, <1>3, <1>5, PriceAssumption
<1>7. m = shaped
  BY <1>6 DEF FundFromOrderBookEffect
<1> HIDE DEF m, m0
\* the fill is received, and the deal takes its shape
<1>8. /\ DOMAIN held = DealFields /\ held.alive = TRUE /\ held.opened = FALSE
      /\ held.disputed = FALSE /\ held.probeAccepted = FALSE /\ held.tokensFinal = 0
      /\ held.tokensPend = 0 /\ held.tokensPaid = 0 /\ held.weekBaseTokens = 0
  <2> DEFINE r == Receive(m0, b, paid)
             bal == m0.balance + paid
             led == Credit(m0.put, b, paid)
  <2>1. r = [m0 EXCEPT !.balance = bal, !.put = led]
    BY <1>5 DEF Receive, DealFields
  <2> HIDE DEF bal, led, r
  <2>2. /\ DOMAIN r = DealFields /\ r.alive = TRUE /\ r.opened = FALSE
        /\ r.disputed = FALSE /\ r.probeAccepted = FALSE /\ r.tokensFinal = 0
        /\ r.tokensPend = 0 /\ r.tokensPaid = 0 /\ r.weekBaseTokens = 0
    BY <2>1, <1>5 DEF DealFields
  <2>3. held = [r EXCEPT !.fills = @ + 1]
    BY DEF r
  <2> HIDE DEF held
  <2> QED
    BY <2>2, <2>3 DEF DealFields
<1> HIDE DEF held
<1>9. /\ DOMAIN bonded = DealFields /\ bonded.alive = TRUE /\ bonded.opened = FALSE
      /\ bonded.disputed = FALSE /\ bonded.probeAccepted = FALSE /\ bonded.tokensFinal = 0
      /\ bonded.tokensPend = 0 /\ bonded.tokensPaid = 0 /\ bonded.weekBaseTokens = 0
  BY <1>8 DEF DealFields
<1> HIDE DEF bonded
<1>10. /\ DOMAIN funded = DealFields /\ funded.alive = TRUE /\ funded.opened = FALSE
       /\ funded.disputed = FALSE /\ funded.probeAccepted = FALSE /\ funded.tokensFinal = 0
       /\ funded.tokensPend = 0 /\ funded.tokensPaid = 0 /\ funded.weekBaseTokens = 0
       /\ funded.funded = TRUE /\ funded.deposit = escrow
  BY <1>9 DEF RecordFunding, DealFields
<1> HIDE DEF funded
<1>11. shaped = [funded EXCEPT !.subWeeks = SUB_WEEKS, !.weekIndex = 0, !.periodStart = 1,
                    !.tokensPerWeek = (ticks * TICK_SIZE) \div SUB_WEEKS,
                    !.fundedTokens = ticks * TICK_SIZE, !.lastClaimTime = 1]
  BY <1>3 DEF RecordDealShape
<1>12. /\ DOMAIN m = DealFields /\ m.alive = TRUE /\ m.opened = FALSE
       /\ m.disputed = FALSE /\ m.probeAccepted = FALSE /\ m.tokensFinal = 0
       /\ m.tokensPend = 0 /\ m.tokensPaid = 0 /\ m.weekBaseTokens = 0
       /\ m.funded = TRUE /\ m.deposit = escrow /\ m.subWeeks = SUB_WEEKS /\ m.weekIndex = 0
       /\ m.periodStart = 1 /\ m.tokensPerWeek = (ticks * TICK_SIZE) \div SUB_WEEKS
       /\ m.fundedTokens = ticks * TICK_SIZE /\ m.lastClaimTime = 1
  <2> HIDE DEF shaped, escrow
  <2> QED
    BY <1>7, <1>10, <1>11 DEF DealFields
\* the seller's bond comes in
<1>13. /\ DOMAIN n = DealFields /\ n.alive = TRUE /\ n.opened = FALSE
       /\ n.disputed = FALSE /\ n.probeAccepted = FALSE /\ n.tokensFinal = 0
       /\ n.tokensPend = 0 /\ n.tokensPaid = 0 /\ n.weekBaseTokens = 0
       /\ n.funded = TRUE /\ n.deposit = escrow /\ n.subWeeks = SUB_WEEKS /\ n.weekIndex = 0
       /\ n.periodStart = 1 /\ n.tokensPerWeek = (ticks * TICK_SIZE) \div SUB_WEEKS
       /\ n.fundedTokens = ticks * TICK_SIZE /\ n.lastClaimTime = 1
  <2> DEFINE bal == m.balance + BondAmount
             led == Credit(m.put, Seller, BondAmount)
             r   == [Receive(m, Seller, BondAmount) EXCEPT
                       !.sellerBond = BondAmount, !.sellerBondFunded = TRUE]
             q   == [m EXCEPT !.balance = bal, !.put = led,
                              !.sellerBond = BondAmount, !.sellerBondFunded = TRUE]
             bal2 == q.balance - (BondAmount - BondAmount)
             led2 == Credit(q.got, Seller, BondAmount - BondAmount)
  <2>1. r = q
    BY <1>12 DEF Receive, DealFields
  <2>2. n = PayShell(q, Seller, BondAmount - BondAmount)
    BY <2>1 DEF FundDealEffect
  <2> HIDE DEF bal, led, n, escrow
  <2>3. /\ DOMAIN q = DealFields /\ q.alive = TRUE /\ q.opened = FALSE
        /\ q.disputed = FALSE /\ q.probeAccepted = FALSE /\ q.tokensFinal = 0
        /\ q.tokensPend = 0 /\ q.tokensPaid = 0 /\ q.weekBaseTokens = 0
        /\ q.funded = TRUE /\ q.deposit = escrow /\ q.subWeeks = SUB_WEEKS /\ q.weekIndex = 0
        /\ q.periodStart = 1 /\ q.tokensPerWeek = (ticks * TICK_SIZE) \div SUB_WEEKS
        /\ q.fundedTokens = ticks * TICK_SIZE /\ q.lastClaimTime = 1
    BY <1>12 DEF DealFields
  <2> HIDE DEF q
  <2>4. n = [q EXCEPT !.balance = bal2, !.got = led2]
    BY <2>2, <2>3 DEF PayShell, DealFields
  <2> HIDE DEF bal2, led2
  <2> QED
    BY <2>3, <2>4 DEF DealFields
<1> HIDE DEF n
\* and the deal is opened
<1>14. /\ DOMAIN o = DealFields /\ o.alive = TRUE /\ o.opened = TRUE
       /\ o.disputed = FALSE /\ o.probeAccepted = FALSE /\ o.tokensFinal = 0
       /\ o.tokensPend = 0 /\ o.tokensPaid = 0 /\ o.weekBaseTokens = 0
       /\ o.funded = TRUE /\ o.deposit = escrow - P /\ o.probeTick = P
       /\ o.subWeeks = SUB_WEEKS /\ o.weekIndex = 0
       /\ o.periodStart = 1 /\ o.tokensPerWeek = (ticks * TICK_SIZE) \div SUB_WEEKS
       /\ o.fundedTokens = ticks * TICK_SIZE /\ o.lastClaimTime = 1
  <2> HIDE DEF escrow
  <2> QED
    BY <1>13 DEF OpenEffect, DealFields
<1> HIDE DEF o
<1>15. /\ ticks * TICK_SIZE \in Nat /\ ticks * TICK_SIZE >= TICK_SIZE
       /\ (ticks * TICK_SIZE) \div SUB_WEEKS \in Nat
       /\ (ticks * TICK_SIZE) \div SUB_WEEKS >= TICK_SIZE
  BY WeeklyTick
<1>16. escrow - P \in Int /\ P \in Int
  BY <1>2, <1>3, PriceAssumption
<1> HIDE DEF escrow
<1>17. Marked(o)
  <2>1. /\ o.probeAccepted \in BOOLEAN /\ o.disputed \in BOOLEAN
        /\ o.opened \in BOOLEAN /\ o.funded \in BOOLEAN
    BY <1>14
  <2>2. o.deposit \in Int /\ o.probeTick \in Int
    BY <1>14, <1>16
  <2>3. /\ o.tokensFinal \in Nat /\ o.tokensPend \in Nat /\ o.lastClaimTime \in Nat
        /\ o.weekIndex \in Nat /\ o.tokensPaid \in Nat /\ o.periodStart \in Nat
        /\ o.weekBaseTokens \in Nat
    BY <1>14
  <2>4. o.tokensPerWeek \in Nat /\ o.fundedTokens \in Nat
    BY <1>14, <1>15
  <2> QED
    BY <1>14, <2>1, <2>2, <2>3, <2>4 DEF Marked
<1>18. UnderWay(o, 1)
  BY <1>14, <1>15, <1>17, TimeAssumption DEF UnderWay
<1> QED
  BY <1>4, <1>18

\* So is the deal the keeper starts with.
LEMMA KeeperInitDeal == KeeperInit => DealSound
<1> SUFFICES ASSUME KeeperInit PROVE DealSound
  OBVIOUS
<1>1. PICK b \in Buyers, ticks \in WeeklyFills : deal = OpenedDeal(b, ticks, 1)
  BY DEF KeeperInit
<1>2. UnderWay(deal, 1) /\ now = 1
  BY <1>1, OpenedDealUnderWay DEF KeeperInit
<1>3. /\ DOMAIN deal = DealFields /\ deal.alive \in BOOLEAN
      /\ deal.periodStart \in Nat /\ deal.subWeeks = SUB_WEEKS /\ deal.periodStart <= 1
  BY <1>2 DEF UnderWay, Marked
<1> QED
  BY <1>2, <1>3 DEF DealSound

\* The invariant holds when the keeper starts.
LEMMA KeeperInitInv == KeeperInit => KeeperInv
<1> SUFFICES ASSUME KeeperInit PROVE KeeperInv
  OBVIOUS
<1>1. DealSound /\ now \in Nat
  BY KeeperInitDeal DEF DealSound
<1>2. PICK skew \in Skews : keeper = Fresh(skew, 0)
  BY DEF KeeperInit
<1>3. /\ DOMAIN keeper = {"pc", "skew", "clock", "last", "plan", "call", "restarts"}
      /\ keeper.pc = "schedule" /\ keeper.skew = skew /\ keeper.last = NoSnapshot
      /\ skew \in Int /\ keeper.clock \in Int /\ (skew <= 0 => keeper.clock <= now)
  BY <1>1, <1>2, FreshTyped
<1>4. TaskTyped
  BY <1>3 DEF TaskTyped, Places, NotAhead
<1> QED
  BY <1>1, <1>3, <1>4 DEF KeeperInv, ReadEarlier, ReadSound, CallFits, DoneMeansClosed
-----------------------------------------------------------------------------
(***************************************************************************)
(* Theorems.                                                               *)
(***************************************************************************)

\* The deal beside a keeper is under way or gone, and a task that ended has seen
\* it gone; the clock does not matter for this.
LEMMA EndIsClose ==
  ASSUME DealSound, DoneMeansClosed, "pc" \in DOMAIN keeper, [KeeperNext]_keeperVars
  PROVE  DealSound' /\ DoneMeansClosed' /\ "pc" \in DOMAIN keeper'
<1>1. deal.alive \in BOOLEAN /\ (deal.alive => Marked(deal))
  BY DEF DealSound, UnderWay
<1>2. ASSUME UNCHANGED <<deal, now>>, "pc" \in DOMAIN keeper',
             keeper'.pc = "done" => keeper.pc = "done" \/ ~deal.alive
      PROVE  DealSound' /\ DoneMeansClosed' /\ "pc" \in DOMAIN keeper'
  BY <1>2 DEF DealSound, DoneMeansClosed
<1>3. ASSUME NEW next \in {"reread", "send"}, deal.alive, Planned(DealSnapshot, next)
      PROVE  UNCHANGED <<deal, now>> /\ "pc" \in DOMAIN keeper' /\ keeper'.pc # "done"
  <2> DEFINE s == DealSnapshot
             p == Plan(s, keeper.clock)
  <2>1. SameReading(s, deal)
    BY <1>3, SnapshotTells
  <2>2. UnderWay(deal, now)
    BY <1>3 DEF DealSound
  <2> HIDE DEF s
  <2>3. Reading(s) /\ s.opened /\ ~IsStopped(s)
    BY <1>1, <1>3, <2>1, <2>2 DEF SameReading, Reading, Marked, UnderWay, IsStopped
  <2>4. p.does = "wait" \/ p.does \in {"finalize", "settleWeek"}
    BY <2>3, PlanTells
  <2>5. \/ Task(AsleepAt(s, p.until))
        \/ Task([keeper EXCEPT !.pc = next, !.last = s, !.plan = p])
    BY <1>3, <2>4 DEF Planned, s
  <2> HIDE DEF p
  <2> QED
    BY <2>5 DEF Task, AsleepAt
<1>4. ASSUME Done, ~deal.alive
      PROVE  UNCHANGED <<deal, now>> /\ "pc" \in DOMAIN keeper'
  BY <1>4 DEF Done, Task, Ended
<1>5. ASSUME Fail
      PROVE  UNCHANGED <<deal, now>> /\ "pc" \in DOMAIN keeper' /\ keeper'.pc # "done"
  BY <1>5 DEF Fail, Task, Ended
<1>6. CASE Schedule
  <2>1. CASE deal.alive
    <3>1. DealSnapshot # NoSnapshot
      BY <2>1, SnapshotTells
    <3>2. Planned(DealSnapshot, "reread") \/ Fail
      BY <1>6, <3>1 DEF Schedule
    <3> QED
      BY <1>2, <1>3, <1>5, <2>1, <3>2
  <2>2. CASE ~deal.alive
    <3>1. Done \/ Fail
      BY <1>6, <2>2, SnapshotTells DEF Schedule
    <3> QED
      BY <1>2, <1>4, <1>5, <2>2, <3>1
  <2> QED
    BY <1>1, <2>1, <2>2
<1>7. CASE Reread
  <2>1. CASE deal.alive
    <3>1. DealSnapshot # NoSnapshot
      BY <2>1, SnapshotTells
    <3>2. Planned(DealSnapshot, "send") \/ Fail
      BY <1>7, <3>1 DEF Reread
    <3> QED
      BY <1>2, <1>3, <1>5, <2>1, <3>2
  <2>2. CASE ~deal.alive
    <3>1. Done
      BY <1>7, <2>2, SnapshotTells DEF Reread
    <3> QED
      BY <1>2, <1>4, <2>2, <3>1
  <2> QED
    BY <1>1, <2>1, <2>2
<1>8. CASE Send \/ Lose \/ Wake \/ Crash \/ ObserverFails \/ Restart
  <2>1. UNCHANGED <<deal, now>> /\ "pc" \in DOMAIN keeper' /\ keeper'.pc # "done"
    <3>1. CASE Send
      BY <3>1 DEF Send, Task
    <3>2. CASE Lose
      BY <3>2 DEF Lose, Task
    <3>3. CASE Wake
      BY <3>3 DEF Wake, Task, NextStep
    <3>4. CASE Crash
      BY <3>4 DEF Crash, Task, Ended
    <3>5. CASE ObserverFails
      BY <3>5 DEF ObserverFails, Task, Ended
    <3>6. CASE Restart
      BY <3>6 DEF Restart, Task, Fresh
    <3> QED
      BY <1>8, <3>1, <3>2, <3>3, <3>4, <3>5, <3>6
  <2> QED
    BY <1>2, <2>1
<1>9. CASE Reconcile
  <2>1. CASE deal.alive
    <3> DEFINE s == DealSnapshot
    <3>1. s # NoSnapshot /\ SameReading(s, deal) /\ UnderWay(deal, now)
      BY <2>1, SnapshotTells DEF DealSound
    <3>2. ~IsStopped(s)
      BY <3>1 DEF SameReading, UnderWay, IsStopped
    <3>3. Task(AsleepAt(s, LocalClock + Idle)) \/ Task(NextStep(s)) \/ Fail
      BY <1>9, <3>1, <3>2 DEF Reconcile
    <3> HIDE DEF s
    <3>4. UNCHANGED <<deal, now>> /\ "pc" \in DOMAIN keeper' /\ keeper'.pc # "done"
      BY <1>5, <3>3 DEF Task, AsleepAt, NextStep
    <3> QED
      BY <1>2, <3>4
  <2>2. CASE ~deal.alive
    <3>1. Done
      BY <1>9, <2>2, SnapshotTells DEF Reconcile
    <3> QED
      BY <1>2, <1>4, <2>2, <3>1
  <2> QED
    BY <1>1, <2>1, <2>2
<1>10. ASSUME Moved, deal.alive, "pc" \in DOMAIN keeper', keeper'.pc = keeper.pc
       PROVE  DealSound' /\ DoneMeansClosed' /\ "pc" \in DOMAIN keeper'
  BY <1>10, MovedSound DEF DoneMeansClosed
<1>11. CASE Land
  <2>1. "pc" \in DOMAIN keeper' /\ keeper'.pc = keeper.pc
    BY <1>11 DEF Land
  <2>2. CASE Finalize \/ SettleWeek
    <3>1. deal.alive /\ Moved
      BY <2>2, FinalizeMoved, SettleWeekMoved DEF Finalize, SettleWeek, Call
    <3> QED
      BY <1>10, <2>1, <3>1
  <2>3. CASE UNCHANGED <<deal, now>>
    BY <1>2, <2>1, <2>3
  <2> QED
    BY <1>11, <2>2, <2>3 DEF Land
<1>12. CASE Others
  <2>1. Moved /\ deal.alive /\ keeper' = keeper
    BY <1>12, OthersMoved
  <2> QED
    BY <1>10, <2>1
<1>13. CASE Blocks
  BY <1>13, TimeStepSound DEF Blocks, DoneMeansClosed
<1>14. CASE UNCHANGED keeperVars
  BY <1>2, <1>14 DEF keeperVars
<1> QED
  BY <1>6, <1>7, <1>8, <1>9, <1>11, <1>12, <1>13, <1>14 DEF KeeperNext, KeeperStep, Finished

\* The keeper's task ends only when the deal has: it never walks away from a
\* subscription that still has weeks to settle, whatever its clock shows.
THEOREM EndsWithDeal == KeeperSpec => []DoneMeansClosed
<1> DEFINE J == DealSound /\ DoneMeansClosed /\ "pc" \in DOMAIN keeper
<1>1. KeeperInit => J
  <2> SUFFICES ASSUME KeeperInit PROVE J
    OBVIOUS
  <2>1. PICK skew \in Skews : keeper = Fresh(skew, 0)
    BY DEF KeeperInit
  <2>2. "pc" \in DOMAIN keeper /\ keeper.pc = "schedule"
    BY <2>1 DEF Fresh
  <2> QED
    BY <2>2, KeeperInitDeal DEF DoneMeansClosed
<1>2. J /\ [KeeperNext]_keeperVars => J'
  BY EndIsClose
<1>3. J => DoneMeansClosed
  OBVIOUS
<1> HIDE DEF J
<1> QED
  BY <1>1, <1>2, <1>3, PTL DEF KeeperSpec

\* Reads, plans, the call in flight and the deal agree after every step, whatever
\* the seller's clock shows.
THEOREM KeeperInvariant == KeeperSpec => []KeeperInv
<1>1. KeeperInit => KeeperInv
  BY KeeperInitInv
<1>2. KeeperInv /\ [KeeperNext]_keeperVars => KeeperInv'
  BY KeeperNextKeeps
<1> QED
  BY <1>1, <1>2, PTL DEF KeeperSpec

\* A step that fails is one of the three reads, and has its cause.
LEMMA FailsForCause ==
  ASSUME KeeperInv, [KeeperNext]_keeperVars, keeper.pc # "failed", keeper'.pc = "failed"
  PROVE  Excused
<1>1. /\ DealSound /\ ReadEarlier /\ ReadSound /\ "pc" \in DOMAIN keeper /\ deal.alive \in BOOLEAN
      /\ DOMAIN keeper = {"pc", "skew", "clock", "last", "plan", "call", "restarts"}
  BY DEF KeeperInv, DealSound, TaskTyped
<1>2. Done => FALSE
  BY <1>1 DEF Done, Task, Ended
<1>3. ASSUME NEW next \in {"reread", "send"}, deal.alive, Planned(DealSnapshot, next)
      PROVE  FALSE
  <2> DEFINE s == DealSnapshot
             p == Plan(s, keeper.clock)
  <2>1. \/ Task(AsleepAt(s, p.until)) \/ Done
        \/ Task([keeper EXCEPT !.pc = next, !.last = s, !.plan = p])
    BY <1>3 DEF Planned
  <2> HIDE DEF s, p
  <2> QED
    BY <1>1, <1>2, <2>1 DEF Task, AsleepAt
<1>4. CASE Schedule
  <2>1. CASE ~deal.alive
    BY <1>1, <1>2, <1>4, <2>1, SnapshotTells DEF Schedule, Excused
  <2>2. CASE deal.alive
    <3>1. Servable(DealSnapshot) /\ Acceptable(DealSnapshot) => FALSE
      BY <1>1, <1>3, <1>4, <2>2, SnapshotTells DEF Schedule
    <3> QED
      BY <1>1, <2>2, <3>1, SnapshotAccepted DEF Excused
  <2> QED
    BY <1>1, <2>1, <2>2
<1>5. CASE Reread
  <2>1. deal.alive
    BY <1>1, <1>2, <1>5, SnapshotTells DEF Reread
  <2>2. Servable(DealSnapshot) /\ Acceptable(DealSnapshot) => FALSE
    BY <1>1, <1>3, <1>5, <2>1, SnapshotTells DEF Reread
  <2> QED
    BY <1>1, <2>1, <2>2, SnapshotAccepted DEF Excused
<1>6. CASE Reconcile
  <2>1. deal.alive
    BY <1>1, <1>2, <1>6, SnapshotTells DEF Reconcile
  <2>2. CASE ~deal.disputed
    <3> DEFINE s == DealSnapshot
    <3>1. ~IsStopped(s) /\ s # NoSnapshot
      BY <1>1, <2>1, SnapshotAccepted
    <3>2. Task(AsleepAt(s, LocalClock + Idle)) \/ Task(NextStep(s)) \/ Fail
      BY <1>6, <3>1 DEF Reconcile
    <3> HIDE DEF s
    <3>3. Fail
      BY <1>1, <3>2 DEF Task, AsleepAt, NextStep
    <3> QED
      BY <1>6, <2>1, <2>2, <3>3, CallJudged
  <2> QED
    BY <2>1, <2>2 DEF Excused
<1>7. CASE Send \/ Lose \/ Wake \/ Crash \/ ObserverFails \/ Restart
  <2>1. CASE Send \/ Lose
    <3>1. CASE Send
      BY <1>1, <3>1 DEF Send, Task
    <3>2. CASE Lose
      BY <1>1, <3>2 DEF Lose, Task
    <3> QED
      BY <2>1, <3>1, <3>2
  <2>2. CASE Wake \/ Restart
    <3>1. CASE Wake
      BY <1>1, <3>1 DEF Wake, Task, NextStep
    <3>2. CASE Restart
      BY <1>1, <3>2 DEF Restart, Task, Fresh
    <3> QED
      BY <2>2, <3>1, <3>2
  <2>3. CASE Crash \/ ObserverFails
    <3>1. Task(Ended("down")) \/ Task(Ended("unrecorded"))
      BY <2>3 DEF Crash, ObserverFails
    <3> QED
      BY <1>1, <3>1 DEF Task, Ended
  <2> QED
    BY <1>7, <2>1, <2>2, <2>3
<1>8. CASE Land \/ Others \/ Blocks \/ UNCHANGED keeperVars
  BY <1>1, <1>8 DEF Land, Others, Blocks, keeperVars
<1> QED
  BY <1>4, <1>5, <1>6, <1>7, <1>8 DEF KeeperNext, KeeperStep, Finished

\* The keeper never fails without an outside cause, whatever interleaves with
\* its reads and whatever its clock shows.
THEOREM NeverFalseAlarm == KeeperSpec => NoFalseAlarm
<1>1. KeeperInv /\ [KeeperNext]_keeperVars
        => [keeper.pc # "failed" /\ keeper'.pc = "failed" => Excused]_keeperVars
  BY FailsForCause
<1> QED
  BY <1>1, KeeperInvariant, PTL DEF KeeperSpec, NoFalseAlarm
=============================================================================
