--------------------------- MODULE TokenContract ---------------------------
(***************************************************************************)
(* The deal contract of the inference market,                              *)
(* contracts/airegistry/TokenContract.sol: one seller's offer, the escrow  *)
(* and the two bonds behind it, the probe tick, cumulative token claims,   *)
(* the weekly charges of a subscription, and every way a deal can end.     *)
(*                                                                         *)
(* The contract's storage is one record, deal.  Each private function of   *)
(* the source is an operator from such a record to such a record, and each *)
(* public function is one action that composes those operators in the      *)
(* source's order.  A call whose require fails leaves the contract as it   *)
(* was, so requires are the guards of the action.  now is block.timestamp. *)
(*                                                                         *)
(* Left out: gas (the ECC reserve of _chargeGas), events, the endpoint     *)
(* ciphertext and the getters.                                             *)
(***************************************************************************)
EXTENDS Integers

CONSTANTS
  Buyers,                \* buyer notes that may be matched with this deal
  Seller,                \* _sellerNote
  NoBuyer,               \* _buyer before the first match (address 0)
  P,                     \* _pricePerTick
  MaxTicks,              \* _maxTicks
  TICK_SIZE,             \* tokens per tick
  BPS_DENOMINATOR, PLATFORM_FEE_BPS, REBATE_SLOPE_BPS, REBATE_MAX_BPS,
  PROBE_WINDOW, DISPUTE_WINDOW, MATCH_OPEN_TIMEOUT,
  MIN_SECONDS_PER_TICK,
  SUB_WEEK_LEN, SUB_WEEKS,
  FillTicks,             \* sizes of the fills the book may hand over
  Shapes,                \* which deals are matched: subset of BOOLEAN, TRUE = subscription
  BondPayments,          \* amounts the notes attach when they post a bond
  Withdrawals,           \* amounts the seller draws with withdrawShell
  MaxFills,              \* bound: hand-overs per behaviour
  MaxTime                \* bound: last block timestamp

ASSUME PartiesAssumption ==
  /\ Seller \notin Buyers
  /\ NoBuyer \notin Buyers \cup {Seller}

ASSUME PriceAssumption ==
  /\ P \in Nat \ {0}
  /\ MaxTicks \in Nat /\ MaxTicks >= 2
  /\ TICK_SIZE \in Nat \ {0}
  /\ BPS_DENOMINATOR \in Nat \ {0}
  /\ PLATFORM_FEE_BPS \in Nat
  /\ REBATE_SLOPE_BPS \in Nat /\ REBATE_MAX_BPS \in Nat

ASSUME TimeAssumption ==
  /\ PROBE_WINDOW \in Nat /\ DISPUTE_WINDOW \in Nat /\ MATCH_OPEN_TIMEOUT \in Nat
  /\ MIN_SECONDS_PER_TICK \in Nat \ {0}
  /\ SUB_WEEK_LEN \in Nat \ {0}
  /\ SUB_WEEKS \in 1..4
  /\ MaxTime \in Nat

ASSUME InputAssumption ==
  /\ FillTicks \subseteq Nat \ {0}   \* a hand-over of nothing is ignored
  /\ Shapes \subseteq BOOLEAN
  /\ BondPayments \subseteq Nat
  /\ Withdrawals \subseteq Nat
  /\ MaxFills \in Nat

CLAIM_PROMOTE_WINDOW == MIN_SECONDS_PER_TICK
MIN_CLAIM_INTERVAL   == MIN_SECONDS_PER_TICK
\* Slip: a claim may assert a batch after a silence.
BatchClaimDelta == 2 * TICK_SIZE

MAX_CLAIM_DELTA      == TICK_SIZE

Notes == Buyers \cup {Seller}

VARIABLES
  deal,   \* the contract's storage, and four ledgers kept for the properties
  now     \* block.timestamp

vars == <<deal, now>>

Lesser(a, b)  == IF a <= b THEN a ELSE b
Greater(a, b) == IF a >= b THEN a ELSE b
-----------------------------------------------------------------------------
(***************************************************************************)
(* Storage.  authorized is "_iobHash # 0": the seller's note has named the *)
(* book.  put, got and burned are ledgers of what each note paid in, was   *)
(* credited (creditFromDeal) and what was written off (reportDealWriteOff);*)
(* fills counts hand-overs; reported is the last tick count sent to the    *)
(* book.                                                                   *)
(***************************************************************************)
DealFields ==
  {"alive", "authorized", "offerPosted", "buyer", "funded", "opened",
   "everOpened", "disputed", "everDisputed", "probeAccepted",
   "probeTick", "probeTime", "sellerBondFunded", "sellerBond",
   "buyerBondFunded", "buyerBond", "balance", "deposit",
   "finalizedOwed", "feeAccrued", "ticksFinalized", "fundedTime",
   "disputeTime", "subWeeks", "weekIndex", "tokensPerWeek",
   "fundedTokens", "tokensPaid", "periodStart", "weekBaseTokens",
   "tokensFinal", "tokensPend", "lastClaimTime", "put", "got", "burned",
   "fills", "reported"}

Typed(d) ==
  /\ DOMAIN d = DealFields
  /\ d.buyer \in Buyers \cup {NoBuyer}
  /\ d.subWeeks \in {0, SUB_WEEKS}
  /\ d.put \in [Notes -> Nat] /\ d.got \in [Notes -> Nat]
  /\ d.alive \in BOOLEAN /\ d.authorized \in BOOLEAN
  /\ d.offerPosted \in BOOLEAN /\ d.funded \in BOOLEAN
  /\ d.opened \in BOOLEAN /\ d.everOpened \in BOOLEAN
  /\ d.disputed \in BOOLEAN /\ d.everDisputed \in BOOLEAN
  /\ d.probeAccepted \in BOOLEAN /\ d.sellerBondFunded \in BOOLEAN
  /\ d.buyerBondFunded \in BOOLEAN
  /\ d.probeTick \in Nat /\ d.probeTime \in Nat /\ d.sellerBond \in Nat
  /\ d.buyerBond \in Nat /\ d.balance \in Nat /\ d.deposit \in Nat
  /\ d.finalizedOwed \in Nat /\ d.feeAccrued \in Nat
  /\ d.ticksFinalized \in Nat /\ d.fundedTime \in Nat
  /\ d.disputeTime \in Nat /\ d.weekIndex \in Nat
  /\ d.tokensPerWeek \in Nat /\ d.fundedTokens \in Nat
  /\ d.tokensPaid \in Nat /\ d.periodStart \in Nat
  /\ d.weekBaseTokens \in Nat /\ d.tokensFinal \in Nat
  /\ d.tokensPend \in Nat /\ d.lastClaimTime \in Nat
  /\ d.burned \in Nat /\ d.fills \in Nat /\ d.reported \in Nat

NewDeal ==
  [
    alive |-> TRUE, authorized |-> FALSE, offerPosted |-> FALSE,
    buyer |-> NoBuyer,
    funded |-> FALSE, opened |-> FALSE, everOpened |-> FALSE,
    disputed |-> FALSE, everDisputed |-> FALSE,
    probeAccepted |-> FALSE, probeTick |-> 0, probeTime |-> 0,
    sellerBondFunded |-> FALSE, sellerBond |-> 0,
    buyerBondFunded |-> FALSE, buyerBond |-> 0,
    balance |-> 0, deposit |-> 0, finalizedOwed |-> 0, feeAccrued |-> 0,
    ticksFinalized |-> 0, fundedTime |-> 0, disputeTime |-> 0,
    subWeeks |-> 0, weekIndex |-> 0, tokensPerWeek |-> 0,
    fundedTokens |-> 0, tokensPaid |-> 0, periodStart |-> 0, weekBaseTokens |-> 0,
    tokensFinal |-> 0, tokensPend |-> 0, lastClaimTime |-> 0,
    put |-> [n \in Notes |-> 0], got |-> [n \in Notes |-> 0], burned |-> 0,
    fills |-> 0, reported |-> 0 ]

Init == now = 0 /\ deal = NewDeal
-----------------------------------------------------------------------------
(***************************************************************************)
(* Money in and out.                                                       *)
(***************************************************************************)
Credit(ledger, n, amount) == [ledger EXCEPT ![n] = @ + amount]

Receive(d, n, amount) ==
  [d EXCEPT !.balance = @ + amount, !.put = Credit(@, n, amount)]

PayShell(d, n, amount) ==
  [d EXCEPT !.balance = @ - amount, !.got = Credit(@, n, amount)]

BurnShell(d, amount) ==
  [d EXCEPT !.balance = @ - amount, !.burned = @ + amount]

Fee(amount) == (amount * PLATFORM_FEE_BPS) \div BPS_DENOMINATOR

Unit == P + Fee(P)

BondAmount == 2 * P

Rebate(n) ==
  (Lesser(REBATE_SLOPE_BPS * n, REBATE_MAX_BPS) * n * P) \div BPS_DENOMINATOR

\* _valueOf: what n tokens pay the seller, and the platform fee on top.
PayOf(n) == (n * P) \div TICK_SIZE
FeeOf(n) == Fee(PayOf(n))

IsSubscription(d) == d.subWeeks # 0

ReportFinalized(d) ==
  IF d.ticksFinalized = 0 \/ ~d.authorized THEN d
  ELSE [d EXCEPT !.reported = d.ticksFinalized]

SettleFees(d, clean) ==
  LET rebate == IF clean /\ ~d.everDisputed
                THEN Lesser(Rebate(d.ticksFinalized), d.feeAccrued) ELSE 0
  IN  ReportFinalized(
        BurnShell([d EXCEPT !.finalizedOwed = @ + rebate, !.feeAccrued = 0],
                  d.feeAccrued - rebate))

Die(d) == [d EXCEPT !.alive = FALSE]

PayOwedAndDie(d) ==
  LET paid == PayShell([d EXCEPT !.finalizedOwed = 0], Seller, d.finalizedOwed)
  IN  Die(PayShell(paid, Seller, paid.balance))

\* Slip: the clamp is missing.
ChargeUnclamped(d, n) ==
  [d EXCEPT !.deposit = @ - (PayOf(n) + FeeOf(n)),
            !.finalizedOwed = @ + PayOf(n), !.feeAccrued = @ + FeeOf(n)]

\* Take the price of n tokens out of the escrow, clamped as one sum: when the
\* escrow is short the fee is served first and the seller gets what is left.
ChargeTokens(d, n) ==
  LET short == PayOf(n) + FeeOf(n) > d.deposit
      fee   == IF short THEN Lesser(d.deposit, FeeOf(n)) ELSE FeeOf(n)
      pay   == IF short THEN d.deposit - fee ELSE PayOf(n)
  IN  [d EXCEPT !.deposit = @ - (pay + fee),
                !.finalizedOwed = @ + pay,
                !.feeAccrued = @ + fee]
-----------------------------------------------------------------------------
(***************************************************************************)
(* Claims and weeks.                                                       *)
(***************************************************************************)
WindowPassed(d, t) == t >= d.lastClaimTime + CLAIM_PROMOTE_WINDOW

Promote(d) == [d EXCEPT !.tokensFinal = Greater(d.tokensFinal, d.tokensPend)]

PromoteDue(d, t) == IF WindowPassed(d, t) THEN Promote(d) ELSE d

WeeksElapsedAt(d, t) == Lesser((t - d.periodStart) \div SUB_WEEK_LEN, d.subWeeks)

WeeksStartedAt(d, t) ==
  LET e == WeeksElapsedAt(d, t) IN IF e < d.subWeeks THEN e + 1 ELSE e

\* Slip: the paid mark is left behind.
ChargeUnmarkedWeek(d) ==
  LET target == (d.weekIndex + 1) * d.tokensPerWeek
      due    == IF target > d.tokensPaid THEN target - d.tokensPaid ELSE 0
  IN  [ChargeTokens(d, due) EXCEPT
         !.weekIndex = @ + 1,
         !.weekBaseTokens = Greater(d.tokensFinal, d.tokensPend)]

ChargeOneWeek(d) ==
  LET target == (d.weekIndex + 1) * d.tokensPerWeek
      due    == IF target > d.tokensPaid THEN target - d.tokensPaid ELSE 0
  IN  [ChargeTokens(d, due) EXCEPT
         !.tokensPaid = target,
         !.weekIndex = @ + 1,
         !.weekBaseTokens = Greater(d.tokensFinal, d.tokensPend)]

\* The loop of _chargeWeeksThrough.  weekIndex < target <= SUB_WEEKS <= 4, so
\* four iterations are all it can make.
ChargeWeeksThrough(d, target) ==
  LET Step(e) == IF e.weekIndex < target THEN ChargeOneWeek(e) ELSE e
  IN  IF IsSubscription(d) /\ d.probeAccepted
      THEN Step(Step(Step(Step(d)))) ELSE d

RecordDelivered(d) ==
  LET delivered == IF d.probeAccepted THEN Greater(d.tokensFinal, TICK_SIZE)
                   ELSE d.tokensFinal
  IN  [d EXCEPT !.ticksFinalized = delivered \div TICK_SIZE]

SettleBoundaries(d, due) ==
  IF due <= d.weekIndex THEN d
  ELSE ReportFinalized(RecordDelivered(ChargeWeeksThrough(d, due)))

\* Slip: claims go on after the term.
ClaimCapOpenEnded(d) ==
  IF ~IsSubscription(d) THEN d.fundedTokens
  ELSE Lesser(d.weekBaseTokens + d.tokensPerWeek, d.fundedTokens)

ClaimCap(d) ==
  IF ~IsSubscription(d) THEN d.fundedTokens
  ELSE IF d.weekIndex >= d.subWeeks THEN d.tokensPend
  ELSE Lesser(d.weekBaseTokens + d.tokensPerWeek, d.fundedTokens)
-----------------------------------------------------------------------------
(***************************************************************************)
(* Closing.                                                                *)
(***************************************************************************)
ReleaseProbe(d) ==
  IF d.probeAccepted THEN d
  ELSE [d EXCEPT !.deposit = @ + d.probeTick, !.probeTick = 0]

ReleaseBuyerBond(d) == [d EXCEPT !.deposit = @ + d.buyerBond, !.buyerBond = 0]

ReturnBond(d) ==
  IF d.sellerBond = 0 THEN d
  ELSE PayShell([d EXCEPT !.sellerBond = 0, !.sellerBondFunded = FALSE],
                Seller, d.sellerBond)

ForfeitBonds(d, fromBuyer, fromSeller) ==
  LET b == Lesser(fromBuyer, d.buyerBond)
      s == Lesser(fromSeller, d.sellerBond)
  IN  BurnShell([d EXCEPT !.buyerBond = @ - b, !.sellerBond = @ - s], b + s)

\* Everything left in the escrow goes back to the buyer, the seller's bond
\* joins what he is owed, fees settle, and the deal dies.
RefundAndDie(d, clean, refund) ==
  LET moved == [d EXCEPT !.deposit = 0, !.buyerBond = 0, !.opened = FALSE,
                         !.finalizedOwed = @ + d.sellerBond, !.sellerBond = 0]
  IN  PayOwedAndDie(PayShell(SettleFees(moved, clean), d.buyer, refund))

CloseClean(d) ==
  LET c == RecordDelivered(ReleaseBuyerBond(ReleaseProbe(d)))
  IN  RefundAndDie(c, TRUE, c.deposit)

PayFinalAndClose(d) ==
  LET owed == IF ~IsSubscription(d) /\ d.tokensFinal > d.tokensPaid
              THEN d.tokensFinal - d.tokensPaid ELSE 0
      paid == ChargeTokens(d, owed)
  IN  CloseClean([paid EXCEPT !.tokensPaid =
                    IF owed > 0 THEN d.tokensFinal ELSE @])

\* The mark a dispute measures unpaid claims from.
ClaimBase(d) ==
  IF IsSubscription(d) /\ d.weekIndex > 0 THEN d.weekBaseTokens ELSE d.tokensPaid

ClaimedUnpaidValue(d) ==
  LET n == IF d.tokensPend > ClaimBase(d) THEN d.tokensPend - ClaimBase(d) ELSE 0
  IN  PayOf(n) + FeeOf(n)

\* Slip: a dispute about nothing costs nothing.
DisputeStakeWithoutFloor(d) ==
  LET mine == IF IsSubscription(d) THEN d.buyerBond ELSE d.deposit
  IN  Lesser(Lesser(Lesser(ClaimedUnpaidValue(d), BondAmount), mine), d.sellerBond)

DisputeStake(d) ==
  LET shaped == Lesser(Greater(ClaimedUnpaidValue(d), P), BondAmount)
      mine   == IF IsSubscription(d) THEN d.buyerBond ELSE d.deposit
  IN  Lesser(Lesser(shaped, mine), d.sellerBond)

VoidClaims(d) ==
  LET kept == IF d.tokensPend > d.tokensFinal
                 /\ d.lastClaimTime + CLAIM_PROMOTE_WINDOW <= d.disputeTime
              THEN d.tokensPend ELSE d.tokensFinal
  IN  [d EXCEPT !.tokensFinal = kept, !.tokensPend = kept]

\* On a subscription past its probe only whole unstarted weeks are refunded;
\* the unearned rest of the disputed week is burned.
Refundable(d) ==
  LET started   == WeeksStartedAt(d, d.disputeTime)
      unstarted == IF d.subWeeks > started THEN d.subWeeks - started ELSE 0
      n         == unstarted * d.tokensPerWeek
  IN  IF IsSubscription(d) /\ d.probeAccepted
      THEN Lesser(d.deposit, PayOf(n) + FeeOf(n)) ELSE d.deposit

SettleTrustedAndClose(d, buyerStake, sellerStake) ==
  LET weeks   == ChargeWeeksThrough(ReleaseProbe(d), WeeksElapsedAt(d, d.disputeTime))
      base    == ClaimBase(weeks)
      owed    == IF weeks.tokensFinal > base THEN weeks.tokensFinal - base ELSE 0
      trusted == [RecordDelivered(ChargeTokens(weeks, owed)) EXCEPT
                    !.tokensPaid = Greater(@, weeks.tokensFinal)]
      fined   == ForfeitBonds(trusted, buyerStake, sellerStake)
      refund  == Refundable(fined)
  IN  RefundAndDie(BurnShell(fined, fined.deposit - refund), FALSE,
                   refund + fined.buyerBond)
-----------------------------------------------------------------------------
(***************************************************************************)
(* The effect of each public function on the storage of a living deal.     *)
(***************************************************************************)
RecordDealShape(d, t, sub, ticks) ==
  LET tokens == ticks * TICK_SIZE
      weeks  == IF sub THEN SUB_WEEKS ELSE 0
  IN  [d EXCEPT !.subWeeks = weeks, !.weekIndex = 0, !.periodStart = t,
                !.tokensPerWeek = IF sub THEN tokens \div SUB_WEEKS ELSE tokens,
                !.fundedTokens = tokens, !.lastClaimTime = t]

RecordFunding(d, t, b, paid) ==
  [d EXCEPT !.buyer = b, !.deposit = paid, !.funded = TRUE,
            !.offerPosted = FALSE, !.fundedTime = t]

FundFromOrderBookEffect(d, t, b, paid, sub) ==
  LET held   == [Receive(d, b, paid) EXCEPT !.fills = @ + 1]
      bond   == IF sub THEN BondAmount ELSE 0
      escrow == paid - bond
      bonded == [held EXCEPT !.buyerBond = bond, !.buyerBondFunded = @ \/ bond > 0]
  IN  IF d.funded \/ paid < bond \/ escrow < 2 * Unit \/ escrow > MaxTicks * Unit
      THEN PayShell(held, b, paid)
      ELSE RecordDealShape(RecordFunding(bonded, t, b, escrow), t, sub, escrow \div Unit)

PostFromNoteEffect(d) ==
  [d EXCEPT !.authorized = TRUE, !.offerPosted = d.offerPosted \/ ~d.funded]

OnSellClosedEffect(d) == [d EXCEPT !.offerPosted = d.funded /\ d.offerPosted]

CloseEffect(d) ==
  LET back == ReturnBond(d) IN Die(PayShell(back, Seller, back.balance))

FundDealEffect(d, amount) ==
  PayShell([Receive(d, Seller, amount) EXCEPT
              !.sellerBond = BondAmount, !.sellerBondFunded = TRUE],
           Seller, amount - BondAmount)

FundBuyerBondEffect(d, amount) ==
  PayShell([Receive(d, d.buyer, amount) EXCEPT
              !.buyerBond = BondAmount, !.buyerBondFunded = TRUE],
           d.buyer, amount - BondAmount)

OpenEffect(d, t) ==
  [d EXCEPT !.probeTick = P, !.deposit = @ - P, !.probeAccepted = FALSE,
            !.probeTime = t, !.lastClaimTime = t, !.opened = TRUE, !.everOpened = TRUE]

\* Slip: the probe is paid to the seller and still held.
AcceptProbeTwice(d, t) ==
  LET fee == Lesser(Fee(P), d.deposit)
  IN  [d EXCEPT !.finalizedOwed = @ + d.probeTick, !.feeAccrued = @ + fee,
                !.deposit = @ - fee, !.probeAccepted = TRUE,
                !.periodStart = t, !.tokensPaid = TICK_SIZE,
                !.tokensFinal = TICK_SIZE, !.tokensPend = TICK_SIZE,
                !.weekBaseTokens = 0, !.ticksFinalized = 1, !.lastClaimTime = t]

AcceptProbeEffect(d, t) ==
  LET fee == Lesser(Fee(P), d.deposit)
  IN  [d EXCEPT !.finalizedOwed = @ + d.probeTick, !.feeAccrued = @ + fee,
                !.deposit = @ - fee, !.probeTick = 0, !.probeAccepted = TRUE,
                !.periodStart = t, !.tokensPaid = TICK_SIZE,
                !.tokensFinal = TICK_SIZE, !.tokensPend = TICK_SIZE,
                !.weekBaseTokens = 0, !.ticksFinalized = 1, !.lastClaimTime = t]

\* claimTokens before its last requires: due weeks are charged, then a claim
\* that has outlived its window is promoted.
BeforeClaim(d, t) == PromoteDue(SettleBoundaries(d, WeeksElapsedAt(d, t)), t)

ClaimTokensEffect(d, t, cumulative) ==
  [BeforeClaim(d, t) EXCEPT !.tokensPend = cumulative, !.lastClaimTime = t]

\* Slip: the full volume is in, and the deal closes without charging for it.
FinalizeUnpaid(d, t) ==
  LET p == PromoteDue(d, t)
  IN  IF ~IsSubscription(p) /\ p.tokensFinal >= p.fundedTokens THEN CloseClean(p) ELSE p

FinalizeEffect(d, t) ==
  LET p == PromoteDue(d, t)
  IN  IF ~IsSubscription(p) /\ p.tokensFinal >= p.fundedTokens
      THEN PayFinalAndClose(p) ELSE p

SettleWeekEffect(d, t) ==
  LET s == SettleBoundaries(d, WeeksElapsedAt(d, t))
  IN  IF s.weekIndex >= s.subWeeks /\ WindowPassed(s, t)
      THEN PayFinalAndClose(PromoteDue(s, t)) ELSE s

\* The buyer leaves during the trial: the probe tick burns, and a matching
\* amount of the seller's bond with it.
StopDuringProbe(d) ==
  LET bondBurn == Lesser(d.probeTick, d.sellerBond)
      r        == ReleaseBuyerBond(d)
      cleared  == [r EXCEPT !.finalizedOwed = @ + (d.sellerBond - bondBurn),
                            !.sellerBond = 0, !.probeTick = 0, !.deposit = 0,
                            !.opened = FALSE]
  IN  PayOwedAndDie(PayShell(BurnShell(cleared, d.probeTick + bondBurn),
                             d.buyer, r.deposit))

StopEffect(d, t) ==
  LET due     == PromoteDue(d, t)
      settled == IF IsSubscription(due) THEN due ELSE ForfeitBonds(Promote(due), P, 0)
  IN  IF d.probeAccepted
      THEN PayFinalAndClose(ChargeWeeksThrough(settled, WeeksStartedAt(d, t)))
      ELSE StopDuringProbe(d)

\* Slip: the seller's exit forgets a matured claim.
SellerStopUnpromoted(d, t) ==
  LET trial   == IF d.probeAccepted THEN d ELSE ForfeitBonds(d, 0, P)
      settled == IF d.probeAccepted /\ ~IsSubscription(d)
                 THEN ForfeitBonds([trial EXCEPT !.tokensPend = trial.tokensFinal], 0, P)
                 ELSE trial
  IN  PayFinalAndClose(ChargeWeeksThrough(settled, WeeksElapsedAt(d, t)))

SellerStopEffect(d, t) ==
  LET trial   == IF d.probeAccepted THEN d ELSE ForfeitBonds(d, 0, P)
      due     == PromoteDue(trial, t)
      settled == IF d.probeAccepted /\ ~IsSubscription(d)
                 THEN ForfeitBonds([due EXCEPT !.tokensPend = due.tokensFinal], 0, P)
                 ELSE due
  IN  PayFinalAndClose(ChargeWeeksThrough(settled, WeeksElapsedAt(d, t)))

DisputeEffect(d, t) ==
  [d EXCEPT !.disputed = TRUE, !.everDisputed = TRUE, !.disputeTime = t]

\* Slip: the weeks that ended before the dispute are not settled first.
ReleaseWithoutWeeks(d) ==
  LET void == [VoidClaims(d) EXCEPT !.disputed = FALSE]
  IN  IF IsSubscription(d) THEN SettleTrustedAndClose(void, DisputeStake(void), 0)
      ELSE SettleTrustedAndClose(void, P, P)

ReleaseDisputeEffect(d) ==
  LET weeks == ChargeWeeksThrough(d, WeeksElapsedAt(d, d.disputeTime))
      void  == [VoidClaims(weeks) EXCEPT !.disputed = FALSE]
  IN  IF IsSubscription(d) THEN SettleTrustedAndClose(void, DisputeStake(void), 0)
      ELSE SettleTrustedAndClose(void, P, P)

\* Slip: refusing costs the seller no more than conceding.
ResolveLeniently(d) ==
  LET void == [VoidClaims(d) EXCEPT !.disputed = FALSE]
  IN  SettleTrustedAndClose(void, P, P)

ResolveDisputeTimeoutEffect(d) ==
  LET weeks    == ChargeWeeksThrough(d, WeeksElapsedAt(d, d.disputeTime))
      void     == [VoidClaims(weeks) EXCEPT !.disputed = FALSE]
      stake    == DisputeStake(weeks)
      pending  == IF d.tokensPend > d.tokensFinal THEN d.tokensPend - d.tokensFinal ELSE 0
      burnPend == Lesser(PayOf(pending) + FeeOf(pending), d.deposit)
      burnt    == BurnShell([void EXCEPT !.deposit = @ - burnPend], burnPend)
  IN  IF IsSubscription(d) THEN SettleTrustedAndClose(void, stake, stake)
      ELSE SettleTrustedAndClose(burnt, 2 * P, 2 * P)

\* The refund pays the buyer and the seller, burns any residue and leaves the
\* contract standing for a new offer; _buyer keeps the old buyer.
CleanupUnopenedEffect(d) ==
  LET r       == ReleaseBuyerBond(d)
      cleared == [r EXCEPT !.deposit = 0, !.sellerBond = 0, !.funded = FALSE,
                           !.sellerBondFunded = FALSE, !.buyerBondFunded = FALSE,
                           !.offerPosted = FALSE]
      paid    == PayShell(PayShell(cleared, d.buyer, r.deposit), Seller, d.sellerBond)
  IN  BurnShell(paid, paid.balance)

WithdrawShellEffect(d, amount) ==
  LET paid == PayShell([d EXCEPT !.finalizedOwed = @ - amount], Seller, amount)
  IN  IF paid.funded /\ ~paid.opened /\ ~paid.disputed
         /\ paid.finalizedOwed = 0 /\ ~paid.offerPosted
      THEN Die(PayShell(paid, Seller, paid.balance)) ELSE paid

DestroyEffect(d) ==
  LET r      == ReleaseBuyerBond(ReleaseProbe(d))
      refund == PayShell([r EXCEPT !.deposit = 0, !.funded = FALSE], d.buyer, r.deposit)
      back   == ReturnBond(IF d.funded THEN refund ELSE d)
  IN  Die(PayShell(back, Seller, back.balance))
-----------------------------------------------------------------------------
(***************************************************************************)
(* One action per public function.                                         *)
(***************************************************************************)
Call(effect) == deal.alive /\ deal' = effect /\ UNCHANGED now

\* The book hands over a match: trade * unit, plus the buyer's bond when the
\* deal is a subscription.
FundFromOrderBook(b, ticks, sub) ==
  /\ deal.authorized
  /\ deal.fills < MaxFills
  /\ Call(FundFromOrderBookEffect(deal, now, b,
            ticks * Unit + (IF sub THEN BondAmount ELSE 0), sub))

PostFromNote == Call(PostFromNoteEffect(deal))

OnSellClosed == deal.authorized /\ Call(OnSellClosedEffect(deal))

Close == ~deal.funded /\ ~deal.offerPosted /\ Call(CloseEffect(deal))

FundDeal(amount) ==
  /\ ~deal.opened /\ ~deal.sellerBondFunded
  /\ amount >= BondAmount
  /\ Call(FundDealEffect(deal, amount))

FundBuyerBond(amount) ==
  /\ deal.buyer # NoBuyer
  /\ ~deal.opened /\ ~deal.buyerBondFunded
  /\ amount >= BondAmount
  /\ Call(FundBuyerBondEffect(deal, amount))

Open ==
  /\ deal.funded /\ ~deal.opened
  /\ deal.sellerBondFunded /\ deal.buyerBondFunded
  /\ deal.deposit >= P
  /\ Call(OpenEffect(deal, now))

AcceptProbe ==
  /\ deal.opened /\ ~deal.disputed /\ ~deal.probeAccepted
  /\ now >= deal.probeTime + PROBE_WINDOW
  /\ Call(AcceptProbeEffect(deal, now))

ClaimTokens(cumulative) ==
  LET settled == SettleBoundaries(deal, WeeksElapsedAt(deal, now))
      elapsed == now - deal.lastClaimTime
      delta   == cumulative - deal.tokensPend
      ready   == BeforeClaim(deal, now)
  IN  /\ deal.opened /\ ~deal.disputed /\ deal.probeAccepted
      /\ cumulative > deal.tokensPend
      /\ cumulative <= ClaimCap(settled)
      /\ elapsed >= MIN_CLAIM_INTERVAL
      /\ delta <= MAX_CLAIM_DELTA
      /\ delta * MIN_SECONDS_PER_TICK <= elapsed * TICK_SIZE
      /\ ready.tokensPend = ready.tokensFinal
      /\ Call(ClaimTokensEffect(deal, now, cumulative))

\* The requires of finalize.
FinalizeReady ==
  /\ deal.opened /\ ~deal.disputed
  /\ deal.tokensPend > deal.tokensFinal /\ WindowPassed(deal, now)

Finalize == FinalizeReady /\ Call(FinalizeEffect(deal, now))

\* The requires of settleWeek.
SettleWeekReady ==
  /\ IsSubscription(deal)
  /\ deal.opened /\ ~deal.disputed /\ deal.probeAccepted
  /\ \/ WeeksElapsedAt(deal, now) > deal.weekIndex
     \/ deal.weekIndex >= deal.subWeeks

SettleWeek == SettleWeekReady /\ Call(SettleWeekEffect(deal, now))

Stop == deal.opened /\ ~deal.disputed /\ Call(StopEffect(deal, now))

SellerStop == deal.opened /\ ~deal.disputed /\ Call(SellerStopEffect(deal, now))

Dispute == deal.opened /\ ~deal.disputed /\ Call(DisputeEffect(deal, now))

ReleaseDispute == deal.disputed /\ Call(ReleaseDisputeEffect(deal))

\* The requires of resolveDisputeTimeout.
ResolveReady == deal.disputed /\ now >= deal.disputeTime + DISPUTE_WINDOW

ResolveDisputeTimeout == ResolveReady /\ Call(ResolveDisputeTimeoutEffect(deal))

\* The requires of cleanupUnopened.
CleanupReady(byBuyer) ==
  /\ deal.funded /\ ~deal.opened /\ ~deal.everOpened
  /\ byBuyer \/ now >= deal.fundedTime + MATCH_OPEN_TIMEOUT

CleanupUnopened(byBuyer) == CleanupReady(byBuyer) /\ Call(CleanupUnopenedEffect(deal))

WithdrawShell(amount) ==
  /\ 0 < amount /\ amount <= deal.finalizedOwed /\ amount <= deal.balance
  /\ Call(WithdrawShellEffect(deal, amount))

Destroy ==
  /\ ~deal.opened /\ ~deal.disputed /\ ~deal.offerPosted
  /\ Call(DestroyEffect(deal))

AdvanceTime ==
  /\ deal.alive
  /\ now < MaxTime
  /\ now' = now + 1
  /\ UNCHANGED deal

\* A destroyed contract answers no call.
Destroyed == ~deal.alive /\ UNCHANGED vars

Next ==
  \/ \E b \in Buyers, ticks \in FillTicks, sub \in Shapes : FundFromOrderBook(b, ticks, sub)
  \/ PostFromNote \/ OnSellClosed \/ Close
  \/ \E amount \in BondPayments : FundDeal(amount) \/ FundBuyerBond(amount)
  \/ Open \/ AcceptProbe
  \/ \E cumulative \in 0..MaxTicks * TICK_SIZE : ClaimTokens(cumulative)
  \/ Finalize \/ SettleWeek
  \/ Stop \/ SellerStop \/ Dispute \/ ReleaseDispute \/ ResolveDisputeTimeout
  \/ \E byBuyer \in BOOLEAN : CleanupUnopened(byBuyer)
  \/ \E amount \in Withdrawals : WithdrawShell(amount)
  \/ Destroy
  \/ AdvanceTime \/ Destroyed

Spec == Init /\ [][Next]_vars

\* A call that is a function of the state can change it exactly when the
\* contract lives, its requires hold and its effect differs from the state:
\* ENABLED <<call>>_vars, spelled out because it is costly to evaluate.
CanChange(ready, effect) == deal.alive /\ ready /\ effect # deal

\* Blocks keep coming, and the functions anyone may call once they are due are
\* called: the seller's keeper runs settleWeek, the parties' clients the rest.
Fairness ==
  /\ WF_vars(AdvanceTime)
  /\ \/ []<>(~CanChange(SettleWeekReady, SettleWeekEffect(deal, now)))
     \/ []<><<SettleWeek>>_vars
  /\ \/ []<>(~CanChange(CleanupReady(FALSE), CleanupUnopenedEffect(deal)))
     \/ []<><<CleanupUnopened(FALSE)>>_vars
  /\ \/ []<>(~CanChange(ResolveReady, ResolveDisputeTimeoutEffect(deal)))
     \/ []<><<ResolveDisputeTimeout>>_vars

FairSpec == Spec /\ Fairness
-----------------------------------------------------------------------------
(***************************************************************************)
(* Properties.                                                             *)
(***************************************************************************)
\* Every stored figure is a natural number: no subtraction of the settlement
\* code underflows, so no exit can revert and lock the escrow.
TypeOK == Typed(deal) /\ now \in 0..MaxTime

\* What the contract has promised to someone.
Earmarks(d) ==
  d.deposit + d.finalizedOwed + d.feeAccrued + d.buyerBond + d.sellerBond + d.probeTick

\* A living deal holds at least what it has promised: escrow, earnings, fees,
\* both bonds and the probe tick never overlap.
Solvent == deal.alive => Earmarks(deal) <= deal.balance

\* Pay, then die: every close is final, so a living deal that was ever opened
\* is open still, and one that is not open owes neither earnings nor fees.
NoDebtBehindLivingDeal ==
  deal.alive =>
    /\ deal.everOpened = deal.opened
    /\ deal.opened => deal.funded
    /\ deal.disputed \/ deal.probeAccepted => deal.opened
    /\ ~deal.opened => deal.finalizedOwed = 0 /\ deal.feeAccrued = 0
                       /\ deal.probeTick = 0 /\ deal.tokensPend = 0

\* The seller runs at most one tick ahead of what is trusted, so a dispute is
\* never about more than one tick of claims (MAX_CLAIM_DELTA, one pending slot).
OneTickAtRisk ==
  deal.alive => /\ deal.tokensFinal <= deal.tokensPend
                /\ deal.tokensPend <= deal.tokensFinal + TICK_SIZE

\* Over the life of a deal the claims never outrun the physical rate of one
\* tick per MIN_SECONDS_PER_TICK, however the seller spaces them.
ClaimRate ==
  deal.alive /\ deal.opened /\ deal.probeAccepted =>
    (deal.tokensPend - TICK_SIZE) * MIN_SECONDS_PER_TICK
      <= (deal.lastClaimTime - deal.periodStart) * TICK_SIZE

\* However the seller spaces his claims, they stay within one tick of what is
\* trusted and within the physical rate.
ClaimBounds == OneTickAtRisk /\ ClaimRate

\* While a deal is open its escrow still covers every token it may yet have to
\* pay for, so the "clamped as one sum" branches never short the seller.
EscrowCoversFunding ==
  LET left == deal.fundedTokens - deal.tokensPaid
  IN  deal.opened /\ deal.probeAccepted =>
        /\ left >= 0
        /\ PayOf(left) + FeeOf(left) <= deal.deposit

\* What the seller has gained from the deal so far, his standing bond aside.
SellerGain(d) == d.got[Seller] + d.finalizedOwed + d.sellerBond - d.put[Seller]

\* What buyer b has lost to the deal so far.
BuyerLoss(d, b) == d.put[b] - d.got[b]

\* While a subscription runs, the paid mark tells the truth: the seller has
\* earned exactly the price of _tokensPaid tokens, drawn or not.
PaidMarkMatchesEarnings ==
  deal.opened /\ deal.probeAccepted /\ IsSubscription(deal) =>
    SellerGain(deal) = PayOf(deal.tokensPaid)

\* A week's claims never exceed the week's quota, whatever order claims and
\* the keeper's settleWeek come in.
WeeklyQuotaKept ==
  deal.opened /\ deal.probeAccepted /\ IsSubscription(deal) =>
    deal.tokensPend <= deal.weekBaseTokens + deal.tokensPerWeek

\* The books of a subscription add up in every order of claims and settleWeek calls:
\* the quota is kept, the paid mark is what was earned, the escrow covers the rest.
WeeksAddUp == WeeklyQuotaKept /\ PaidMarkMatchesEarnings /\ EscrowCoversFunding

\* What both parties got and what was burned once the deal has settled as e.
Payouts(e) == { <<x.got, x.burned>> : x \in {e} }

\* What the deal pays if, at time t, the buyer stops it, the seller stops it, or
\* the buyer disputes it and the seller concedes.
ExitPayouts(d, t) ==
  << Payouts(StopEffect(d, t)), Payouts(SellerStopEffect(d, t)),
     Payouts(ReleaseDisputeEffect(DisputeEffect(d, t))) >>

\* ... or the buyer disputes it and nobody settles.
RefusedPayouts(d, t) == Payouts(ResolveDisputeTimeoutEffect(DisputeEffect(d, t)))

Streaming == deal.opened /\ ~deal.disputed /\ deal.probeAccepted

\* settleWeek and finalize are permissionless and may come late or never: every
\* way out of a subscription pays both parties the same whether or not one of
\* them came first.
KeeperTimingIrrelevant ==
  Streaming /\ IsSubscription(deal) =>
    LET kept     == {deal, SettleBoundaries(deal, WeeksElapsedAt(deal, now)), PromoteDue(deal, now)}
        outcomes == { <<ExitPayouts(d, now), RefusedPayouts(d, now)>> : d \in kept }
    IN  \A o1, o2 \in outcomes : o1 = o2

\* On any deal, stopping, quitting or conceding pays the same whether or not
\* somebody promoted a matured claim first.
FinalizeTimingIrrelevant ==
  Streaming => ExitPayouts(deal, now) = ExitPayouts(PromoteDue(deal, now), now)

\* In every dispute the seller is strictly better off conceding than letting it
\* time out, and no door is cheaper for the buyer than stop(): a refused dispute,
\* and on a subscription a conceded one too, costs him at least what stop() would
\* have cost when he raised it.
ExitsPriced ==
  deal.disputed =>
    \A conceded \in {ReleaseDisputeEffect(deal)},
       refused  \in {ResolveDisputeTimeoutEffect(deal)},
       stopped  \in {StopEffect([deal EXCEPT !.disputed = FALSE], deal.disputeTime)} :
      LET cost(d) == BuyerLoss(d, deal.buyer)
      IN  /\ SellerGain(conceded) > SellerGain(refused)
          /\ cost(refused) >= cost(stopped)
          /\ IsSubscription(deal) => cost(conceded) >= cost(stopped)

\* A deal streams only with both bonds in: whatever was cleaned up, re-listed or
\* paid late before, open() finds two ticks behind each party.
OpenHoldsBothBonds ==
  [][ deal'.opened /\ ~deal.opened =>
        deal.buyerBond = BondAmount /\ deal.sellerBond = BondAmount ]_vars

Closing == deal.alive /\ ~deal'.alive

\* The tokens a deal owes the seller at time t: trusted ones, and the pending
\* claim once it has stood a full window.
Matured(d, t) == PromoteDue(d, t).tokensFinal

\* An ordinary deal that ends undisputed bills what was claimed: the seller is paid
\* for every matured claim (the most he can lose of it is the tick of bond he
\* forfeits by quitting), the buyer for no more than was claimed plus the tick of
\* bond that stop() forfeits.
FairBill ==
  [][ Closing /\ ~deal.everDisputed /\ deal.probeAccepted /\ ~IsSubscription(deal) =>
        LET later == deal.tokensPend - TICK_SIZE
        IN  /\ SellerGain(deal') + P >= PayOf(Matured(deal, now))
            /\ BuyerLoss(deal', deal.buyer) <= Unit + PayOf(later) + FeeOf(later) + P ]_vars

\* A funded deal that nobody opens is refunded (or opened after all).
NoShowResolved ==
  (deal.funded /\ ~deal.opened /\ now + MATCH_OPEN_TIMEOUT <= MaxTime)
    ~> (deal.opened \/ ~deal.funded \/ ~deal.alive)

\* A dispute never freezes the escrow for good.
DisputeResolved ==
  (deal.disputed /\ now + DISPUTE_WINDOW <= MaxTime) ~> ~deal.alive

\* A subscription past its probe always ends, or is disputed: the seller cannot
\* keep its close out of reach by going on claiming.
SubscriptionEnds ==
  LET horizon == SUB_WEEKS * SUB_WEEK_LEN + CLAIM_PROMOTE_WINDOW
  IN  (Streaming /\ IsSubscription(deal) /\ now + horizon <= MaxTime)
        ~> (~deal.alive \/ deal.disputed)

\* Nobody's money stays frozen: a no-show is refunded, a dispute ends, a
\* subscription past its probe closes or is disputed.
EscrowNeverFrozen == NoShowResolved /\ DisputeResolved /\ SubscriptionEnds
=============================================================================
