# A TLA+ model of the dexdo inference market

dexdo sells LLM inference by the tick. A seller deploys a *deal contract* and
posts it to an *order book*; a buyer's order is matched, the buyer's money moves
into the deal, and both parties' clients then drive the deal (opening, the probe
tick, cumulative token claims, weekly charges, stop, dispute, time-outs) until it
pays everyone and destroys itself. Money lives in *private notes*, which place
the orders, post the bonds and collect what deals and book pay back. The rest of
the repository is the two clients (`crates/dexdo`, `crates/core`) that decide when
to make those calls, and that must not lose track of money while messages are lost,
answers come late, files fail to be written and processes are killed.

The project models both sides. The contracts are modelled whole, because they
cannot be patched after deployment and anyone may call them in any order. Of the
clients it models the parts that keep durable state next to the chain's: what is
submitted and what became of it, what was served and what was claimed, what was
used and what is still owed, and who may write a file.

## 1. Inventory

| component | source | state | operations | hard behaviour |
|---|---|---|---|---|
| deal contract | `contracts/airegistry/TokenContract.sol`, `modifiers/modifiers.sol` | escrow, earnings, fees, two bonds, probe tick, trusted and pending claim, week marks, lifecycle flags | hand-over from the book, bonds, `open`, `acceptProbe`, `claimTokens`, `finalize`, `settleWeek`, `stop`, `sellerStop`, `dispute`, `releaseDispute`, `resolveDisputeTimeout`, `cleanupUnopened`, `withdrawShell`, `close`, `destroy` | permissionless calls in any order, windows racing exits, messages that arrive after the match is gone, unsigned arithmetic in every close |
| order book | `contracts/airegistry/InferenceOrderBook.sol` | order lists per price and per owner, request queue with a resumable head, hand-over ledger, reference-price statistics | `placeSellOffer`, `placeBuyOrder`, `cancelOrder`, `cancelAllOrders`, `expireOrder`, `processHead`, `reportFinalized`, bounce handling | matching cut at a work limit and resumed later, orders that expire in the queue, all-or-none projection against the real match, bounced hand-overs |
| private note | `contracts/dex/PrivateNote.sol` | SHELL balance, resting and pending orders, live deals, withdrawal mark | order placement, bonds, stream control, notices, credits, transfer, withdrawal, `onBounce` | notices, bonds and hand-overs travel on separate messages and bounce |
| seller: offer | `seller/liveness.rs`, `seller/mod.rs`, `cli/seller.rs`, `core/chain/seller_placement.rs`, `core/chain/backends.rs` | submission journal, the ask under watch, the pool's own entry for it | start, post, confirm, supervise, cancel, reap, relist, drain, sweep | a SELL that timed out and lands later, an identity that is stale at shutdown, expiry before the latch is released, a crash between record and send |
| seller: metering | `seller/capacity.rs`, `seller/gateway.rs`, `seller/advance.rs` | capacity file, delivery counters, admitted requests, the driver's position | admit, bill, claim, read back, resume | a write that fails before or after its rename, a claim that lands late, a claim that destroys the deal under a live request |
| seller: weekly keeper | `seller/keeper.rs` | last accepted snapshot, plan | plan, re-read, call, reconcile | plans made on one read and executed after another, restart without a journal |
| buyer: submission | `cli/buyer.rs`, `core/chain/client.rs`, `core/chain/book_events.rs` | submission journal, note pool, subscription records, money lock | buy, resume, journal, shutdown, subscription place/status, adopt | an answer that is lost, facts that might be of another order, crash between record and POST |
| buyer: usage | `buyer/usage*.rs`, `buyer/api/` | requests, calls, totals, quota row and its write-ahead journal, pause of unresolved output | track, admit, verify, answer, finish, abandon, settle, reconcile, close | failing history writes, disconnects, a settlement racing a handler, crash between journal and row |
| pool lock | `cli/commands.rs` | a sentinel file with a record and an advisory lock | acquire, reclaim, update, release | a process killed or overtaken between any two system calls |
| buyer: continuity, routing | `buyer/continuity.rs`, `routing.rs` | current and replacement deal | replace a dying deal | two live deals, or none |
| core: settlement arithmetic, in-memory market, withdrawal gate | `core/src/` | - | - | sequential |
| upstream adapters, wire schema, registry, telemetry, prediction-market book | various | - | - | I/O, or not driven by this client |

`PROJECT.json` lists the components with their status, and the main hazards at the
line where it bites.

Interactions. The note posts an offer through the deal (`postFromNote`), the book
queues and matches it, and sends three messages on a match: the hand-over of the
escrow to the deal, and a fill notice to each note. The notes answer with their
bonds. From there both clients talk to the deal directly; the deal credits the
notes, reports delivered volume to the book, and tells the seller's note when it
closes. A client never hears of any of this: it reads the chain, and keeps a file
for what the chain does not know.

## 2. Modules and plan

| module | models | uses |
|---|---|---|
| `TokenContract` (+ `MCTokenContract`, `DealInv`, `DealProofs`) | the deal contract | - |
| `InferenceOrderBook` (+ `MCInferenceOrderBook`, `InferenceOrderBookInv`, `InferenceOrderBookProofs`) | the order book | deals reduced to what the book sees |
| `SellerOffer` (+ `SellerOfferProofs`) | the seller's care for the ask of one deal | book and deal reduced to what the seller reads |
| `SellerMeter` (+ `MCSellerMeter`, `SellerMeterProofs`) | admission, billing and claims of one deal | the deal reduced to its claims |
| `SubscriptionKeeper` (+ `MCSubscriptionKeeper`, `DealInv`, `DealProofs`) | the weekly keeper | composed with the whole `TokenContract` |
| `BuyerSubmit` (+ `MCBuyerSubmit`, `BuyerSubmitProofs`) | the buyer's money submissions | the book reduced to its outcomes; the lock as a flag |
| `PoolLock` (+ `MCPoolLock`, `PoolLockProofs`) | the sentinel lock, one step per system call | implements `ExclusiveLock` |
| `ExclusiveLock` | what callers of the lock count on | - |
| `QuotaJournal` (+ `MCQuotaJournal`, `QuotaJournalProofs`) | the quota record and its journal | - |
| `UsageLedger` (+ `MCUsageLedger`, `UsageLedgerProofs`) | the usage history of one deal | - |

Next in the plan: the private note and a composition of note, book and deal with messages in flight; the reference
price of the book; continuity of the buyer. No module declares a recursive operator.

Operators marked `Slip`, and the few without that word that stand directly before
the operator they imitate in `SellerOffer`, are plausible mistakes in the operator
that follows them; nothing uses them in the specifications: they are there to show
that each property would notice.

## 3. How each module corresponds to the code

### `TokenContract`

Models `TokenContract.sol` whole. The contract's storage is one record `deal`,
with the source's names; each private function is an operator from such a record
to such a record (`ChargeTokens`, `ChargeOneWeek`, `SettleFees`, `VoidClaims`,
...), and each public function is an action that composes them in the source's
order and has the function's `require`s as its guards. An `XEffect(d, ...)`
operator holds the whole body of function `x`, so that properties can also ask
"what would this exit pay if it were taken now". `now` is `block.timestamp`.

Four fields of `deal` are ledgers that the contract does not store and the
properties need: what each note paid in (`put`), was credited (`got`), what was
written off (`burned`), and the tick count last sent to the book (`reported`);
`fills` counts hand-overs.

The environment is more liberal than the real one. Any note of `Buyers` may be
handed over at any time once the seller's note has named the book, bonds arrive
when they like (before, after or without a hand-over, of the exact or a larger
amount), and each caller may make its calls in any state. What holds under it
holds with the real book and notes.

Left out: the gas reserve (`_chargeGas`), events, the endpoint ciphertext and the
getters.

### `InferenceOrderBook`

Models `InferenceOrderBook.sol` except its reference-price statistics. The
storage is one record `book`. The doubly linked lists an order sits in (its price
level and its owner's orders) both append at the tail, and a head entry gets its
number when it is first matched and rests or ends before the next entry is looked at,
so each list is in increasing order of numbers: `orders`, a function of the numbers,
stands for all of them. `Before` is the order in which a walk of the levels meets two
makers, `First` the one of a set it meets first. The ring of queue slots is a sequence `queue` whose head may carry a
continuation (`contOrderId`, `contRemaining`, `contLeftover`, `contScanOrder`).

`_match` is `Visit` (one iteration of its inner loop) repeated over the crossing
makers from the resume point (`Walked`); `Visit` keeps the source's order of tests: work
limits, deal shape, deadline, all-or-none, two-tick minimum, fill.
`_fokFullyFillable` is a second walk with a loop body of its own (`ForeseeVisit`),
as in the source: that the two agree is a property, not a definition. Every public
function is an action that enqueues and then processes the head
(`ProcessHeadCore`) in the same step, as the contract does; `ProcessHead` is the
book's call to itself.

The environment: a deal is its `alive`, `posted` (`_offerPosted`) and `funded`
flags (and whether it failed to take a hand-over), with `PostFromNote`,
`FundFromOrderBook`, `TakeSellClosed`, `CleanupUnopened` and `DealDies` taken from
`TokenContract.sol`. Messages between the book and one deal keep their order (the
chain orders messages of one pair of accounts), messages of different deals do not.
`Awake` bounds which deals act on what the book sends; the messages to the others
stay under way.

Ledgers the contract does not store: `requests` (what each buy order committed,
spent and got back, and how often its note was told it rests, is refused or is
removed), `landed`, `repaid`, and `trades` (the fills of the last call).

A refused call (bad flags, full queue on the buyer's side) reverts, so it is no
step; a refused cancel changes nothing. Prices are whole multiples of the price
step by construction, and the 128-bit bounds checked at the entry are not modelled.

### `SellerOffer`

The seller's task for one deal is a record `s` whose `pc` is the function it is in;
the actions carry the functions' names (`post_offer`, `confirm_offer_outcome`,
`supervise_with_timing`, `cancel_and_confirm_before`, `reap_state`, ...). What a
function returns to is decided by the fields `outer` (start, watch, relist, final
stop), `loop` (inside the recovery loop of a pending SELL) and `ctx` (who asked for
a cancellation), through the operators `PrepareReady`, `PrepareStops`, `Generation`,
`WatchStops` and `CancelDone`, which are the decisions `decide_after_stop`,
`should_rearm_watcher`, `plan_unproven_start`, `apply_drained_outcome` and the
relisting loop take. Durable are the submission journal (`journal`, the
`SellerPlacement` file) and the recorded fill (`cursor`). The book and the deal run
beside it: a SELL message is under way until it lands, is refused because the latch
is set, or starves for lack of reserve; an ask expires, is swept, cancelled or
filled; the deal hears of the latter (`closing`, `fund`) later.

Abstractions: every authoritative read is one step; a retry loop is not taking the
next step yet; a failed read, an exhausted budget and a failed health check each
spend one of `MaxFaults`. A hand-over is assumed to reach the deal within the budget
in which a client waits for an absent ask to show as a match (`fund # "coming"` in
`cancel_and_confirm_before`); an accepted cancel has no such wait in the code and
none in the model. One deal: provisioning of successor contracts, the other deals of
the pool and the death of the gateway task that ends the pool are not modelled.

### `SellerMeter`

The capacity file (`disk`) and the deal (`chain`) are durable; the capacity entry,
the counters of `DealDelivery`, the requests and the driver die with the process.
`AdmitShared`/`AdmitExclusive` are the gateway's admissions, `CommitBill` and
`PublishBill` the two halves of a bill around its durable write, which may fail
before or after the rename. The driver's actions follow `advance.rs`: register,
reconcile, wait for the probe, accept it, resume, compute the next claim, hold the
exhausting claim back while requests are active, send, read back, finish. A claim
may be lost, or accepted and executed after the driver gave it up (`flight`,
`LateClaim`). For a subscription the keeper's observer refreshes the capacity.

### `SubscriptionKeeper`

Composes the keeper of `keeper.rs` with the whole deal contract: it reads a
snapshot, validates it against the last one (`NonRegressing`), plans from its own
clock, reads again, sends, and judges by a third read. Every reading also goes to the
pool's capacity observer (`cli/seller.rs:286`), whose error ends the keeper: `Servable`
is what `capacity.rs` asks of a live deal (a disputed one is refused), `ObserverFails` a
capacity file that cannot be written. Between any two steps the actions of
`TokenContract` that reach an open subscription may happen; a message may be lost or
late; the process may be restarted. The seller's clock differs from the chain's by a
constant of `Skews`.

### `BuyerSubmit`

The commands that submit or reconcile money run one at a time under the money lock;
each is a sequence of steps (`run.pc`) interleaved with the book. A submission is
signed and recorded, then posted once; the answer may be an acceptance, a decoded
rejection, or uncertain. Only facts close the record: a confirmed fill, or an
outcome the book announced, recognised by side, terms and time as in
`book_events.rs` and `correlated_buy_token_contract`. A crash leaves the lock behind
for the two recovery commands. The client's clock is behind the chain's, with it or
ahead (`Skews`; the preflight admits 30 s behind and 250 s ahead), and a record is
dated by it. An order may end by a fill, a cancel, an expiry or, when the continuation
of its matching lapses, by `InferenceRefunded` alone (`Lapsed`), which the client does
not take for an end. `blurred` is a history variable: it is set once something of
another order could pass for the record's own, that is, a placement or rejection of an
older submission dated at or after the record, or a fill of another order within the
terms of the buy on record. The message may be posted again after a decoded transient
rejection; that the book takes one message once is the chain's replay protection.

### `PoolLock` and `ExclusiveLock`

Every step between two system calls of `with_pool_write_lock`,
`reclaim_pool_write_lock_if_holder_is_gone` and the release is an action, with a
path naming an inode and a handle holding one, so that a removed file can still be
locked. `ExclusiveLock` is the promise: a lock with at most one holder.
`ImplementsExclusiveLock` is its specification under the refinement mapping that
takes the thread between acquiring and unlinking as the holder.

### `QuotaJournal`

One journal file written ahead of one row. The store's methods hold its mutex and
are one step each (`Begin`, `Open`, `Close`, `Discard`, `Restore`), with writes that
fail before or after the rename; the handler's path through `persist_deal_quota` is
split at its reads of the chain. Route swaps, the settlement of the serving deal, the
background reconciliation, the close command and crashes come in between. A settlement
writes the record in the order its branch does: an explicit STOP closes it before the
message is sent, a guarded one afterwards and also when the STOP failed, a reclaim or a
dispute after the chain's answer. So the record of a contract that is open or in dispute
may say that it has ended. The contract is funded, open, disputed or gone, and also
moves by itself (clean-up of an unopened match, the seller's stop, a dispute resolved).

### `UsageLedger`

The tables of requests and calls, the counters kept beside them by differences
(`Update`), the identity probe, the guard that pauses a deal whose output broke off,
and the automatic STOP that is checked and sent in two steps. Every history write
may fail; a consumer may leave at any moment; the process may crash.

An answer may break off in two ways, and the client tells them apart. A break that the
provider reported with the output marker (`stream.rs:17`) pauses the deal and leaves a
row. Every other end of an answer (a transport error, an answer without a usage record,
a bill that is refused) goes to the failure policies `dead_gateway` and
`seller_stalls_mid_stream` (`api/mod.rs:2061-2081`): these send an automatic STOP or,
under `keep_open`, serve on, and set neither flag nor row
(`provider_failure_2144.rs:453` tests just that). *Owed* output is therefore output of
the first kind, probe output that broke off, and output cut off by a crash; the
properties `UnresolvedStaysShut` and `NoStopWhileOwed` are about it, and the second also
holds the policies' own STOP to it: a stall of one request must not stop a deal to
which another request still owes. That a STOP is refused because the session is closing
is a nondeterministic choice.

## 4. Runs

| run | question | bounds |
|---|---|---|
| `ordinary_deal` | one ordinary deal, every order of calls: solvency, claim bounds, what each exit pays, indifference to who called `finalize` | 3 ticks, 7 time units, 1 hand-over |
| `deal_liveness` | a subscription: nobody's money stays frozen; weeks add up; dispute prices; indifference of every exit to whether `settleWeek` or `finalize` came first | 2 weeks of 2 ticks, 9 time units, 2 hand-overs |
| `open_without_bond` | a sentence of a comment the contract does not keep (section 5) | 2 buyers, 2 hand-overs |
| `order_book` | money and answers accounted for, trades on terms, price-time priority, no executable cross, latch and hand-overs, walks that get on | 2 requests, 2 buyers, 2 deals, one of them listed twice, 1 maker per transaction, 1 time step |
| `seller_offer` | never two SELLs, the journal names the one under way, clean end, relisting | 2 posts, 1 failure, 2 process lives |
| `seller_stop` | a sentence of a comment the client does not keep (section 5) | 2 posts, 1 failure, 1 life |
| `seller_meter` | claims backed by service, restartable at any moment, no request outlives the purchase, billed usage is claimed | 2 streams, 3 requests, 4 tokens, 1 crash, 1 fault |
| `subscription_keeper` | no failure without an outside cause, no early end, the subscription is closed | 2 weeks, 10 time units, a clock 0 or 1 ahead, 1 restart |
| `buyer_submit` | money that is out is recorded, a record speaks of its own order, ended records close | 2 submissions, clocks 1 behind to 1 ahead, events readable after 1, 3 time units, 2 crashes |
| `pool_lock` | implements `ExclusiveLock`, no update lost, a dead holder gives way | 3 processes, 2 of which may be killed, 4 inodes |
| `quota_journal` | the reported quota is never an older purchase's, never open after a recorded end | 2 deals, 1 handler and a swapper, 3 routes, 2 faults |
| `usage_ledger` | counters equal the history, nothing missing from a complete one, unresolved output keeps the deal shut, no STOP while it is owed | 2 requests, 3 failing writes, 3 lives |

Why the bounds are enough. *Deal*: price 20, a tick of two tokens (half-tick claims
exist), a 25 % fee and a rebate of 10 % per tick capped at 20 %, the real ratios'
order; windows of one unit, so that each can be missed, met exactly and overrun, and
weeks settled on time, late, or two at once. The arithmetic is linear in ticks and
weeks, so the third tick and the second week already carry over; and what the
theorems cover holds without any bound. *Book*: a walk distinguishes makers by
level, position, flags, size and deadline, and the limits by whether they cut it
before, at or after a fill; two makers on two levels with limits of one show each of
these, and two requests are enough for one to wait behind, rest against or race the
other. A deal may fail while it takes a hand-over: its code answers each one, but the
book's bounce branch is there for the call that does not get that far; such a deal
keeps its latch, so `LatchTracksOffer` speaks of the others. *Clients*: two posts,
submissions or requests are the least in which one can be taken for another; a
failure or a crash may fall on any step, and a second one is what a recovery that
fails half way needs (`buyer_submit`, `quota_journal`, `usage_ledger`; for
`seller_offer` three posts with two failures and two lives were also explored without
the temporal property, 16.5 million states, with the same result).

Three routes let a deal be left and come back to (a, b, a), which is how a recorded end
could be forgotten; two handlers with three routes do not fit into five minutes, and the
theorems of `QuotaJournalProofs` cover any number of both. Two buyers and a second
listing of one deal are what it takes for a hand-over to be recorded for the wrong buyer
or the wrong listing.

Symmetry is used in `order_book` (buyers), `quota_journal` (deals) and
`usage_ledger` (requests), which have no temporal property under fairness.

Fairness. *Deal*: blocks keep coming, and the three calls that anyone may make once
they are due are eventually made: `settleWeek` by the seller's keeper, and
`cleanupUnopened` and `resolveDisputeTimeout` by either party's client. Nothing is
assumed of the parties' own decisions. `CanChange` spells out `ENABLED <<call>>_vars`
for calls that are functions of the state. *Keeper*: blocks, the task's own steps and
the restart of a crashed seller (the service supervisor); no message is sure to
arrive. *Meter*: the tasks of a running process and the end of a relay. *Offer*: the
task's steps other than failures, and the delivery of messages the chain accepted; no
fairness of the operator, of time, or of buyers. *Submission*: a running command
ends, time passes, and the operator runs the journal command again (strong fairness:
other commands take the lock in between). *Lock*: every thread of a living process.

Deadlock is checked for the contracts and the keeper (a destroyed contract answers no
call, which is the explicit stuttering action `Destroyed`). It is not checked for the
other clients: their bounded numbers of posts, submissions and requests run out, and
a seller or buyer whose work is done may stop.

## 5. What the runs found

* `open_without_bond` (`OpenHoldsBothBonds`, TokenContract.sol:758). A hand-over overwrites _buyerBond but leaves _buyerBondFunded as it was: after a clean-up and a late bond of the former buyer, the next ordinary hand-over starts with the flag set and no bond, and open() lets it stream. The comment at src/contracts/airegistry/TokenContract.sol:759 says "`open()` asks a single question -- is the buyer's bond in?".
* `seller_stop` (`StopLeavesNothing`, liveness.rs:2908). When confirming a successor SELL fails with an error that is not a transport failure, the relisting loop ends without a new identity and the pool arms the watch again on the predecessor; an operator's stop then cancels that absent order, takes its absence as proof and exits without an error, although the journal still holds the successor's open submission: only the recovery branch for a failed post looks for it. The comment at src/crates/dexdo/src/seller/liveness.rs:3030 says "An unresolved post may name a newer order than `identity`. Discover and cancel that exact order on shutdown instead of sweeping its absent predecessor."

Other sentences of the source that the code does not keep. No run is kept for them. The
first appears when the named constant of the run is changed, those of `BuyerSubmit` when
its properties are stated without the conditions `~blurred` and `Dated`, the others are
read off the actions of the module:

* `PoolLock` with `PidOf <- SharedProcess`: two threads of one process record the
  same holder, so the read-back by path (`commands.rs:714`) takes another thread's
  new sentinel for its own and an update is lost, against "the read-back finds a
  different sentinel -- or none" (:688).
* `BuyerSubmit`: a fill is compared with the record by volume, price and quoted deal,
  never by its order id (`buyer.rs:6921`), so the fill of a resting subscription of the
  same volume closes the record of a buy that rests. A rejection or placement is matched
  to the record by terms and by time since the record's creation on the client's clock
  (`buyer.rs:3376`, against "Attribution is by fact, never by a clock", :3366): a clock
  behind the chain's lets an earlier submission's rejection clear the record of one in
  flight. Both are what `blurred` marks. A clock ahead dates the record after its own
  order's facts, which are then dropped, and an order whose continuation lapses is
  announced by a refund only (`InferenceOrderBook.sol:1355`), which the client folds
  away (`buyer.rs:3444`): in both cases the record is not closed and blocks its note.
* `QuotaJournal`: the end recorded for an explicit or a failed STOP stands until another
  purchase replaces it on record. When the contract lives on and the buyer returns to it
  (routes a, b, a), its quota is opened again, against "neither its expenses nor a
  previously recorded STOP are reset" (`usage.rs:844`). `stopped` therefore drops such a
  deal when another one is opened, and keeps the deals whose contract is over.
* `SubscriptionKeeper`: the keeper waits out a dispute (`keeper.rs:545`, "the keeper never
  retries either permissionless action while disputed"), but the observer that sees the
  same reading before it refuses a disputed deal (`capacity.rs:920`) and ends the task,
  as does a capacity file that cannot be written. A clock a second ahead makes the keeper
  call before the week ends, and the refusal ends its task (`keeper.rs:571`), against
  "Local time is only a wake-up hint" (:6).
* `TokenContract`: `resolveDisputeTimeout` burns the price of a matured claim that
  nobody promoted (:1871; "not something the buyer gets to dispute away", :1784); a
  bond that arrives after `cleanupUnopened` is kept and later swept to the seller
  (:999); a seller's mid-week exit lets the rebate eat the whole fee (:608, "never
  triggers by construction"); on an ordinary deal a conceded dispute is cheaper than
  `stop()` by the pending claim (:1838, against :1538), which is why that part of
  `ExitsPriced` speaks of subscriptions; `stop()` pays the claim inside its window
  (:1623, against :1563).
* `BuyerSubmit`: the record of a subscription that the book rejected, or that was
  cancelled or expired before it was reconciled, is neither active nor matched
  (`buyer.rs:2745`): no command closes it. `PoolLock`: a process killed before its record
  is written leaves an empty sentinel, which every recovery refuses (`commands.rs:745`,
  by design).
* `InferenceOrderBook`: cancels of any caller may use up the queue slots above
  `QUEUE_PLACE_LIMIT` while a continuation holds the head (:1260, against "an owner
  can always cancel", :1287).

## 6. Proofs

### `DealProofs`: the deal contract

`DealInv` holds the vocabulary (how storage records compare, the four inductive
invariants), `DealProofs` the lemmas and theorems. Proved, for every price, fee, rebate,
tick size, window length, number of buyers and number of hand-overs:

* `Soundness`: `Spec => []IndInv`;
* `TypeCorrect`: every stored figure stays a natural number, i.e. no settlement
  subtraction underflows and no exit can revert;
* `AlwaysSolvent`: escrow, earnings, fees, both bonds and the probe tick together
  never exceed the balance of a living deal;
* `ClosesAreFinal`: a living deal that was ever opened is open still, and an
  unopened one owes nothing;
* `AtMostOneTickAtRisk`, `ClaimsWithinRate` and their conjunction
  `ClaimsWithinBounds`: the seller's claims stay within one tick of the trusted mark
  and within the physical rate;
* `FinalizeCanWait` and `KeeperCanWait`: every exit pays both parties and burns the
  same whether or not `finalize` or `settleWeek` was called first;
* `BooksAddUp`: `WeeksAddUp`, from two facts of the order book stated as hypotheses of
  the theorem: `WholeShells`, the fee of a tick is exact because prices are multiples of
  `PRICE_STEP` (`InferenceOrderBook.sol:1583`), and `WholeWeeks`, a subscription's ticks
  divide into weeks (`InferenceOrderBook.sol:1641`). (`FillTicks` has no shape of its
  own, so `WholeWeeks` asks it of every fill size of an instance with subscriptions.)
* `StakesKept`: `Spec => []StakesInv`, what stands behind an open deal;
* `ExitsArePriced`: `ExitsPriced` in every state in which the deal holds the buyer's
  bond, and `OneFillPriced`: `ExitsPriced` throughout where `MaxFills <= 1`;
* `BillIsFair`: `FairBill` where `MaxFills <= 1`.

Assumptions: those named in the module (`PartiesAssumption`, `PriceAssumption`,
`TimeAssumption`, `InputAssumption`): positive price, tick size, rate and week
length, at most four weeks (the contract's own `SUB_WEEKS` is four; the weekly
loop is written as four guarded steps). Nothing is assumed of the ratio between
fee and rebate.

The argument. None of the properties is inductive alone. Solvency of
`cleanupUnopened`, which pays the whole unopened escrow back and burns nothing
else, needs to know that an unopened deal owes no earnings, fees or probe tick,
which is the lifecycle invariant; the lifecycle invariant needs every close to
destroy the contract, and the close must not underflow, which is solvency again.
`IndInv` is therefore their conjunction, `Sound(deal)`: types, solvency,
lifecycle, and the claim bounds. The proof has a lemma for each private function
(charging tokens, a week, all weeks due, releasing, forfeiting, voiding claims,
settling fees, paying and dying) saying that it keeps `Sound`, and one lemma per
action; a dead contract changes no more.

The timing theorems compare two storage records. `Agree(d, e, X)` says that `d` and `e`
agree outside the fields `X`; `X` starts as what the early call changes (`tokensFinal`
for `finalize`; the tick count and the report, `Slack`, for `settleWeek`) and each step
of an exit that overwrites such a field the same way in both takes it out of `X`, until
only the report is left. Two facts carry it: the weekly charge reads claims only through
their highest figure (`Peak`), so charging weeks and promoting the pending claim commute
(`PromoteWeeks`), and charging in two goes is charging once (`WeeksTwice`).

The books. `WeeksAddUp` speaks of sums and is not inductive: rounding could move between
its terms. `BooksInv` adds to `IndInv` that escrow, earnings and the paid mark are the
same whole number of ticks (`BooksAt`, `Mark`), that the seller has gained nothing before
the probe is settled, that no seller bond is held without its flag and that a dead deal
is no longer open; with whole ticks every division in the contract is exact.

The prices of the exits. `ExitsPriced` compares three complete settlements of one state.
A close pays the seller whatever the balance holds beyond the buyer's refund and the
burned fees, so two exits are compared by those two figures alone (`Tally`,
`RefundAndDie`'s lemmas), and what a dispute trusts is charged the same way in all of
them (`Trusted`). What remains are inequalities between the value of some tokens (`Value`,
`Earned`), rounded down once for the price and once for the fee, against the ticks of
bond at stake. They are strict because a bond is two ticks, and they need `StakesInv`: that the
bonds are there in full, that at most a tick is pending and that an ordinary deal's
claims do not pass what was funded. `ModestFee` (a tick costs at least three of the
smallest units, the fee is at most the price) gives the rounding room; the book's prices
are positive multiples of `PRICE_STEP`, 10^9 units, and the fee is 250 of 10 000.

The condition on the buyer's bond is not for convenience: section 5 shows an open deal
without it after a second hand-over (`open_without_bond`), and there a refused dispute
has nothing of the buyer's to burn. It is part of the statement in `ExitsArePriced`, and
`OneFillPriced` shows that one hand-over is enough to have it. `BillIsFair` has
`MaxFills <= 1` for a similar reason: `BuyerLoss` is what a note has put into the deal
over all its hand-overs, and a bond that arrives after a clean-up is never returned to it
(section 5), which no bill of the later match accounts for. Within one hand-over the
buyer has paid exactly the funded ticks and his bond (`Bought`), so the bill follows
from what each of `finalize`, `stop` and `sellerStop` refunds.

Every close leaves the deal gone, shut and undisputed with its term unchanged (`Closed`,
`SameTerm`); the books, the stakes and the keeper share these lemmas.

### `DealProofs`: the weekly keeper

`EndsWithDeal`, `KeeperInvariant` and `NeverFalseAlarm`, for every price, size, window
and week length, any number of restarts and any interleaving of other parties' calls
with the keeper's three reads. The behaviours are those of
the composition that start with `WeeklyFills`: a subscription is matched for whole weeks
and within the deal's bounds (`InferenceOrderBook.sol:1641`). Assumption:
`SnapshotAssumption`, an absent account is no state of a deal. No theorem restricts the
seller's clock: a clock that is ahead is one of the causes `Excused` names, and only for a
call that landed. Money plays no part: each
private function of the contract enters by the fields it leaves alone (`SameMarks`,
`SameTerm`) and the marks it moves (`Charged`). The relation that carries the argument
is `Since`: the deal compared with what was read of it earlier. Besides the order of
every mark it says that a pending claim stands unchanged until it is trusted, and that
nothing is claimed after the term; that is why a call planned from an old reading is
still due when it lands, or has been forestalled by the very change it was to make.
`CallFits` follows a call from its plan to the reading that judges it; `UnderWay` has the
weekly quota in it because the observer asks for it (`Servable`).

### `InferenceOrderBookProofs`

`InferenceOrderBookInv` holds the vocabulary (outcomes of each piece of a call, the two
invariants and their counterparts during a walk), `InferenceOrderBookProofs` the lemmas
and theorems.

Where everything is. For every number of buyers, deals, requests and re-listings, every price, size, fee and
work limit: `SpecImpliesBookInv` (`Spec => []BookInv`), and from it
`SpecImpliesRequestsAccounted`, `SpecImpliesLatchTracksOffer`,
`SpecImpliesHandoversAccounted` and `SpecImpliesWalkAdvances`. Assumption:
`BookAssumption` (positive prices, positive work limits, a finite set of deals,
addresses 0 that are nobody's).

The argument. The properties are sums and counts over queue, lists, messages and ledgers;
none is inductive. `BookInv` states the same without counting: every request is in
one of four places (`Waiting` in the queue, `InHand`, `AtRest`, `Over`), each with its
own money equation and what its note was told; every deal's offer is in one of the
places `Sent`, `Waits`, `Matched`, `Lists`, `Answered`, or the deal is `Stuck` or
`Free`, each with the deal's flags and the messages under way; and `Balanced` adds up, note
by note, what its requests spent against what landed, came back or is under way. During a
call the head of the queue is neither waiting nor resting: `Ledger` is therefore stated
for the head taken out, "in hand", with the money the walk still carries, and a walk of
any length keeps it. An iteration of the matching loop that has work to do has six outcomes (`VLimit`,
`VPass`, `VHalt`, `VDrop`, `VDust`, `VFill`), each described by the fields it touches;
that a walk of n iterations keeps what one keeps is induction over its states
(`UpTo`, from well-foundedness of the naturals). Places are mutually exclusive, so sums and
cardinalities over them are those of a singleton or of nothing. `WalkAdvances` follows
from `ContOK`, the resume order rests and crosses, and from `MetFrom`: a walk meets only
makers at or behind the one it resumes from, and leaves that one before it can be
capped again.

The terms of orders, for the same constants and from the same assumption:
`SpecImpliesTermsInv` (`Spec => []TermsInv`), and from it `SpecImpliesNoExecutableCross`,
`SpecImpliesFillsOnTerms` and `SpecImpliesPriceTimePriority`. That no two orders at rest
could trade (`Apart`, for every pair of a bid and an ask) is not inductive, for three
reasons, and `TermsInv` adds what is missing. A bid that could not pay for its own ticks
would be passed over for a wrong reason: `Solid` and `Sound` say that an order at rest or
waiting can pay for what it still wants at its own price. A taker whose walk was capped
sees only the rest of the makers when it goes on, and the book may have changed in
between: `Behind` says that every crossing maker the walk has left behind is one it would
pass over again (a different shape of deal, or all-or-none in the way), also when
cancellations, expiries and bounces have come in between; only the head can be in this
state, and no new order rests before it ends. And a `POST_ONLY` taker is checked once, by
another loop with limits of its own, before the first iteration: `Unfit`.

The same facts during a walk are `Terms`, kept by each of the outcomes of an iteration:
`Kept` (orders change only with the last tick of the taker, so a pair of orders at rest
needs no second look), `Funds`, `Shy`, `Leftover` and `Trades`. `PriceTimePriority` is an
action property: `InTurn` says of each fill of the call that whoever stood before its
maker and rests still was passed over, with what the taker then wanted and could pay.
Fill-or-kill rests on the agreement of two loops that the source writes twice: `Sim`
compares the k-th state of the simulated walk with the k-th of the real one, and
`FokFills` says that once the simulation answers yes the walk ends with nothing wanted,
without having been capped. The simulation leaves out the bond that a fill of a
subscription pays besides its ticks; the two agree all the same, because a subscription
is all-or-none and its first fill is its last (the argument of `InferenceOrderBook.sol:815`).

### `PoolLockProofs`

For any number of threads, inodes and kills: `LockInvariant` (`Spec => []LockInv`),
`MutualExclusionHolds`, `NoUpdateIsLost` and `Refinement` (every step of the sentinel
protocol is a step of `ExclusiveLock` or a stutter). Hypotheses: `OwnProcesses`, every
contender is a process of its own, which is what `commands.rs` counts on when it reads
back its process number (section 5 tells what happens to two threads of one process);
and `InodeAssumption`, 0 is no inode. Mutual exclusion is not inductive: a thread that
unlinks a stale sentinel and one that still holds a handle on the unlinked inode differ
only in what the path names. `LockInv` says who may have a handle on the file at the
path and what they have read of it (`Creators`, `Records`): a living process is named
there only by itself, so nobody else can find the record stale.

### `SellerMeterProofs`

For any number of requests, crashes, failed writes and late claims: `MeterInvariant`,
`ClaimsAreBacked`, `RestartAlwaysReconciles`, `PurchaseOutlived`. Assumptions:
`MeterAssumption` (positive tick, at least two ticks bought, a week of at least one tick)
and `HolderAssumption`, the marker for "nobody" is no request. The properties hold because of an order between four figures that live
in different places: delivered count, capacity entry, file, and every claim landed or
in flight. `Fits` states it for a record and a set of claims in flight, and `EntryOK`
and `FileOK` for the entry and the file; `Exhausting` ties the last claim to the moment
nobody was served. `Slots` counts the shared reservations with the library's facts on
cardinality.

### `SellerOfferProofs`

`OfferInvariant`, `RecordNamesSell` and `OneSellAtATime`, and `StopInvariant` and
`StopIsClean`, for any number of posts, faults, crashes and restarts. The first invariant,
`OfferInv`, says nothing of where the seller's task is: the latch of the deal covers a
SELL from the moment it lands until its end was heard (`LatchCovers`), and a message is
signed only against a record without an open one, so no interleaving of the task's steps
matters.

A clean stop is the opposite: `CleanStop` speaks of the end of the process only, and the
reason why it may stop without an error lies many steps back. `StopInv` adds `Recorded`
(whatever rests or is under way is what the record names, and money of a fill comes only
with a record) and `Place`, what the task knows of the ask under its care at each of its
places: an ask it reaps, or relists after a proof, is over in the book (`Dead`); whoever
prepares an offer has none under care or one that is over (`Preparing`); a cancellation
for the sweep or the supervisor is about that very ask; an exit without an error has
found the book empty of the deal's asks or its own ask over. `Place` is a statement about a
process record and the fates of the SELLs, so each helper that answers with a next place
(`Sweep`, `WatchStops`, `Generation`, `PrepareStops`, `PrepareReady`, `CancelDone`, ...)
has one lemma, and each step of the task follows from those of the helpers it calls; the
steps of the book and the deal only make known orders more final (`PlaceMoves`).

### `QuotaJournalProofs`

`QuotaInvariant`, `QuotaIsCurrent` and `EndedStaysEnded`, for any number of deals,
handlers, failing writes and crashes. Assumption: the marker `NoDeal` is no deal. The
key conjunct is `Recorded`: the record is of the purchase last seen or names it as
unresolved, and an unresolved purchase answers nothing. `HandlerOK` says of each
handler, by its place, what it has put on record and that nobody has replaced it since;
`OneInitialiser` is what the session's cell guarantees. A recorded end of a contract that
lives on is the hard case, since the buyer may resume it: `Stands` says that the store
still names such a deal, closed, and would after a restart (`Standing`); for one that is
over it is enough that no journal would bring its quota back (`EndKept`).

### `UsageLedgerProofs`

`LedgerInvariant`, `CountersExact`, `CompleteMissesNothing`, `OwedStaysShut` and the
action property `OwedIsNotStopped`, for every finite set of requests. Exactness of the
counters is a statement about cardinalities, kept by each step that changes one
request; the others need `Sound`, which says for one request how far its handler, its
row and its calls may be apart, and `OwedMarked`: output that is owed a usage record
(section 3 says which output is) has left a mark no later step takes back.

### `BuyerSubmitProofs`

`SubmitInvariant`, `MoneyIsRecorded` and `RecordKnowsItsOwn`, for any number of
submissions, any terms, any clock, kills at any step and any delay of the book's events,
up to the moment at which something of another order could pass for the record's own
(`blurred`, part of the properties themselves; the model goes on beyond it, and section
5 tells what happens there). Events name no message, so a record can
only tell its own from older ones by time and by the fills known when it was made. The
key conjunct is `NewsIsRecorded`: whatever the chain has said of an order and is not
readable yet is about the order on record. It holds because every path that removes a
record has first read events that are later than everything said of its order
(`ReleasedOf`), so the next record is dated after all of it. `CommandOK` says, by the
command's place, what it has read and that this still holds.

### Only model-checked

All liveness properties (fairness is out of the prover's reach). Every other property of
the passing runs is stated by a theorem; those with hypotheses beyond the model's
assumptions (`WholeShells`, `WholeWeeks`, `ModestFee`, one hand-over, `OwnProcesses`)
name them in their statement, and the instances
of the runs satisfy them (`deal_liveness` has two hand-overs, of subscriptions, which
carry the bond). The inductive invariants of the proofs were themselves checked by TLC on
the instances of the runs before they were proved.

## 7. Not modelled

* The private note, the message layer between three contracts at once, and the book's
  reference price.
* Of the clients: the buyer's continuity and routing; several deals in one seller
  pool, provisioning of successor contracts and discovery of owner fills; retention,
  migration and reporting of the usage history; the note, wallet and funding commands
  of `cli/note_cmd.rs` and `cli/note.rs`, which are sequences of single calls with
  prompts and reports between them; RPC, ABI decoding, TLS and HTTP translation;
  telemetry and the wire schema.
* The unit tests inside the client's source files, which are a large part of its
  lines, argument parsing and report formatting: they hold no state of the system, so
  no definition maps to them. The share of the client's lines the map names is small
  for that reason, too.
* The zero-knowledge deposit and transfer proofs, gas, and the prediction-market book,
  which this client does not drive.
* The core crate's settlement arithmetic and in-memory market: sequential code that
  mirrors the contract, which is modelled and proved about instead.
