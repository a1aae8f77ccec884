------------------------- MODULE InferenceOrderBook -------------------------
(***************************************************************************)
(* The order book of one model, contracts/airegistry/InferenceOrderBook.sol*)
(* : the request queue whose head may need several transactions, matching  *)
(* by price and time under two work limits, the checks that must foresee   *)
(* what matching will do, refunds, expiry, cancellation, and the hand-over *)
(* of a match to its deal contract, which may bounce.                      *)
(*                                                                         *)
(* The book's storage is one record, book.  The two doubly linked lists an *)
(* order sits in (its price level, its owner's orders) both append at the  *)
(* tail.  A head entry gets its order number when it is first matched and  *)
(* rests or ends before the next entry is looked at, so each list is in    *)
(* increasing order of numbers, and orders, a function of the numbers,     *)
(* stands for all of them.  The ring of queue slots is a sequence.         *)
(*                                                                         *)
(* Deals and notes are the book's environment.  A deal is the three flags  *)
(* of TokenContract.sol that decide what it answers; messages between the  *)
(* book and one deal arrive in the order they were sent.  A note is the    *)
(* requests it made and what it was told of them.                          *)
(*                                                                         *)
(* Left out: gas, events, getters, address derivation, executed-volume     *)
(* statistics and the weekly reference price.                              *)
(***************************************************************************)
EXTENDS Integers, Sequences, FiniteSets, Functions

CONSTANTS
  Buyers,                \* notes that place buy orders
  Seller,                \* the note that owns the offers
  NoNote,                \* address 0
  Deals,                 \* deal contracts of the seller
  NoDeal,                \* address 0
  AskPrice, AskTicks,    \* _pricePerTick and _maxTicks of each deal
  BuyPrices, BuyTicks,   \* limit prices and volumes a buyer may ask for
  BuyFlags, SellFlags,   \* sets of flag sets an order may carry
  Lifetimes,             \* time to the deadline of a new order; 0 = no deadline
  Surplus,               \* escrow attached beyond what the order needs
  BPS_DENOMINATOR, PLATFORM_FEE_BPS, SUB_WEEKS, SUB_TICKS_PER_WEEK,
  MAX_MATCHES_PER_CALL, MAX_SCAN_PER_CALL, MAX_CANCEL_PER_CALL,
  MAX_PRECHECK_LEVELS, MAX_PRECHECK_SCAN,
  QUEUE_PLACE_LIMIT, QUEUE_CAPACITY,
  Awake,                 \* bound: deals that act on what the book sends them
  MaxRequests,           \* bound: buy orders per behaviour
  MaxOffers,             \* bound: offers each deal posts
  MaxTime                \* bound: last block timestamp

ASSUME BookAssumption ==
  /\ Seller \notin Buyers /\ NoNote \notin Buyers \cup {Seller} /\ NoDeal \notin Deals
  /\ IsFiniteSet(Deals)
  /\ AskPrice \in [Deals -> Nat \ {0}] /\ AskTicks \in [Deals -> Nat]
  /\ BuyPrices \subseteq Nat \ {0} /\ BuyTicks \subseteq Nat
  /\ Lifetimes \subseteq Nat /\ Surplus \subseteq Nat
  /\ BPS_DENOMINATOR \in Nat \ {0} /\ PLATFORM_FEE_BPS \in Nat
  /\ MAX_MATCHES_PER_CALL \in Nat \ {0} /\ MAX_SCAN_PER_CALL \in Nat \ {0}
  /\ MAX_CANCEL_PER_CALL \in Nat \ {0}
  /\ QUEUE_PLACE_LIMIT <= QUEUE_CAPACITY
  /\ Awake \subseteq Deals

Notes == Buyers \cup {Seller}

TAKER_FLAGS == {"IOC", "FOK", "MARKET"}

\* The stored price of a market buy, type(uint256).max in the source.
MarketPrice == 1 + CHOOSE p \in BuyPrices : \A q \in BuyPrices : q <= p

VARIABLES
  book,     \* the book's storage, messages it has sent to deals, and ledgers
  deals,    \* the three flags of each deal contract, did it fail, offers posted
  toBook,   \* messages on their way from each deal to the book
  now       \* block.timestamp

vars == <<book, deals, toBook, now>>

Lesser(a, b) == IF a <= b THEN a ELSE b
-----------------------------------------------------------------------------
(***************************************************************************)
(* Storage.  out holds the messages on their way to each deal.  Ledgers:   *)
(* requests, every buy order with the note that sent it, the escrow it     *)
(* committed, how often the note was told that it rests, was refused or    *)
(* was removed, and the figures spent on fills and paid back; repaid, what *)
(* bounced hand-overs returned to each note; landed, what deals took over  *)
(* for it; trades, the fills of the last call.                             *)
(***************************************************************************)
Init ==
  /\ now = 0
  /\ book = [ orders |-> <<>>, queue |-> <<>>, nextOrderId |-> 1,
              handoverBuyer |-> [d \in Deals |-> NoNote],
              out |-> [d \in Deals |-> <<>>],
              requests |-> <<>>, repaid |-> [n \in Notes |-> 0],
              landed |-> [n \in Notes |-> 0], trades |-> <<>> ]
  /\ deals = [d \in Deals |-> [alive |-> TRUE, posted |-> FALSE, funded |-> FALSE,
                           failed |-> FALSE, offers |-> 0]]
  /\ toBook = [d \in Deals |-> <<>>]

Send(b, d, msg) == [b EXCEPT !.out[d] = Append(@, msg)]

OnSellClosed(b, d) == Send(b, d, [kind |-> "closed"])

\* Notices (placed, rejected, removed) to the note that sent request c; a sell offer
\* has no number (0).
Tell(b, c, what) == IF c = 0 THEN b ELSE [b EXCEPT !.requests[c][what] = @ + 1]

\* creditFromBook, or the figure riding on onInferenceRejected.
PayShell(b, c, amount) ==
  IF c = 0 THEN b ELSE [b EXCEPT !.requests[c].back = @ + amount]

RejectToNote(b, c, refunded) == PayShell(Tell(b, c, "rejected"), c, refunded)

TickFee(p) == (p * PLATFORM_FEE_BPS) \div BPS_DENOMINATOR
Unit(p) == p + TickFee(p)

IsExpired(deadline) == deadline # 0 /\ now >= deadline

IsSub(flags) == "SUBSCRIPTION" \in flags

\* What a fill takes from the buyer: the ticks, and a subscription's bond.
Debit(trade, clearing, flags) ==
  trade * Unit(clearing) + (IF IsSub(flags) THEN 2 * clearing ELSE 0)
-----------------------------------------------------------------------------
(***************************************************************************)
(* The lists.                                                              *)
(***************************************************************************)
InsertIntoBook(b, id, o) ==
  Tell([b EXCEPT !.orders = [i \in DOMAIN @ \cup {id} |-> IF i = id THEN o ELSE @[i]]],
       o.client, "placed")

RemoveFromBook(b, id) ==
  IF id \notin DOMAIN b.orders THEN b
  ELSE Tell([b EXCEPT !.orders = [i \in DOMAIN @ \ {id} |-> @[i]]],
            b.orders[id].client, "removed")

RefundAndRemove(b, id) ==
  PayShell(RemoveFromBook(b, id), b.orders[id].client, b.orders[id].escrow)

\* Slip: an expired ask leaves without a word to its deal.
RemoveExpiredSilently(b, id) == RefundAndRemove(b, id)

RemoveExpired(b, id) ==
  IF b.orders[id].isBuy THEN RefundAndRemove(b, id)
  ELSE OnSellClosed(RemoveFromBook(b, id), b.orders[id].deal)

\* Slip: within a level the newest order comes first.
BeforeNewestFirst(b, i, j) ==
  LET p == b.orders[i].price
      q == b.orders[j].price
  IN  IF p = q THEN i > j ELSE IF b.orders[i].isBuy THEN p > q ELSE p < q

\* Of two orders of one side, i is met before j: the better level, then the older order.
Before(b, i, j) ==
  LET p == b.orders[i].price
      q == b.orders[j].price
  IN  IF p = q THEN i < j ELSE IF b.orders[i].isBuy THEN p > q ELSE p < q

\* The order of set S that a walk of the levels meets first.
First(b, S) == CHOOSE i \in S : \A j \in S \ {i} : Before(b, i, j)

Crosses(taker, makerPrice) ==
  \/ "MARKET" \in taker.flags
  \/ IF taker.isBuy THEN taker.price >= makerPrice ELSE makerPrice >= taker.price

\* The makers on the levels that cross.
Crossing(b, taker) ==
  {i \in DOMAIN b.orders : b.orders[i].isBuy # taker.isBuy /\ Crosses(taker, b.orders[i].price)}

DealCompatible(taker, maker) ==
  LET buyFlags  == IF taker.isBuy THEN taker.flags ELSE maker.flags
      sellFlags == IF taker.isBuy THEN maker.flags ELSE taker.flags
  IN  /\ "TEE" \in buyFlags => "TEE" \in sellFlags
      /\ IsSub(buyFlags) <=> IsSub(sellFlags)
-----------------------------------------------------------------------------
(***************************************************************************)
(* Matching.  A walk m over the crossing makers carries the book, the      *)
(* makers not yet met, the taker's remaining ticks and escrow, the work    *)
(* done, whether it stopped, and the maker to resume from when a work      *)
(* limit stopped it.                                                       *)
(***************************************************************************)

Clearing(taker, maker) == IF taker.isBuy THEN maker.price ELSE taker.price

\* Ticks the taker could take from this maker: both volumes and the buyer's money.
TradeSize(taker, maker, remaining, leftover) ==
  LET budget == IF taker.isBuy THEN leftover ELSE maker.escrow
  IN  Lesser(Lesser(remaining, maker.amount), budget \div Unit(Clearing(taker, maker)))

AonForbids(taker, maker, remaining, trade) ==
  \/ "AON" \in taker.flags /\ trade < remaining
  \/ "AON" \in maker.flags /\ trade < maker.amount

\* Slip: the buyer of a hand-over is not written down.
RecordNobody(b, deal, note) == b

RecordHandover(b, deal, note) == [b EXCEPT !.handoverBuyer[deal] = note]

SettleFill(m, taker, id, trade) ==
  LET maker == m.book.orders[id]
      buy   == IF taker.isBuy THEN taker ELSE maker
      deal  == IF taker.isBuy THEN maker.deal ELSE taker.deal
      debit == Debit(trade, Clearing(taker, maker), buy.flags)
      msg   == [kind |-> "handover", buyer |-> buy.note, paid |-> debit, sub |-> IsSub(buy.flags)]
      fill  == [maker |-> id, before |-> maker, taker |-> taker, ticks |-> trade,
                remaining |-> m.remaining, budget |-> m.leftover]
  IN  [Send(RecordHandover(m.book, deal, buy.note), deal, msg)
         EXCEPT !.requests[buy.client].spent = @ + debit,
                !.trades = Append(@, fill)]

\* A maker SELL is one deal and leaves the book whatever part of it was taken; a
\* maker BUY keeps what is left, or is refunded its change and removed.
AfterFill(b, taker, id, trade) ==
  LET maker == b.orders[id]
      cost  == Debit(trade, Clearing(taker, maker), maker.flags)
      paid  == [b EXCEPT !.orders[id].escrow = @ - cost]
  IN  IF taker.isBuy THEN RemoveFromBook(b, id)
      ELSE IF maker.amount = trade THEN RefundAndRemove(paid, id)
      ELSE [paid EXCEPT !.orders[id].amount = @ - trade]

Fill(m, taker, id, trade) ==
  LET cost == Debit(trade, Clearing(taker, m.book.orders[id]), taker.flags)
  IN  [m EXCEPT !.book = AfterFill(SettleFill(m, taker, id, trade), taker, id, trade),
                !.leftover = IF taker.isBuy THEN @ - cost ELSE @,
                !.remaining = IF taker.isBuy THEN @ - trade ELSE 0,
                !.matches = @ + 1]

\* One iteration of the inner loop of _match.
Visit(m, taker) ==
  LET id    == First(m.book, m.todo)
      maker == m.book.orders[id]
      seen  == [m EXCEPT !.scanned = @ + 1, !.todo = @ \ {id}]
      trade == TradeSize(taker, maker, m.remaining, m.leftover)
  IN  IF m.stopped \/ m.todo = {} \/ m.remaining = 0 THEN m
      ELSE IF m.matches >= MAX_MATCHES_PER_CALL \/ m.scanned >= MAX_SCAN_PER_CALL
      THEN [m EXCEPT !.stopped = TRUE, !.resume = id]
      ELSE IF ~DealCompatible(taker, maker) THEN seen
      ELSE IF IsExpired(maker.deadline)
      THEN [seen EXCEPT !.matches = @ + 1, !.book = RemoveExpired(@, id)]
      ELSE IF AonForbids(taker, maker, m.remaining, trade) THEN seen
      ELSE IF trade < 2 /\ taker.isBuy THEN [seen EXCEPT !.stopped = TRUE]
      ELSE IF trade < 2 THEN [seen EXCEPT !.matches = @ + 1, !.book = RefundAndRemove(@, id)]
      ELSE Fill(seen, taker, id, trade)

\* Slip: the continuation starts again from the best maker.
WalkFromBest(b, taker, from) == Crossing(b, taker)

\* Slip: the continuation steps over the maker it stopped at.
WalkBehindResume(b, taker, from) ==
  {i \in Crossing(b, taker) : from \in Crossing(b, taker) => Before(b, from, i)}

\* The makers a call of _match may meet: all that cross, or those from the resume
\* position on while that order still rests on the other side.
Walk(b, taker, from) ==
  LET resumes == from \in DOMAIN b.orders /\ b.orders[from].isBuy # taker.isBuy
  IN  {i \in Crossing(b, taker) : resumes => i = from \/ Before(b, from, i)}

\* The walk after each number of iterations.
Walked(start, taker) ==
  LET after[k \in 0..Cardinality(start.todo)] ==
        IF k = 0 THEN start ELSE Visit(after[k - 1], taker)
  IN  after

Match(b, taker, amount, escrow, from) ==
  LET makers == Walk(b, taker, from)
      start  == [ book |-> b, todo |-> makers, remaining |-> amount, leftover |-> escrow,
                  matches |-> 0, scanned |-> 0, stopped |-> FALSE, resume |-> 0 ]
  IN  Walked(start, taker)[Cardinality(makers)]
-----------------------------------------------------------------------------
(***************************************************************************)
(* The two checks that run before matching.                                *)
(***************************************************************************)
\* Slip: the simulated walk takes part of an all-or-none maker.
ForeseeMakerIgnoringAon(p, taker, maker) ==
  LET trade == TradeSize(taker, maker, p.remaining, p.left)
  IN  [p EXCEPT !.remaining = @ - trade, !.matches = @ + 1, !.scanned = @ + 1,
                !.verdict = IF taker.isBuy THEN @ ELSE IF trade = p.remaining THEN "yes" ELSE "no",
                !.left = IF taker.isBuy THEN @ - trade * Unit(maker.price) ELSE @]

\* What one iteration of the inner loop of _fokFullyFillable decides of a maker.
ForeseeMaker(p, taker, maker) ==
  LET seen  == [p EXCEPT !.scanned = @ + 1]
      trade == TradeSize(taker, maker, p.remaining, p.left)
      full  == trade = p.remaining
  IN  IF p.matches >= MAX_MATCHES_PER_CALL \/ p.scanned >= MAX_SCAN_PER_CALL
      THEN [p EXCEPT !.verdict = "no"]
      ELSE IF ~DealCompatible(taker, maker) THEN seen
      ELSE IF IsExpired(maker.deadline) THEN [seen EXCEPT !.matches = @ + 1]
      ELSE IF AonForbids(taker, maker, p.remaining, trade) THEN seen
      ELSE IF trade < 2 /\ taker.isBuy THEN [p EXCEPT !.verdict = "no"]
      ELSE IF trade < 2 THEN [seen EXCEPT !.matches = @ + 1]
      ELSE IF taker.isBuy
      THEN [seen EXCEPT !.remaining = @ - trade, !.matches = @ + 1,
                        !.left = @ - trade * Unit(maker.price)]
      ELSE [seen EXCEPT !.verdict = IF full THEN "yes" ELSE "no"]

\* The whole iteration: a level that ends, or is left with nothing more to take, is
\* counted.
ForeseeVisit(p, b, taker) ==
  LET id   == First(b, p.todo)
      q    == ForeseeMaker([p EXCEPT !.todo = @ \ {id}], taker, b.orders[id])
      left == {i \in q.todo : b.orders[i].price = b.orders[id].price}
  IN  IF p.verdict # "open" \/ p.todo = {} \/ p.remaining = 0 THEN p
      ELSE IF q.verdict # "open" \/ (left # {} /\ q.remaining # 0) THEN q
      ELSE [q EXCEPT !.walked = @ + 1,
                     !.verdict = IF q.walked + 1 >= MAX_PRECHECK_LEVELS THEN "no" ELSE @]

\* The simulated walk after each number of iterations.
Foreseen(start, b, taker) ==
  LET after[k \in 0..Cardinality(start.todo)] ==
        IF k = 0 THEN start ELSE ForeseeVisit(after[k - 1], b, taker)
  IN  after

FokFullyFillable(b, taker) ==
  LET makers == Crossing(b, taker)
      start  == [ todo |-> makers, remaining |-> taker.amount, left |-> taker.escrow,
                  matches |-> 0, scanned |-> 0, walked |-> 0, verdict |-> "open" ]
      p      == Foreseen(start, b, taker)[Cardinality(makers)]
  IN  p.verdict = "yes" \/ (p.verdict = "open" /\ p.remaining = 0)

\* Would a POST_ONLY order trade?  Both work limits answer yes.
ExecutableCrosses(b, taker) ==
  LET makers == Crossing(b, taker)
  IN  \/ Cardinality(makers) >= MAX_PRECHECK_SCAN
      \/ Cardinality({b.orders[id].price : id \in makers}) >= MAX_PRECHECK_LEVELS
      \/ \E id \in makers :
           LET maker == b.orders[id]
           IN  /\ DealCompatible(taker, maker)
               /\ ~IsExpired(maker.deadline)
               /\ "AON" \in taker.flags => maker.amount >= taker.amount
               /\ "AON" \in maker.flags => taker.amount >= maker.amount
               /\ maker.amount >= 2
-----------------------------------------------------------------------------
(***************************************************************************)
(* The queue.                                                              *)
(***************************************************************************)
Entry(type, note) ==
  [ type |-> type, note |-> note, isBuy |-> FALSE, flags |-> {}, price |-> 0, amount |-> 0,
    escrow |-> 0, deal |-> NoDeal, deadline |-> 0, client |-> 0, target |-> 0,
    contOrderId |-> 0, contRemaining |-> 0, contLeftover |-> 0, contScanOrder |-> 0 ]

Enqueue(b, e) == [b EXCEPT !.queue = Append(@, e), !.trades = <<>>]

AdvanceHead(b) == [b EXCEPT !.queue = Tail(@)]

\* An entry that never becomes an order, or stops being one: the buyer gets his
\* escrow back with the refusal, the seller's deal may list again.
Dismiss(b, e, refund) ==
  RejectToNote(IF e.isBuy THEN b ELSE OnSellClosed(b, e.deal), e.client, refund)

\* Slip: a taker that does not rest is paid, and its note is not told.
FinalizeTakerSilently(b, e, id, remaining, leftover) ==
  LET takerOnly == e.flags \cap TAKER_FLAGS # {}
      order == [ note |-> e.note, deal |-> e.deal, price |-> e.price, amount |-> remaining,
                 escrow |-> leftover, deadline |-> e.deadline, client |-> e.client,
                 flags |-> e.flags, isBuy |-> e.isBuy ]
  IN  IF ~takerOnly /\ remaining >= 2 THEN InsertIntoBook(b, id, order)
      ELSE IF e.isBuy THEN PayShell(b, e.client, leftover)
      ELSE IF remaining = 0 THEN b ELSE OnSellClosed(b, e.deal)

FinalizeTaker(b, e, id, remaining, leftover) ==
  LET takerOnly == e.flags \cap TAKER_FLAGS # {}
      order == [ note |-> e.note, deal |-> e.deal, price |-> e.price, amount |-> remaining,
                 escrow |-> leftover, deadline |-> e.deadline, client |-> e.client,
                 flags |-> e.flags, isBuy |-> e.isBuy ]
      rest  == InsertIntoBook(b, id, order)
  IN  IF e.isBuy
      THEN IF remaining < 2 \/ takerOnly THEN RejectToNote(b, e.client, leftover) ELSE rest
      ELSE IF remaining = 0 THEN b
      ELSE IF takerOnly THEN OnSellClosed(b, e.deal) ELSE rest

\* What a taker still holds in the queue.
HeldInQueue(e) == IF e.contOrderId = 0 THEN e.escrow ELSE e.contLeftover

DoMatch(b, e) ==
  LET first == e.contOrderId = 0
      id    == IF first THEN b.nextOrderId ELSE e.contOrderId
      ready == IF first THEN [b EXCEPT !.nextOrderId = @ + 1] ELSE b
      m     == Match(ready, e, IF first THEN e.amount ELSE e.contRemaining,
                     HeldInQueue(e), e.contScanOrder)
  IN  IF m.resume # 0
      THEN [m.book EXCEPT !.queue[1].contOrderId = id,
                          !.queue[1].contRemaining = m.remaining,
                          !.queue[1].contLeftover = m.leftover,
                          !.queue[1].contScanOrder = m.resume]
      ELSE AdvanceHead(FinalizeTaker(m.book, e, id, m.remaining, m.leftover))

DoPlaceHead(b, e) ==
  LET first == e.contOrderId = 0
  IN  IF \/ e.deadline # 0 /\ e.deadline <= now
         \/ first /\ "POST_ONLY" \in e.flags /\ ExecutableCrosses(b, e)
         \/ first /\ "FOK" \in e.flags /\ ~FokFullyFillable(b, e)
      THEN AdvanceHead(Dismiss(b, e, HeldInQueue(e)))
      ELSE DoMatch(b, e)

\* The removal both kinds of cancellation make.
Cancelled(b, id) ==
  LET o    == b.orders[id]
      gone == RefundAndRemove(b, id)
  IN  IF o.isBuy THEN gone ELSE OnSellClosed(gone, o.deal)

\* A cancel of an unknown or a foreign order removes nothing.
DoCancel(b, note, id) ==
  IF id \in DOMAIN b.orders /\ b.orders[id].note = note THEN Cancelled(b, id) ELSE b

OwnOrders(b, note) == {i \in DOMAIN b.orders : b.orders[i].note = note}

\* The owner's list after each number of removals from its head.
CancelledFrom(b, note, n) ==
  LET after[k \in 0..n] ==
        IF k = 0 THEN b
        ELSE LET own == OwnOrders(after[k - 1], note)
             IN  Cancelled(after[k - 1], CHOOSE i \in own : \A j \in own : i <= j)
  IN  after

DoCancelAll(b, note) ==
  LET n    == Lesser(Cardinality(OwnOrders(b, note)), MAX_CANCEL_PER_CALL)
      done == CancelledFrom(b, note, n)[n]
  IN  IF n >= MAX_CANCEL_PER_CALL THEN done ELSE AdvanceHead(done)

DoExpire(b, id) ==
  IF id \in DOMAIN b.orders /\ IsExpired(b.orders[id].deadline) THEN RemoveExpired(b, id) ELSE b

\* One head entry, which stays at the head when it needs another transaction.
ProcessHeadCore(b) ==
  IF b.queue = <<>> THEN b
  ELSE LET e == Head(b.queue)
       IN  CASE e.type = "cancel"    -> AdvanceHead(DoCancel(b, e.note, e.target))
             [] e.type = "cancelAll" -> DoCancelAll(b, e.note)
             [] e.type = "expire"    -> AdvanceHead(DoExpire(b, e.target))
             [] e.type = "place"     -> DoPlaceHead(b, e)
-----------------------------------------------------------------------------
(***************************************************************************)
(* The book's public functions.                                            *)
(***************************************************************************)
BookCall(b) == book' = ProcessHeadCore(b) /\ UNCHANGED <<deals, now>>

ProcessHead ==
  /\ book.queue # <<>>
  /\ BookCall([book EXCEPT !.trades = <<>>])
  /\ UNCHANGED toBook

BadFlags(flags) ==
  \/ "POST_ONLY" \in flags /\ flags \cap TAKER_FLAGS # {}
  \/ {"IOC", "FOK"} \subseteq flags
  \/ IsSub(flags) /\ "AON" \notin flags

Consume(d) == toBook' = [toBook EXCEPT ![d] = Tail(@)]

Arrives(d, kind) == toBook[d] # <<>> /\ Head(toBook[d]).kind = kind

\* The deal's offer reaches the book: queued, or answered with onSellClosed.
PlaceSellOffer(d) ==
  LET offer == Head(toBook[d])
      bad   == AskTicks[d] < 2 \/ "MARKET" \in offer.flags \/ BadFlags(offer.flags)
      e     == [Entry("place", Seller) EXCEPT !.flags = offer.flags, !.price = AskPrice[d],
                  !.amount = AskTicks[d], !.deal = d, !.deadline = offer.deadline]
  IN  /\ Arrives(d, "offer")
      /\ Consume(d)
      /\ IF bad \/ Len(book.queue) >= QUEUE_PLACE_LIMIT
         THEN /\ book' = [OnSellClosed(book, d) EXCEPT !.trades = <<>>]
              /\ UNCHANGED <<deals, now>>
         ELSE BookCall(Enqueue(book, e))

PlaceBuyOrder(n, ticks, price, flags, life, surplus) ==
  LET isMarket == "MARKET" \in flags
      cost     == Debit(ticks, price, flags)
      c        == Len(book.requests) + 1
      request  == [ note |-> n, committed |-> cost + surplus, placed |-> 0, rejected |-> 0,
                    removed |-> 0, spent |-> 0, back |-> 0 ]
      e        == [Entry("place", n) EXCEPT !.isBuy = TRUE, !.flags = flags,
                     !.price = IF isMarket THEN MarketPrice ELSE price, !.amount = ticks,
                     !.escrow = cost + surplus, !.client = c,
                     !.deadline = IF life = 0 THEN 0 ELSE now + life]
  IN  /\ Len(book.requests) < MaxRequests
      /\ ticks >= 2 /\ ~BadFlags(flags)
      /\ IsSub(flags) => /\ ticks % SUB_WEEKS = 0 /\ ticks <= SUB_WEEKS * SUB_TICKS_PER_WEEK
                         /\ ~isMarket
      /\ Len(book.queue) < QUEUE_PLACE_LIMIT
      /\ BookCall(Enqueue([book EXCEPT !.requests = Append(@, request)], e))
      /\ UNCHANGED toBook

CancelOrder(n, id) ==
  /\ Len(book.queue) < QUEUE_CAPACITY
  /\ BookCall(Enqueue(book, [Entry("cancel", n) EXCEPT !.target = id]))
  /\ UNCHANGED toBook

CancelAllOrders(n) ==
  /\ Len(book.queue) < QUEUE_CAPACITY
  /\ BookCall(Enqueue(book, Entry("cancelAll", n)))
  /\ UNCHANGED toBook

ExpireOrder(id) ==
  /\ Len(book.queue) < QUEUE_PLACE_LIMIT
  /\ BookCall(Enqueue(book, [Entry("expire", NoNote) EXCEPT !.target = id]))
  /\ UNCHANGED toBook

\* The deal took the hand-over: the pending record goes.
OnHandoverAccepted(d) ==
  /\ Arrives(d, "accepted")
  /\ Consume(d)
  /\ book' = [book EXCEPT !.handoverBuyer[d] = NoNote, !.trades = <<>>]
  /\ UNCHANGED <<deals, now>>

\* The hand-over bounced: its figure is re-aimed at the recorded buyer.
OnBounce(d) ==
  LET n == book.handoverBuyer[d]
  IN  /\ Arrives(d, "bounced")
      /\ Consume(d)
      /\ book' = [book EXCEPT !.handoverBuyer[d] = NoNote, !.trades = <<>>,
                    !.repaid = IF n = NoNote THEN @
                               ELSE [@ EXCEPT ![n] = book.repaid[n] + Head(toBook[d]).paid]]
      /\ UNCHANGED <<deals, now>>
-----------------------------------------------------------------------------
(***************************************************************************)
(* The deal contracts, as far as the book can tell.                        *)
(***************************************************************************)
BookIdle == book' = [book EXCEPT !.trades = <<>>]

Reply(d, msg) == toBook' = [toBook EXCEPT ![d] = Append(@, msg)]

DealTakes(d, ledger) ==
  book' = [book EXCEPT !.out[d] = Tail(@), !.landed = ledger, !.trades = <<>>]

Pending(d, kind) == book.out[d] # <<>> /\ Head(book.out[d]).kind = kind

PostFromNote(d, flags, life) ==
  /\ deals[d].alive /\ ~deals[d].posted /\ ~deals[d].funded
  /\ deals[d].offers < MaxOffers
  /\ deals' = [deals EXCEPT ![d].posted = TRUE, ![d].offers = @ + 1]
  /\ Reply(d, [kind |-> "offer", flags |-> flags, deadline |-> now + life])
  /\ BookIdle
  /\ UNCHANGED now

\* A living deal answers every hand-over; one that is funded already, or cannot
\* serve the figure, passes the money on to the buyer's note.
FundFromOrderBook(d) ==
  LET msg  == Head(book.out[d])
      bond == IF msg.sub THEN 2 * AskPrice[d] ELSE 0
      fits == /\ ~deals[d].funded
              /\ msg.paid - bond >= 2 * Unit(AskPrice[d])
              /\ msg.paid - bond <= AskTicks[d] * Unit(AskPrice[d])
  IN  /\ Pending(d, "handover") /\ deals[d].alive
      /\ deals' = [deals EXCEPT ![d].funded = @ \/ fits, ![d].posted = @ /\ ~fits]
      /\ Reply(d, [kind |-> "accepted"])
      /\ DealTakes(d, [book.landed EXCEPT ![msg.buyer] = @ + msg.paid])
      /\ UNCHANGED now

\* A hand-over that fails in the deal, or finds none, changes nothing there and
\* comes back.
BounceHandover(d) ==
  LET msg == Head(book.out[d])
  IN  /\ Pending(d, "handover")
      /\ deals' = [deals EXCEPT ![d].failed = TRUE]
      /\ Reply(d, [kind |-> "bounced", paid |-> msg.paid, buyer |-> msg.buyer])
      /\ DealTakes(d, book.landed)
      /\ UNCHANGED now

TakeSellClosed(d) ==
  /\ Pending(d, "closed")
  /\ deals' = [deals EXCEPT ![d].posted = @ /\ (deals[d].funded \/ ~deals[d].alive)]
  /\ DealTakes(d, book.landed)
  /\ UNCHANGED <<toBook, now>>

CleanupUnopened(d) ==
  /\ deals[d].alive /\ deals[d].funded
  /\ deals' = [deals EXCEPT ![d].funded = FALSE, ![d].posted = FALSE]
  /\ BookIdle
  /\ UNCHANGED <<toBook, now>>

\* close and destroy wait for the latch; a funded deal ends by stop and the like.
DealDies(d) ==
  /\ deals[d].alive
  /\ deals[d].funded \/ ~deals[d].posted
  /\ deals' = [deals EXCEPT ![d].alive = FALSE]
  /\ BookIdle
  /\ UNCHANGED <<toBook, now>>

AdvanceTime ==
  /\ now < MaxTime
  /\ now' = now + 1
  /\ BookIdle
  /\ UNCHANGED <<deals, toBook>>

BuyCall ==
  \E n \in Buyers, ticks \in BuyTicks, price \in BuyPrices, flags \in BuyFlags,
     life \in Lifetimes, surplus \in Surplus :
       PlaceBuyOrder(n, ticks, price, flags, life, surplus)

OfferCall(d) ==
  \E flags \in SellFlags, life \in Lifetimes \ {0} : PostFromNote(d, flags, life)

DealStep(d) ==
  \/ FundFromOrderBook(d) \/ BounceHandover(d) \/ TakeSellClosed(d)
  \/ CleanupUnopened(d) \/ DealDies(d)

Next ==
  \/ BuyCall \/ ProcessHead
  \/ \E n \in Notes : CancelAllOrders(n) \/ \E id \in 1..book.nextOrderId : CancelOrder(n, id)
  \/ \E id \in 1..book.nextOrderId : ExpireOrder(id)
  \/ \E d \in Deals : OfferCall(d) \/ PlaceSellOffer(d) \/ OnHandoverAccepted(d) \/ OnBounce(d)
  \/ \E d \in Awake : DealStep(d)
  \/ AdvanceTime

Spec == Init /\ [][Next]_vars

-----------------------------------------------------------------------------
(***************************************************************************)
(* Properties.                                                             *)
(***************************************************************************)

Queued(c)  == {k \in DOMAIN book.queue : book.queue[k].client = c}
Resting(c) == {id \in DOMAIN book.orders : book.orders[id].client = c}

\* The book never loses or invents a buyer's money and answers each request once:
\* what a request committed is spent, paid back, or held by its queue entry or its
\* resting order; it is announced as resting or refused, never both, never twice,
\* and as removed when, and only when, it has left the book.
RequestsAccounted ==
  \A c \in DOMAIN book.requests :
    LET r == book.requests[c]
    IN  /\ r.committed = r.spent + r.back
             + SumFunction([k \in Queued(c) |-> HeldInQueue(book.queue[k])])
             + SumFunction([id \in Resting(c) |-> book.orders[id].escrow])
        /\ r.placed + r.rejected = IF Queued(c) = {} THEN 1 ELSE 0
        /\ r.placed = r.removed + Cardinality(Resting(c))

\* Two orders that could trade with each other never rest together, whatever was
\* skipped, capped and resumed on the way.
NoExecutableCross ==
  \A i, j \in DOMAIN book.orders :
    LET bid == book.orders[i]
        ask == book.orders[j]
        q   == Lesser(bid.amount, ask.amount)
    IN  /\ bid.isBuy /\ ~ask.isBuy /\ bid.price >= ask.price
        /\ "TEE" \in bid.flags => "TEE" \in ask.flags
        /\ IsSub(bid.flags) <=> IsSub(ask.flags)
        => \/ q < 2
           \/ "AON" \in bid.flags /\ q < bid.amount
           \/ "AON" \in ask.flags /\ q < ask.amount

Total(trades) == SumFunction([k \in DOMAIN trades |-> trades[k].ticks])

\* Every trade is on both orders' terms, whatever rested, waited in the queue or was
\* continued over several transactions: nobody trades after his deadline, a buyer who
\* asked for a TEE gets one, an all-or-none order trades its whole volume at once, a
\* fill-or-kill order in one transaction, and a post-only order never takes.
FillsOnTerms ==
  \A k \in DOMAIN book.trades :
    LET t   == book.trades[k]
        bid == IF t.taker.isBuy THEN t.taker ELSE t.before
        ask == IF t.taker.isBuy THEN t.before ELSE t.taker
    IN  /\ ~IsExpired(bid.deadline) /\ ~IsExpired(ask.deadline)
        /\ "TEE" \in bid.flags => "TEE" \in ask.flags
        /\ "AON" \in t.taker.flags => t.ticks = t.taker.amount
        /\ "AON" \in t.before.flags => t.ticks = t.before.amount
        /\ "FOK" \in t.taker.flags => Total(book.trades) = t.taker.amount
        /\ "POST_ONLY" \notin t.taker.flags

\* Maker i stands before maker j in the queue of its side.
Ahead(b, i, j) ==
  LET p == b.orders[i].price
      q == b.orders[j].price
  IN  IF p = q THEN i < j ELSE IF b.orders[i].isBuy THEN p > q ELSE p < q

\* No fill of the step passed over a better placed maker that could have served it.
FilledInTurn ==
  \A k \in DOMAIN book'.trades :
    LET t == book'.trades[k]
    IN  \A i \in (DOMAIN book.orders) \cap (DOMAIN book'.orders) :
          LET o == book.orders[i]
              p == IF o.isBuy THEN t.taker.price ELSE o.price
              q == Lesser(Lesser(t.remaining, o.amount),
                          (IF o.isBuy THEN o.escrow ELSE t.budget) \div Unit(p))
          IN  /\ o = book'.orders[i] /\ i # t.maker
              /\ o.isBuy = t.before.isBuy /\ Ahead(book, i, t.maker)
              => \/ ~DealCompatible(t.taker, o)
                 \/ "AON" \in t.taker.flags /\ q < t.remaining
                 \/ "AON" \in o.flags /\ q < o.amount

\* Price, then time: an order that trades leaves behind no better placed maker
\* that could have served it.
PriceTimePriority == [][FilledInTurn]_vars

\* Each transaction of a capped walk gets further: the maker it resumes from rests
\* and the request then ends or stops again at a maker behind that one, so no
\* request holds the queue for ever.
WalkAdvances ==
  \A k \in DOMAIN book.queue :
    LET e    == book.queue[k]
        rest == DoPlaceHead(book, e).queue
    IN  e.contOrderId # 0 =>
          /\ k = 1 /\ e.contScanOrder \in DOMAIN book.orders
          /\ \/ \A j \in DOMAIN rest : rest[j].contOrderId = 0
             \/ Ahead(book, e.contScanOrder, rest[1].contScanOrder)

Count(msgs, kinds) == Cardinality({k \in DOMAIN msgs : msgs[k].kind \in kinds})

\* Traces of a deal's offer: on its way, queued, resting, or just answered.
OfferTraces(d) ==
  Count(toBook[d], {"offer"}) + Count(book.out[d], {"handover", "closed"})
  + Cardinality({k \in DOMAIN book.queue : book.queue[k].deal = d})
  + Cardinality({id \in DOMAIN book.orders : book.orders[id].deal = d})

\* The deal's latch tracks the real offer: a deal that thinks it has an offer has
\* exactly one, and a deal that may list again, close or is gone has none.  (A deal
\* that failed to take a hand-over keeps its latch with no offer behind it.)
LatchTracksOffer ==
  \A d \in Deals : ~deals[d].failed => OfferTraces(d) = IF deals[d].alive /\ deals[d].posted THEN 1 ELSE 0

\* Every hand-over is one its deal can take: the deal lives and is free, and the
\* figure is a whole number of its ticks it serves, plus the bond of a subscription.
HandoversFitDeal ==
  \A d \in Deals : \A k \in DOMAIN book.out[d] :
    LET msg == book.out[d][k]
    IN  msg.kind = "handover" =>
          /\ deals[d].alive /\ ~deals[d].funded
          /\ \E ticks \in 2..AskTicks[d] :
               msg.paid = ticks * Unit(AskPrice[d]) + (IF msg.sub THEN 2 * AskPrice[d] ELSE 0)

\* Hand-overs to or from deal d that are still under way for note n.
UnderWay(d, n) ==
  LET all == book.out[d] \o toBook[d]
      own == {k \in DOMAIN all : all[k].kind \in {"handover", "bounced"} /\ all[k].buyer = n}
  IN  SumFunction([k \in own |-> all[k].paid])

\* Every hand-over fits its deal, and a fill's money reaches a deal or comes back to
\* the note that paid it: the record kept for a bounce names the right buyer, also
\* after re-listings.
HandoversAccounted ==
  /\ HandoversFitDeal
  /\ \A n \in Notes :
       SumFunctionOnSet([c \in DOMAIN book.requests |-> book.requests[c].spent],
                        {c \in DOMAIN book.requests : book.requests[c].note = n})
         = book.landed[n] + book.repaid[n] + SumFunction([d \in Deals |-> UnderWay(d, n)])
=============================================================================
