----------------------- MODULE InferenceOrderBookInv ------------------------
(***************************************************************************)
(* What the proofs about the order book speak of: the outcome of each      *)
(* piece of a call, the two inductive invariants of the book between       *)
(* calls (BookInv, TermsInv) and their counterparts during a walk          *)
(* (WalkOK, Terms).                                                        *)
(*                                                                         *)
(* BookInv says where every request, every deal's offer and every note's   *)
(* money is.  TermsInv says that no two orders at rest could trade, that   *)
(* an order at rest or in the queue is worth what it wants, and that a     *)
(* capped taker has passed over whatever it left behind it.                *)
(***************************************************************************)
EXTENDS InferenceOrderBook

\* The sum of f over S.
Sum(f, S) == SumFunctionOnSet(f, S)

-----------------------------------------------------------------------------
(***************************************************************************)
(* The shape of the book.                                                  *)
(***************************************************************************)
AllFlags == BuyFlags \cup SellFlags \cup {{}}

OrderSet ==
  [ note : Notes, deal : Deals \cup {NoDeal}, price : Nat \ {0}, amount : Int, escrow : Int,
    deadline : Int, client : Nat, flags : AllFlags, isBuy : BOOLEAN ]

EntrySet ==
  [ type : {"place", "cancel", "cancelAll", "expire"}, note : Notes \cup {NoNote},
    isBuy : BOOLEAN, flags : AllFlags, price : Nat \cup {MarketPrice}, amount : Int,
    escrow : Int, deal : Deals \cup {NoDeal}, deadline : Int, client : Nat, target : Nat,
    contOrderId : Nat, contRemaining : Int, contLeftover : Int, contScanOrder : Nat ]

RequestSet ==
  [ note : Notes, committed : Int, placed : Int, rejected : Int, removed : Int,
    spent : Int, back : Int ]

Handovers == [kind : {"handover"}, buyer : Notes, paid : Int, sub : BOOLEAN]
OutMsgs   == [kind : {"closed"}] \cup Handovers

FillSet ==
  [ maker : Nat, before : OrderSet, taker : EntrySet, ticks : Int, remaining : Int, budget : Int ]

BookFields ==
  {"orders", "queue", "nextOrderId", "handoverBuyer", "out", "requests", "repaid",
   "landed", "trades"}

\* The type of a book.
BookShape(b) ==
  /\ DOMAIN b = BookFields
  /\ b.nextOrderId \in Nat \ {0}
  /\ DOMAIN b.orders \subseteq 1..(b.nextOrderId - 1)
  /\ b.orders \in [DOMAIN b.orders -> OrderSet]
  /\ b.queue \in Seq(EntrySet)
  /\ b.handoverBuyer \in [Deals -> Notes \cup {NoNote}]
  /\ b.out \in [Deals -> Seq(OutMsgs)]
  /\ b.requests \in Seq(RequestSet)
  /\ b.repaid \in [Notes -> Int] /\ b.landed \in [Notes -> Int]
  /\ b.trades \in Seq(FillSet)

\* A bid has a request and no deal, an ask has a deal and no request.
Sides(b, o) ==
  /\ o.isBuy => /\ o.client \in DOMAIN b.requests /\ o.deal = NoDeal
                /\ b.requests[o.client].note = o.note
  /\ ~o.isBuy => /\ o.client = 0 /\ o.deal \in Deals
                 /\ o.price = AskPrice[o.deal] /\ o.amount <= AskTicks[o.deal]

\* The two together.
Stored(b) == BookShape(b) /\ \A i \in DOMAIN b.orders : Sides(b, b.orders[i])

\* An entry that is being matched.
Taking(b, e) ==
  /\ e \in EntrySet /\ e.type = "place" /\ e.note \in Notes
  /\ Sides(b, e)
  /\ "MARKET" \notin e.flags => e.price \in Nat \ {0}
  /\ ~e.isBuy => "MARKET" \notin e.flags

-----------------------------------------------------------------------------
(***************************************************************************)
(* What the operations on the storage do, field by field.                  *)
(***************************************************************************)
\* A request's counters and figures, moved.
Moved(r, placed, rejected, removed, spent, back) ==
  [ note |-> r.note, committed |-> r.committed, placed |-> r.placed + placed,
    rejected |-> r.rejected + rejected, removed |-> r.removed + removed,
    spent |-> r.spent + spent, back |-> r.back + back ]

\* Function f without i.
Without(f, i) == [j \in DOMAIN f \ {i} |-> f[j]]

\* Nothing but the orders, the messages out, the requests, the hand-over record and
\* the fills may differ.
Frame(b, b2) ==
  /\ DOMAIN b2 = BookFields
  /\ b2.queue = b.queue /\ b2.nextOrderId = b.nextOrderId
  /\ b2.repaid = b.repaid /\ b2.landed = b.landed
NoFill(b, b2) == b2.handoverBuyer = b.handoverBuyer /\ b2.trades = b.trades

\* A notice and a payment to the note behind request c.
Notified(b, b2, c, placed, rejected, removed, spent, back) ==
  b2.requests = [b.requests EXCEPT ![c] = Moved(@, placed, rejected, removed, spent, back)]

\* Order i leaves: a bid is paid back its escrow, an ask is closed.
BidLeaves(b, b2, i) ==
  /\ Frame(b, b2) /\ NoFill(b, b2) /\ b2.out = b.out
  /\ b2.orders = Without(b.orders, i)
  /\ Notified(b, b2, b.orders[i].client, 0, 0, 1, 0, b.orders[i].escrow)

AskLeaves(b, b2, i) ==
  /\ Frame(b, b2) /\ NoFill(b, b2) /\ b2.requests = b.requests
  /\ b2.orders = Without(b.orders, i)
  /\ b2.out = [b.out EXCEPT ![b.orders[i].deal] = Append(@, [kind |-> "closed"])]

\* A removal of either kind.
Leaves(b, b2, i) ==
  /\ b.orders[i].isBuy => BidLeaves(b, b2, i)
  /\ ~b.orders[i].isBuy => AskLeaves(b, b2, i)

\* The refusal of a buy request.
Refused(b, b2, c, refund) ==
  /\ Frame(b, b2) /\ NoFill(b, b2) /\ b2.out = b.out /\ b2.orders = b.orders
  /\ Notified(b, b2, c, 0, 1, 0, 0, refund)

\* The answer to a deal whose offer does not rest.
Closed(b, b2, d) ==
  /\ Frame(b, b2) /\ NoFill(b, b2) /\ b2.requests = b.requests /\ b2.orders = b.orders
  /\ b2.out = [b.out EXCEPT ![d] = Append(@, [kind |-> "closed"])]

\* A new resting order.
Rests(b, b2, id, o) ==
  /\ Frame(b, b2) /\ NoFill(b, b2) /\ b2.out = b.out
  /\ b2.orders = [i \in DOMAIN b.orders \cup {id} |-> IF i = id THEN o ELSE b.orders[i]]
  /\ o.client = 0 => b2.requests = b.requests
  /\ o.client # 0 => Notified(b, b2, o.client, 1, 0, 0, 0, 0)

-----------------------------------------------------------------------------
(***************************************************************************)
(* Fills.                                                                  *)
(***************************************************************************)
Buying(taker, maker) == IF taker.isBuy THEN taker ELSE maker
Serving(taker, maker) == IF taker.isBuy THEN maker.deal ELSE taker.deal
Cost(taker, maker, trade) == Debit(trade, Clearing(taker, maker), Buying(taker, maker).flags)

HandoverOf(taker, maker, trade) ==
  [ kind |-> "handover", buyer |-> Buying(taker, maker).note, paid |-> Cost(taker, maker, trade),
    sub |-> IsSub(Buying(taker, maker).flags) ]

FillOf(m, taker, i, trade) ==
  [ maker |-> i, before |-> m.book.orders[i], taker |-> taker, ticks |-> trade,
    remaining |-> m.remaining, budget |-> m.leftover ]

\* What every fill does outside the order itself.
Settles(m, b2, taker, i, trade) ==
  LET b == m.book
      maker == b.orders[i]
      d == Serving(taker, maker)
  IN  /\ Frame(b, b2)
      /\ b2.handoverBuyer = [b.handoverBuyer EXCEPT ![d] = Buying(taker, maker).note]
      /\ b2.out = [b.out EXCEPT ![d] = Append(@, HandoverOf(taker, maker, trade))]
      /\ b2.trades = Append(b.trades, FillOf(m, taker, i, trade))

\* A buyer takes an ask, which leaves.
AskTaken(m, b2, taker, i, trade) ==
  /\ Settles(m, b2, taker, i, trade)
  /\ b2.orders = Without(m.book.orders, i)
  /\ Notified(m.book, b2, taker.client, 0, 0, 0, Cost(taker, m.book.orders[i], trade), 0)

\* A seller takes all of a bid, which is paid its change and leaves.
BidTaken(m, b2, taker, i, trade) ==
  LET maker == m.book.orders[i]
      cost  == Cost(taker, maker, trade)
  IN  /\ Settles(m, b2, taker, i, trade)
      /\ b2.orders = Without(m.book.orders, i)
      /\ Notified(m.book, b2, maker.client, 0, 0, 1, cost, maker.escrow - cost)

\* A seller takes part of a bid, which stays.
BidShrinks(m, b2, taker, i, trade) ==
  LET maker == m.book.orders[i]
      cost  == Cost(taker, maker, trade)
  IN  /\ Settles(m, b2, taker, i, trade)
      /\ b2.orders = [m.book.orders EXCEPT ![i] =
                        [@ EXCEPT !.escrow = maker.escrow - cost, !.amount = maker.amount - trade]]
      /\ Notified(m.book, b2, maker.client, 0, 0, 0, cost, 0)

\* The requests keep their number and their notes.
SameNotes(b, b2) ==
  /\ b2.requests \in Seq(RequestSet) /\ DOMAIN b2.requests = DOMAIN b.requests
  /\ \A x \in DOMAIN b.requests : b2.requests[x].note = b.requests[x].note

-----------------------------------------------------------------------------
(***************************************************************************)
(* One iteration of the walk.  Every iteration is one of seven cases:      *)
(* nothing to do, at a limit, past a maker, a maker dropped, a halt, a     *)
(* dust bid cancelled, a fill.                                             *)
(***************************************************************************)
\* What a walk carries.
WalkFields ==
  {"book", "todo", "remaining", "leftover", "matches", "scanned", "stopped", "resume"}

\* The maker's side of a fill that settles.
Facing(m, taker, i, trade) ==
  /\ Stored(m.book) /\ Taking(m.book, taker)
  /\ i \in DOMAIN m.book.orders /\ m.book.orders[i].isBuy # taker.isBuy
  /\ trade \in Int /\ m.remaining \in Int /\ m.leftover \in Int

\* What a fill makes of the book: one of the three cases.
Fills(m, b2, taker, i, trade) ==
  \/ taker.isBuy /\ AskTaken(m, b2, taker, i, trade)
  \/ ~taker.isBuy /\ m.book.orders[i].amount = trade /\ BidTaken(m, b2, taker, i, trade)
  \/ ~taker.isBuy /\ m.book.orders[i].amount # trade /\ BidShrinks(m, b2, taker, i, trade)
Idle(m) == m.stopped \/ m.todo = {} \/ m.remaining = 0
Limit(m) == m.matches >= MAX_MATCHES_PER_CALL \/ m.scanned >= MAX_SCAN_PER_CALL
Met(m) == First(m.book, m.todo)
Maker(m) == m.book.orders[Met(m)]
Offered(m, taker) == TradeSize(taker, Maker(m), m.remaining, m.leftover)
Forbids(m, taker) == AonForbids(taker, Maker(m), m.remaining, Offered(m, taker))
SameMoney(m, m2) == m2.remaining = m.remaining /\ m2.leftover = m.leftover

\* An iteration that has met a maker.
Counts(m, m2, matches, stopped) ==
  /\ DOMAIN m2 = WalkFields
  /\ m2.todo = m.todo \ {Met(m)} /\ m2.scanned = m.scanned + 1 /\ m2.matches = m.matches + matches
  /\ m2.stopped = stopped /\ m2.resume = m.resume

\* The type of a walk.
WalkShape(m, taker) ==
  /\ DOMAIN m = WalkFields
  /\ Stored(m.book) /\ Taking(m.book, taker) /\ m.todo \in SUBSET Crossing(m.book, taker)
  /\ m.remaining \in Int /\ m.leftover \in Int /\ m.matches \in Nat /\ m.scanned \in Nat
  /\ m.stopped \in BOOLEAN /\ m.resume \in Nat
  /\ m.resume # 0 => m.stopped /\ m.resume \in m.todo

VLimit(m, m2) ==
  /\ ~Idle(m) /\ Limit(m)
  /\ DOMAIN m2 = WalkFields /\ m2.book = m.book /\ SameMoney(m, m2)
  /\ m2.todo = m.todo /\ m2.scanned = m.scanned /\ m2.matches = m.matches
  /\ m2.stopped = TRUE /\ m2.resume = Met(m)

VPass(m, m2, taker) ==
  /\ ~Idle(m) /\ ~Limit(m)
  /\ \/ ~DealCompatible(taker, Maker(m))
     \/ ~IsExpired(Maker(m).deadline) /\ Forbids(m, taker)
  /\ Counts(m, m2, 0, FALSE) /\ SameMoney(m, m2) /\ m2.book = m.book

VDrop(m, m2, taker) ==
  /\ ~Idle(m) /\ ~Limit(m) /\ DealCompatible(taker, Maker(m)) /\ IsExpired(Maker(m).deadline)
  /\ Counts(m, m2, 1, FALSE) /\ SameMoney(m, m2) /\ Leaves(m.book, m2.book, Met(m))

Settleable(m, taker) ==
  /\ ~Idle(m) /\ ~Limit(m) /\ DealCompatible(taker, Maker(m)) /\ ~IsExpired(Maker(m).deadline)
  /\ ~Forbids(m, taker)

VHalt(m, m2, taker) ==
  /\ Settleable(m, taker) /\ Offered(m, taker) < 2 /\ taker.isBuy
  /\ Counts(m, m2, 0, TRUE) /\ SameMoney(m, m2) /\ m2.book = m.book

VDust(m, m2, taker) ==
  /\ Settleable(m, taker) /\ Offered(m, taker) < 2 /\ ~taker.isBuy
  /\ Counts(m, m2, 1, FALSE) /\ SameMoney(m, m2) /\ Leaves(m.book, m2.book, Met(m))

VFill(m, m2, taker) ==
  /\ Settleable(m, taker) /\ Offered(m, taker) >= 2
  /\ Counts(m, m2, 1, FALSE) /\ Fills(m, m2.book, taker, Met(m), Offered(m, taker))
  /\ m2.leftover = IF taker.isBuy
                   THEN m.leftover - Cost(taker, Maker(m), Offered(m, taker)) ELSE m.leftover
  /\ m2.remaining = IF taker.isBuy THEN m.remaining - Offered(m, taker) ELSE 0

VCases(m, m2, taker) ==
  \/ Idle(m) /\ m2 = m
  \/ VLimit(m, m2)
  \/ VPass(m, m2, taker)
  \/ VDrop(m, m2, taker)
  \/ VHalt(m, m2, taker)
  \/ VDust(m, m2, taker)
  \/ VFill(m, m2, taker)

\* Only order i may change or leave.
Touches(b, b2, i) ==
  /\ DOMAIN b2.orders \in SUBSET DOMAIN b.orders
  /\ \A j \in DOMAIN b.orders \ {i} : j \in DOMAIN b2.orders /\ b2.orders[j] = b.orders[j]

-----------------------------------------------------------------------------
(***************************************************************************)
(* The inductive invariant.  While the head of the queue is being worked   *)
(* on it is "in hand": q is what waits behind it, h its request (0 for     *)
(* none), held the money the walk still carries for it and d its deal      *)
(* (NoDeal for none).  Between calls nothing is in hand.                   *)
(*                                                                         *)
(* Every request is in one of four places.                                 *)
(***************************************************************************)
NotQueued(q, c) == \A k \in DOMAIN q : q[k].client # c
NotResting(b, c) == \A i \in DOMAIN b.orders : b.orders[i].client # c
Unanswered(r) == r.placed = 0 /\ r.rejected = 0 /\ r.removed = 0

\* The request is in the queue, in hand, at rest or over.
Waiting(b, q, h, c) ==
  /\ c # h /\ NotResting(b, c)
  /\ \E k \in DOMAIN q :
       /\ q[k].client = c /\ \A l \in DOMAIN q : q[l].client = c => l = k
       /\ b.requests[c].committed = b.requests[c].spent + b.requests[c].back + HeldInQueue(q[k])
  /\ Unanswered(b.requests[c])

InHand(b, q, h, held, c) ==
  /\ c = h /\ NotResting(b, c) /\ NotQueued(q, c)
  /\ b.requests[c].committed = b.requests[c].spent + b.requests[c].back + held
  /\ Unanswered(b.requests[c])

AtRest(b, q, h, c) ==
  /\ c # h /\ NotQueued(q, c)
  /\ \E i \in DOMAIN b.orders :
       /\ b.orders[i].client = c /\ \A j \in DOMAIN b.orders : b.orders[j].client = c => j = i
       /\ b.requests[c].committed = b.requests[c].spent + b.requests[c].back + b.orders[i].escrow
  /\ b.requests[c].placed = 1 /\ b.requests[c].rejected = 0 /\ b.requests[c].removed = 0

Over(b, q, h, c) ==
  /\ c # h /\ NotResting(b, c) /\ NotQueued(q, c)
  /\ b.requests[c].committed = b.requests[c].spent + b.requests[c].back
  /\ b.requests[c].placed + b.requests[c].rejected = 1
  /\ b.requests[c].placed = b.requests[c].removed

ClientOK(b, q, h, held, c) ==
  \/ Waiting(b, q, h, c) \/ InHand(b, q, h, held, c) \/ AtRest(b, q, h, c) \/ Over(b, q, h, c)

(***************************************************************************)
(* Every deal's offer is in one of five places, or the deal has none.      *)
(***************************************************************************)
NotListed(b, x) == \A i \in DOMAIN b.orders : b.orders[i].deal # x
NotWaiting(q, x) == \A k \in DOMAIN q : q[k].deal # x
Live(dl) == dl.alive /\ dl.posted /\ ~dl.funded /\ ~dl.failed

OfferMsgs == [kind : {"offer"}, flags : SellFlags, deadline : Int]
Accepted  == [kind |-> "accepted"]
Bounced   == [kind : {"bounced"}, paid : Int, buyer : Notes]

\* The offer is on its way, perhaps behind the answer to an earlier hand-over.
Sent(b, q, d, x, dl, tb) ==
  /\ d # x /\ NotListed(b, x) /\ NotWaiting(q, x) /\ b.out[x] = <<>> /\ Live(dl)
  /\ \/ Len(tb) = 1 /\ tb[1] \in OfferMsgs
     \/ Len(tb) = 2 /\ tb[1] = Accepted /\ tb[2] \in OfferMsgs

Waits(b, q, d, x, dl, tb) ==
  /\ d # x /\ NotListed(b, x) /\ b.out[x] = <<>> /\ Live(dl) /\ tb = <<>>
  /\ \E k \in DOMAIN q : q[k].deal = x /\ \A l \in DOMAIN q : q[l].deal = x => l = k

Matched(b, q, d, x, dl, tb) ==
  /\ d = x /\ NotListed(b, x) /\ NotWaiting(q, x) /\ b.out[x] = <<>> /\ Live(dl) /\ tb = <<>>

Lists(b, q, d, x, dl, tb) ==
  /\ d # x /\ NotWaiting(q, x) /\ b.out[x] = <<>> /\ Live(dl) /\ tb = <<>>
  /\ \E i \in DOMAIN b.orders :
       b.orders[i].deal = x /\ \A j \in DOMAIN b.orders : b.orders[j].deal = x => j = i

FitsDeal(x, msg) ==
  \E ticks \in 2..AskTicks[x] :
    msg.paid = ticks * Unit(AskPrice[x]) + (IF msg.sub THEN 2 * AskPrice[x] ELSE 0)

Answered(b, q, d, x, dl, tb) ==
  /\ d # x /\ NotListed(b, x) /\ NotWaiting(q, x) /\ Live(dl) /\ tb = <<>>
  /\ Len(b.out[x]) = 1
  /\ b.out[x][1].kind = "handover" =>
       b.handoverBuyer[x] = b.out[x][1].buyer /\ FitsDeal(x, b.out[x][1])

Stuck(b, q, d, x, dl, tb) ==
  /\ d # x /\ NotListed(b, x) /\ NotWaiting(q, x) /\ b.out[x] = <<>>
  /\ dl.alive /\ dl.posted /\ ~dl.funded /\ dl.failed
  /\ \/ tb = <<>>
     \/ Len(tb) = 1 /\ tb[1] \in Bounced /\ b.handoverBuyer[x] = tb[1].buyer

Free(b, q, d, x, dl, tb) ==
  /\ d # x /\ NotListed(b, x) /\ NotWaiting(q, x) /\ b.out[x] = <<>>
  /\ ~dl.posted /\ ~dl.failed
  /\ tb = <<>> \/ tb = <<Accepted>>

DealOK(b, q, d, x, dl, tb) ==
  \/ Sent(b, q, d, x, dl, tb) \/ Waits(b, q, d, x, dl, tb) \/ Matched(b, q, d, x, dl, tb)
  \/ Lists(b, q, d, x, dl, tb) \/ Answered(b, q, d, x, dl, tb) \/ Stuck(b, q, d, x, dl, tb)
  \/ Free(b, q, d, x, dl, tb)

(***************************************************************************)
(* The money of the fills, note by note.                                   *)
(***************************************************************************)
Spent(b) == [c \in DOMAIN b.requests |-> b.requests[c].spent]
RequestsOf(b, n) == {c \in DOMAIN b.requests : b.requests[c].note = n}

Way(out, tb, n) ==
  IF out # <<>> /\ out[1].kind = "handover" /\ out[1].buyer = n THEN out[1].paid
  ELSE IF tb # <<>> /\ tb[1].kind = "bounced" /\ tb[1].buyer = n THEN tb[1].paid
  ELSE 0
Ways(b, tbs, n) == [x \in Deals |-> Way(b.out[x], tbs[x], n)]

Balanced(b, tbs, n) ==
  Sum(Spent(b), RequestsOf(b, n)) = b.landed[n] + b.repaid[n] + Sum(Ways(b, tbs, n), Deals)

(***************************************************************************)
(* The queue: only the head may have been worked on, and then it resumes   *)
(* at a maker that crosses it.                                             *)
(***************************************************************************)
EntryOK(b, e) ==
  /\ e.type = "place" => Taking(b, e) /\ (~e.isBuy => e.amount # 0)
  /\ e.type # "place" => e.client = 0 /\ e.deal = NoDeal /\ e.contOrderId = 0

ContOK(b, e) ==
  e.contOrderId # 0 =>
    /\ e.contOrderId < b.nextOrderId /\ e.contOrderId \notin DOMAIN b.orders
    /\ e.contScanOrder \in Crossing(b, e)
    /\ e.contRemaining # 0 /\ (~e.isBuy => e.contRemaining <= AskTicks[e.deal])

QueueOK(b) ==
  \A k \in DOMAIN b.queue :
    /\ EntryOK(b, b.queue[k]) /\ ContOK(b, b.queue[k])
    /\ b.queue[k].contOrderId # 0 => k = 1

\* All of it, for a book b, what waits behind the hand, the hand, and the deals.
Ledger(b, q, h, held, d, dls, tbs) ==
  /\ \A c \in DOMAIN b.requests : ClientOK(b, q, h, held, c)
  /\ \A x \in Deals : DealOK(b, q, d, x, dls[x], tbs[x])
  /\ \A n \in Notes : Balanced(b, tbs, n)

DealSet ==
  [ alive : BOOLEAN, posted : BOOLEAN, funded : BOOLEAN, failed : BOOLEAN, offers : Nat ]
BookMsgs == OfferMsgs \cup {Accepted} \cup Bounced

\* The inductive invariant between calls.
BookInv ==
  /\ Stored(book) /\ QueueOK(book)
  /\ Ledger(book, book.queue, 0, 0, NoDeal, deals, toBook)
  /\ deals \in [Deals -> DealSet] /\ toBook \in [Deals -> Seq(BookMsgs)] /\ now \in Nat

-----------------------------------------------------------------------------
(***************************************************************************)
(* What a step leaves alone, and what it changes.                          *)
(***************************************************************************)
ClientUntouched(b, b2, c) ==
  /\ b2.requests[c] = b.requests[c]
  /\ \A i \in DOMAIN b2.orders : b2.orders[i].client = c =>
       i \in DOMAIN b.orders /\ b.orders[i].client = c
  /\ \A i \in DOMAIN b.orders : b.orders[i].client = c =>
       i \in DOMAIN b2.orders /\ b2.orders[i].client = c /\ b2.orders[i].escrow = b.orders[i].escrow

DealUntouched(b, b2, x) ==
  /\ b2.out[x] = b.out[x] /\ b2.handoverBuyer[x] = b.handoverBuyer[x]
  /\ \A i \in DOMAIN b2.orders : b2.orders[i].deal = x =>
       i \in DOMAIN b.orders /\ b.orders[i].deal = x
  /\ \A i \in DOMAIN b.orders : b.orders[i].deal = x =>
       i \in DOMAIN b2.orders /\ b2.orders[i].deal = x

\* A message that answers an offer is sent to its deal.
Sends(b, b2, x, msg) == b2.out[x] = Append(b.out[x], msg)

Answers(b2, x, msg) ==
  msg.kind = "handover" => b2.handoverBuyer[x] = msg.buyer /\ FitsDeal(x, msg)
\* A debit to request c.
Pays(b, b2, c, cost) == b2.requests[c].spent = b.requests[c].spent + cost

\* Queue q2 is q with entry e at place p; f tells where the entries of q are in it.
Joined(q2, q, p, e, f) ==
  /\ p \in DOMAIN q2 /\ q2[p] = e
  /\ \A k \in DOMAIN q : f[k] \in DOMAIN q2 /\ f[k] # p /\ q2[f[k]] = q[k]
  /\ \A k, l \in DOMAIN q : f[k] = f[l] => k = l
  /\ \A l \in DOMAIN q2 : l # p => \E k \in DOMAIN q : f[k] = l

\* Book b2 is book b with orders gone or partly filled.
Later(b, b2) ==
  Frame(b, b2) /\ SameNotes(b, b2) /\ DOMAIN b2.orders \in SUBSET DOMAIN b.orders

-----------------------------------------------------------------------------
(***************************************************************************)
(* A walk, and what a call makes of the head of the queue.                 *)
(***************************************************************************)
\* The offer in hand: none when the taker has nothing left.
Rest(m, taker) == IF m.remaining = 0 THEN NoDeal ELSE taker.deal

WalkOK(m, taker, q, dls, tbs) ==
  /\ WalkShape(m, taker)
  /\ Ledger(m.book, q, taker.client, m.leftover, Rest(m, taker), dls, tbs)
  /\ ~taker.isBuy => m.remaining <= AskTicks[taker.deal]
  /\ m.resume # 0 => m.remaining # 0

\* What the ledger looks at.
SameLedger(b, b2) ==
  /\ b2.orders = b.orders /\ b2.requests = b.requests /\ b2.out = b.out
  /\ b2.handoverBuyer = b.handoverBuyer /\ b2.landed = b.landed /\ b2.repaid = b.repaid

CallInv(b, dls, tbs) ==
  Stored(b) /\ QueueOK(b) /\ Ledger(b, b.queue, 0, 0, NoDeal, dls, tbs)

\* The entry a capped walk leaves at the head of the queue.
Continued(e, id, m) ==
  [e EXCEPT !.contOrderId = id, !.contRemaining = m.remaining, !.contLeftover = m.leftover,
            !.contScanOrder = m.resume]

\* The queue after a capped walk: the head remembers where it stopped.
Capped(b, m, b2, e, id) ==
  /\ DOMAIN b2 = BookFields /\ SameLedger(m.book, b2)
  /\ b2.nextOrderId = m.book.nextOrderId /\ b2.trades = m.book.trades
  /\ b2.queue = [b.queue EXCEPT ![1] = Continued(e, id, m)]

\* The head's order number, the book it is matched in, its volume and the walk.
Number(b, e) == IF e.contOrderId = 0 THEN b.nextOrderId ELSE e.contOrderId
Ready(b, e)  == IF e.contOrderId = 0 THEN [b EXCEPT !.nextOrderId = @ + 1] ELSE b
Volume(e)    == IF e.contOrderId = 0 THEN e.amount ELSE e.contRemaining
Matching(b, e) == Match(Ready(b, e), e, Volume(e), HeldInQueue(e), e.contScanOrder)

\* Orders have only left.
Thinned(b, b2) ==
  /\ b2.trades = b.trades /\ DOMAIN b2.orders \in SUBSET DOMAIN b.orders
  /\ \A i \in DOMAIN b2.orders : b2.orders[i] = b.orders[i]

\* One removal from the head of the owner's list.
CancelFirst(b, note) ==
  LET own == OwnOrders(b, note) IN Cancelled(b, CHOOSE i \in own : \A j \in own : i <= j)

\* Nothing but deal d's messages and record and the notes' ledgers may differ.
Aside(b, b2, d) ==
  /\ DOMAIN b2 = BookFields
  /\ b2.orders = b.orders /\ b2.queue = b.queue /\ b2.nextOrderId = b.nextOrderId
  /\ b2.requests = b.requests /\ b2.trades = <<>>
  /\ \A x \in Deals : x # d => b2.out[x] = b.out[x] /\ b2.handoverBuyer[x] = b.handoverBuyer[x]
  /\ b2.handoverBuyer \in [Deals -> Notes \cup {NoNote}] /\ b2.out \in [Deals -> Seq(OutMsgs)]
  /\ b2.repaid \in [Notes -> Int] /\ b2.landed \in [Notes -> Int]

\* What a note has back, has landed, or has on its way to or from deal d.
Purse(b, tb, d, n) == b.landed[n] + b.repaid[n] + Way(b.out[d], tb, n)

\* A step that processes the head of book b.
Calls(b) ==
  /\ BookCall(b) /\ CallInv(b, deals, toBook')
  /\ toBook' \in [Deals -> Seq(BookMsgs)]

\* The entry of a buy order.
Wants(e, ticks, price, flags, surplus) ==
  /\ e.isBuy = TRUE /\ e.flags = flags /\ e.amount = ticks
  /\ e.contOrderId = 0 /\ e.contScanOrder = 0
  /\ "MARKET" \notin flags => e.price = price
  /\ e.escrow = Debit(ticks, price, flags) + surplus

\* The first state of a walk.
Begins(m, b, taker, amount, escrow, from) ==
  /\ DOMAIN m = WalkFields /\ m.book = b /\ m.todo = Walk(b, taker, from)
  /\ m.remaining = amount /\ m.leftover = escrow /\ m.matches = 0
  /\ m.scanned = 0 /\ m.stopped = FALSE /\ m.resume = 0

\* The first n iterations of a walk, one by one.
Steps(w, n, b, taker) ==
  /\ \A k \in 0..n : WalkShape(w[k], taker) /\ Later(b, w[k].book)
  /\ \A k \in 1..n : VCases(w[k - 1], w[k], taker)

\* The order a taker becomes, and when it does.
NewOrder(e, remaining, leftover) ==
  [ note |-> e.note, deal |-> e.deal, price |-> e.price, amount |-> remaining,
    escrow |-> leftover, deadline |-> e.deadline, client |-> e.client,
    flags |-> e.flags, isBuy |-> e.isBuy ]

Stays(e, remaining) ==
  /\ e.flags \cap TAKER_FLAGS = {}
  /\ e.isBuy => remaining >= 2
  /\ ~e.isBuy => remaining # 0

Adds(b, b2, id, o) ==
  b2.orders = [i \in DOMAIN b.orders \cup {id} |-> IF i = id THEN o ELSE b.orders[i]]

-----------------------------------------------------------------------------
(***************************************************************************)
(* The terms of orders: price and time, all or nothing, and no two         *)
(* orders at rest that could trade.  Orderly is a second invariant, of     *)
(* the orders at rest and of those that wait, at time t.                   *)
(***************************************************************************)
Budget(taker, o, leftover) == IF taker.isBuy THEN leftover ELSE o.escrow

\* Maker o is passed over by a taker that still wants remaining ticks.
Passed(taker, o, remaining, leftover) ==
  \/ ~DealCompatible(taker, o)
  \/ AonForbids(taker, o, remaining, TradeSize(taker, o, remaining, leftover))
Expired(deadline, t) == deadline # 0 /\ t >= deadline

\* Maker o is none a POST_ONLY order would trade with.
Unfit(taker, o, t) ==
  \/ ~DealCompatible(taker, o) \/ Expired(o.deadline, t)
  \/ "AON" \in taker.flags /\ o.amount < taker.amount
  \/ "AON" \in o.flags /\ taker.amount < o.amount
  \/ o.amount < 2

\* Bid and ask cannot trade with each other.
Apart(bid, ask) ==
  LET q == Lesser(bid.amount, ask.amount)
  IN  /\ bid.price >= ask.price
      /\ "TEE" \in bid.flags => "TEE" \in ask.flags
      /\ IsSub(bid.flags) <=> IsSub(ask.flags)
      => \/ q < 2
         \/ "AON" \in bid.flags /\ q < bid.amount
         \/ "AON" \in ask.flags /\ q < ask.amount

\* A resting bid can pay for its ticks at its own price; an ask is worth a deal.
Solid(o) ==
  /\ o.isBuy => /\ o.amount >= 1 /\ o.escrow >= o.amount * Unit(o.price)
                /\ IsSub(o.flags) => "AON" \in o.flags
  /\ ~o.isBuy => o.amount >= 2

Tidy(b) ==
  /\ \A i \in DOMAIN b.orders : Solid(b.orders[i])
  /\ \A i, j \in DOMAIN b.orders :
       b.orders[i].isBuy /\ ~b.orders[j].isBuy => Apart(b.orders[i], b.orders[j])

\* So can a taker, and what it promised to trade whole is still whole.
Sound(e) ==
  /\ IsSub(e.flags) => "AON" \in e.flags
  /\ Volume(e) >= 1 /\ e.amount >= 2
  /\ e.isBuy /\ "MARKET" \notin e.flags => HeldInQueue(e) >= Volume(e) * Unit(e.price)
  /\ ~e.isBuy \/ "AON" \in e.flags \/ "POST_ONLY" \in e.flags => Volume(e) = e.amount
  /\ "FOK" \in e.flags => e.contOrderId = 0
  /\ "POST_ONLY" \in e.flags => e.flags \cap TAKER_FLAGS = {}
  /\ e.contOrderId = 0 => e.contScanOrder = 0

\* What a capped taker has left behind it.
Behind(b, e, t) ==
  e.contOrderId # 0 =>
    /\ \A i \in Crossing(b, e) \ Walk(b, e, e.contScanOrder) :
         Passed(e, b.orders[i], e.contRemaining, e.contLeftover)
    /\ "POST_ONLY" \in e.flags => \A i \in Crossing(b, e) : Unfit(e, b.orders[i], t)

Orderly(b, t) ==
  /\ Tidy(b)
  /\ \A k \in DOMAIN b.queue :
       b.queue[k].type = "place" => Sound(b.queue[k]) /\ Behind(b, b.queue[k], t)

(***************************************************************************)
(* The same for a walk, which began in book b with vol ticks wanted.       *)
(***************************************************************************)
\* A taker that may trade vol ticks.
Suits(taker, vol) ==
  /\ vol \in Int /\ vol >= 1
  /\ IsSub(taker.flags) => "AON" \in taker.flags
  /\ ~taker.isBuy \/ "AON" \in taker.flags \/ "POST_ONLY" \in taker.flags => vol = taker.amount

\* Orders change only with the last tick of a taker.
Kept(m, b) ==
  /\ DOMAIN m.book.orders \in SUBSET DOMAIN b.orders
  /\ m.remaining # 0 => \A i \in DOMAIN m.book.orders : m.book.orders[i] = b.orders[i]
Whole(taker) == ~taker.isBuy \/ "AON" \in taker.flags

\* A taker can pay for what it still wants, and trades whole what must be whole.
Funds(m, taker, vol) ==
  /\ m.remaining >= 0
  /\ Whole(taker) => m.remaining \in {0, vol}
  /\ taker.isBuy /\ "MARKET" \notin taker.flags /\ m.remaining # 0 =>
       m.leftover >= m.remaining * Unit(taker.price)
  /\ m.stopped /\ m.resume = 0 /\ m.remaining # 0 =>
       taker.isBuy /\ ("MARKET" \in taker.flags \/ m.remaining < 2)

\* A POST_ONLY taker trades with nobody.
Shy(m, taker, vol, t) ==
  "POST_ONLY" \in taker.flags =>
    /\ m.remaining = vol
    /\ \A i \in Crossing(m.book, taker) : Unfit(taker, m.book.orders[i], t)

\* Whoever the walk has left behind was passed over.
Leftover(m, taker) ==
  /\ m.remaining # 0 /\ (m.stopped => m.resume # 0) =>
       \A i \in Crossing(m.book, taker) \ m.todo :
         Passed(taker, m.book.orders[i], m.remaining, m.leftover)
  /\ m.resume # 0 => \A i \in m.todo : i = m.resume \/ Before(m.book, m.resume, i)

\* A trade is on both orders' terms.
TradeFit(tr, t) ==
  /\ ~Expired(tr.taker.deadline, t) /\ ~Expired(tr.before.deadline, t)
  /\ DealCompatible(tr.taker, tr.before) /\ tr.taker.isBuy # tr.before.isBuy
  /\ "AON" \in tr.taker.flags => tr.ticks = tr.taker.amount
  /\ "AON" \in tr.before.flags => tr.ticks = tr.before.amount
  /\ "POST_ONLY" \notin tr.taker.flags

\* Whoever stood before its maker in book b and rests still was passed over.
InTurn(tr, taker, b, b2) ==
  /\ tr.taker = taker /\ tr.maker \in Crossing(b, taker) /\ tr.before = b.orders[tr.maker]
  /\ \A i \in Crossing(b, taker) :
       i \in DOMAIN b2.orders /\ Before(b, i, tr.maker) =>
         Passed(taker, b.orders[i], tr.remaining, tr.budget)

Trades(m, taker, b, t) ==
  \A k \in DOMAIN m.book.trades :
    TradeFit(m.book.trades[k], t) /\ InTurn(m.book.trades[k], taker, b, m.book)

\* Of two walks' states, the work that is left.
Toil(m, k, n) == Idle(m) \/ Cardinality(m.todo) = n - k

\* All of it.
Terms(m, taker, b, vol) ==
  /\ Tidy(m.book) /\ Kept(m, b) /\ Funds(m, taker, vol) /\ Shy(m, taker, vol, now)
  /\ Leftover(m, taker) /\ Trades(m, taker, b, now)

\* What a taker needs to begin.
Fresh(b, taker, vol, escrow, from) ==
  /\ Suits(taker, vol) /\ Tidy(b) /\ ~Expired(taker.deadline, now) /\ b.trades = <<>>
  /\ taker.isBuy /\ "MARKET" \notin taker.flags => escrow >= vol * Unit(taker.price)
  /\ "POST_ONLY" \in taker.flags => \A i \in Crossing(b, taker) : Unfit(taker, b.orders[i], now)
  /\ \A i \in Crossing(b, taker) \ Walk(b, taker, from) : Passed(taker, b.orders[i], vol, escrow)

-----------------------------------------------------------------------------
(***************************************************************************)
(* Fill or kill: p is a state of the simulated walk, m one of the real     *)
(* walk.                                                                   *)
(***************************************************************************)
PreFields == {"todo", "remaining", "left", "matches", "scanned", "walked", "verdict"}
Glimpse(p, taker, o) == TradeSize(taker, o, p.remaining, p.left)

\* The simulation met its maker and counts it.
Tallies(p, q, matches) ==
  /\ DOMAIN q = PreFields /\ q.todo = p.todo /\ q.scanned = p.scanned + 1
  /\ q.matches = p.matches + matches
Onward(p, q) == q.verdict = p.verdict /\ q.remaining = p.remaining /\ q.left = p.left

PPass(p, q, taker, o) ==
  /\ \/ ~DealCompatible(taker, o)
     \/ ~IsExpired(o.deadline) /\ AonForbids(taker, o, p.remaining, Glimpse(p, taker, o))
  /\ Tallies(p, q, 0) /\ Onward(p, q)

PDrop(p, q, taker, o) ==
  DealCompatible(taker, o) /\ IsExpired(o.deadline) /\ Tallies(p, q, 1) /\ Onward(p, q)

PMeets(p, taker, o) ==
  /\ DealCompatible(taker, o) /\ ~IsExpired(o.deadline)
  /\ ~AonForbids(taker, o, p.remaining, Glimpse(p, taker, o))

PDust(p, q, taker, o) ==
  PMeets(p, taker, o) /\ Glimpse(p, taker, o) < 2 /\ ~taker.isBuy /\ Tallies(p, q, 1) /\ Onward(p, q)

PBuys(p, q, taker, o) ==
  /\ PMeets(p, taker, o) /\ ~(Glimpse(p, taker, o) < 2) /\ taker.isBuy
  /\ Tallies(p, q, 1) /\ q.verdict = p.verdict
  /\ q.remaining = p.remaining - Glimpse(p, taker, o)
  /\ q.left = p.left - Glimpse(p, taker, o) * Unit(o.price)

PSells(p, q, taker, o) ==
  /\ PMeets(p, taker, o) /\ ~(Glimpse(p, taker, o) < 2) /\ ~taker.isBuy
  /\ Glimpse(p, taker, o) = p.remaining /\ q.verdict = "yes"
PLimit(p) == p.matches >= MAX_MATCHES_PER_CALL \/ p.scanned >= MAX_SCAN_PER_CALL

PCases(p, q, taker, o) ==
  /\ DOMAIN q = PreFields
  /\ \/ q.verdict = "no"
     \/ /\ ~PLimit(p)
        /\ \/ PPass(p, q, taker, o) \/ PDrop(p, q, taker, o) \/ PDust(p, q, taker, o)
           \/ PBuys(p, q, taker, o) \/ PSells(p, q, taker, o)

\* The two walks agree.
Alike(p, m, taker) ==
  /\ p.verdict = "open" /\ p.todo = m.todo /\ p.remaining = m.remaining
  /\ m.remaining # 0 => p.left = m.leftover
  /\ p.matches = m.matches /\ p.scanned = m.scanned /\ ~m.stopped
  /\ Total(m.book.trades) = taker.amount - m.remaining
  /\ ~taker.isBuy => m.remaining = taker.amount
Done(m, taker) == m.remaining = 0 /\ ~m.stopped /\ Total(m.book.trades) = taker.amount

\* The simulated walk p is where the real walk m is, unless it has decided.
Sim(p, m, taker) ==
  /\ DOMAIN p = PreFields
  /\ \/ p.verdict = "no"
     \/ p.verdict = "yes" /\ Done(m, taker)
     \/ Alike(p, m, taker)

-----------------------------------------------------------------------------
(***************************************************************************)
(* What a call and a step do for the terms of orders.                      *)
(***************************************************************************)
\* A head that may be matched: it is not dismissed at once.
Ripe(b, e) ==
  /\ ~Expired(e.deadline, now)
  /\ e.contOrderId = 0 /\ "POST_ONLY" \in e.flags => ~ExecutableCrosses(b, e)
  /\ e.contOrderId = 0 /\ "FOK" \in e.flags => FokFullyFillable(b, e)

\* How the head's walk ends.
Walks(b, e, m) ==
  /\ WalkShape(m, e) /\ Later(Ready(b, e), m.book) /\ Idle(m)
  /\ Terms(m, e, Ready(b, e), Volume(e)) /\ Suits(e, Volume(e)) /\ Sound(e)
  /\ m.resume # 0 => m.remaining # 0
  /\ "FOK" \in e.flags => Done(m, e)
Priced(e) == e.isBuy \in BOOLEAN /\ ("MARKET" \notin e.flags => e.price \in Nat)

\* What a call's trades are, from book b to book b2.
CallTerms(b, b2) ==
  \A k \in DOMAIN b2.trades : LET tr == b2.trades[k] IN
    /\ TradeFit(tr, now) /\ InTurn(tr, tr.taker, b, b2) /\ Priced(tr.taker)
    /\ "FOK" \in tr.taker.flags => Total(b2.trades) = tr.taker.amount

\* What a step does for the terms of orders.
StepOK ==
  /\ Orderly(book', now')
  /\ book'.trades = <<>> \/ (now' = now /\ CallTerms(book, book'))

\* The second inductive invariant, beside BookInv.
TermsInv == Orderly(book, now) /\ FillsOnTerms
=============================================================================
