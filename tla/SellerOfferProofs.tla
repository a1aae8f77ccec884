-------------------------- MODULE SellerOfferProofs --------------------------
(***************************************************************************)
(* The SELL of one deal (SellerOffer), for any number of posts, faults,    *)
(* crashes and restarts: at most one SELL of the deal can trade now or     *)
(* later, the durable record names the one that may still land, and a      *)
(* seller that ended without an error left none that a buyer can take.     *)
(*                                                                         *)
(* The first two need nothing of the place the seller's task is at: only   *)
(* post_offer signs a message, and it does so against the record, the book *)
(* and the latch alone.  The third needs all of it (Place): what a task at *)
(* each step knows of the ask under its care.                              *)
(***************************************************************************)
EXTENDS SellerOffer, FiniteSetTheorems, TLAPS

Fates == {"unsent", "flying", "live", "expired", "removed", "filled", "refused", "starved", "lost"}

OfferTypes ==
  /\ sells \in [Sell -> Fates]
  /\ journal \in [m : 0..MaxPosts, done : BOOLEAN]
  /\ latch \in BOOLEAN /\ closing \in BOOLEAN
  /\ fund \in {"none", "coming", "funded", "opened"}

\* The deal's latch covers everything that happens to an ask until the deal has
\* heard of its end: while one rests, while the word that it left is on its way,
\* and while the money of a fill is.
LatchCovers ==
  /\ Rows # {} => latch /\ ~closing /\ fund = "none"
  /\ closing => latch /\ fund = "none"
  /\ fund = "coming" => latch

OneRow == \A m, n \in Rows : m = n

\* A message is under way only when nothing rests, and nothing rests that was not
\* recorded.
OneAtATime ==
  /\ Flying # {} => Rows = {}
  /\ journal.m = 0 => Rows = {}

OfferInv == OfferTypes /\ LatchCovers /\ OneRow /\ OneAtATime /\ JournalNamesSell
-----------------------------------------------------------------------------
(***************************************************************************)
(* What one message can become.                                            *)
(***************************************************************************)
\* The fate of one SELL that is not under way afterwards changes.
LEMMA BecomesOne ==
  ASSUME OfferInv, NEW m \in Sell, NEW st \in Fates, Becomes(m, st)
  PROVE  /\ sells' \in [Sell -> Fates] /\ sells'[m] = st
         /\ \A n \in Sell \ {m} : sells'[n] = sells[n]
  BY DEF OfferInv, OfferTypes, Becomes

\* A row that leaves the book: nothing rests and nothing is under way.
LEMMA RowLeaves ==
  ASSUME OfferInv, NEW m \in Rows, NEW st \in {"removed", "filled"}, Becomes(m, st)
  PROVE  /\ sells' \in [Sell -> Fates] /\ Rows' = {} /\ Flying' = {}
         /\ latch /\ ~closing /\ fund = "none" /\ journal.m # 0
  <1>1. m \in Sell /\ st \in Fates
    BY DEF Rows, Fates
  <1>2. /\ sells' \in [Sell -> Fates] /\ sells'[m] = st
        /\ \A n \in Sell \ {m} : sells'[n] = sells[n]
    BY <1>1, BecomesOne
  <1>3. Rows' = {}
    BY <1>2 DEF Rows, OfferInv, OneRow
  <1>4. Flying' = {}
    BY <1>2 DEF Flying, OfferInv, OneAtATime
  <1>5. QED
    BY <1>2, <1>3, <1>4 DEF OfferInv, LatchCovers, OneAtATime

LEMMA LandsKeeps ==
  ASSUME OfferInv, NEW m \in Sell, Lands(m)
  PROVE  OfferInv'
  <1>1. /\ m \in Flying /\ Rows = {} /\ journal' = journal /\ fund' = fund /\ closing' = closing
        /\ journal = [m |-> m, done |-> FALSE]
    BY DEF Lands, Flying, OfferInv, OneAtATime, JournalNamesSell
  <1>2. PICK st \in {"live", "refused", "starved"} :
          /\ Becomes(m, st)
          /\ IF st = "live" THEN ~latch /\ fund = "none" /\ latch' = TRUE ELSE latch' = latch
    BY DEF Lands
  <1>3. /\ sells' \in [Sell -> Fates] /\ sells'[m] = st
        /\ \A n \in Sell \ {m} : sells'[n] = sells[n]
    BY <1>2, BecomesOne DEF Fates
  <1>4. Flying' = {} /\ Rows' = IF st = "live" THEN {m} ELSE {}
    <2>1. \A n \in Flying : n = m
      BY <1>1 DEF OfferInv, JournalNamesSell
    <2>2. QED
      BY <1>1, <1>2, <1>3, <2>1 DEF Flying, Rows
  <1>5. journal.m = m /\ m # 0
    BY <1>1 DEF Sell
  <1>6. OfferTypes' /\ LatchCovers'
    BY <1>1, <1>2, <1>3, <1>4 DEF OfferInv, OfferTypes, LatchCovers
  <1>7. OneRow' /\ OneAtATime' /\ JournalNamesSell'
    BY <1>1, <1>4, <1>5 DEF OneRow, OneAtATime, JournalNamesSell
  <1>8. QED
    BY <1>6, <1>7 DEF OfferInv

\* An ask whose deadline passed still rests in the book.
LEMMA ExpiresKeeps ==
  ASSUME OfferInv, NEW m \in Sell, Expires(m)
  PROVE  OfferInv'
  <1>1. /\ UNCHANGED <<latch, closing, fund, journal>> /\ sells[m] = "live" /\ Becomes(m, "expired")
    BY DEF Expires, SellerUnchanged
  <1>2. /\ sells' \in [Sell -> Fates] /\ sells'[m] = "expired"
        /\ \A n \in Sell \ {m} : sells'[n] = sells[n]
    BY <1>1, BecomesOne DEF Fates
  <1>3. Rows' = Rows /\ Flying' = Flying
    BY <1>1, <1>2 DEF Rows, Flying
  <1>4. QED
    BY <1>1, <1>2, <1>3 DEF OfferInv, OfferTypes, LatchCovers, OneRow, OneAtATime, JournalNamesSell

\* Nothing happens to the SELLs; the latch and the funding move as the deal
\* hears of them.
LEMMA StillKeeps ==
  ASSUME OfferInv, UNCHANGED <<sells, latch, closing, fund>>,
         journal' \in {journal, reconcile_seller_placement}
  PROVE  OfferInv'
  <1>1. Rows' = Rows /\ Flying' = Flying
    BY DEF Rows, Flying
  <1>2. CASE journal' = journal
    BY <1>1, <1>2 DEF OfferInv, OfferTypes, LatchCovers, OneRow, OneAtATime, JournalNamesSell
  <1>3. CASE journal' # journal
    <2>1. /\ journal.m # 0 /\ sells[journal.m] # "flying" /\ journal' = [journal EXCEPT !.done = TRUE]
      BY <1>3 DEF reconcile_seller_placement
    <2>2. journal' \in [m : 0..MaxPosts, done : BOOLEAN] /\ journal'.m = journal.m
      BY <2>1 DEF OfferInv, OfferTypes
    <2>3. Flying = {}
      BY <2>1 DEF OfferInv, JournalNamesSell, Flying
    <2>4. OfferTypes' /\ LatchCovers'
      BY <1>1, <2>2 DEF OfferInv, OfferTypes, LatchCovers
    <2>5. OneRow' /\ OneAtATime' /\ JournalNamesSell'
      BY <1>1, <2>2, <2>3 DEF OfferInv, OneRow, OneAtATime, JournalNamesSell
    <2>6. QED
      BY <2>4, <2>5 DEF OfferInv
  <1>4. QED
    BY <1>2, <1>3

LEMMA LeavesKeeps ==
  ASSUME OfferInv, NEW m \in Rows, Leaves(m), UNCHANGED <<latch, fund, journal>>
  PROVE  OfferInv'
  <1>1. /\ sells' \in [Sell -> Fates] /\ Rows' = {} /\ Flying' = {}
        /\ latch /\ ~closing /\ fund = "none" /\ closing' = TRUE
    BY RowLeaves DEF Leaves
  <1>2. QED
    BY <1>1 DEF OfferInv, OfferTypes, LatchCovers, OneRow, OneAtATime, JournalNamesSell

LEMMA FilledKeeps ==
  ASSUME OfferInv, NEW m \in Sell, Filled(m)
  PROVE  OfferInv'
  <1>1. m \in Rows /\ Becomes(m, "filled") /\ fund' = "coming" /\ UNCHANGED <<latch, closing, journal>>
    BY DEF Filled, Rows, SellerUnchanged
  <1>2. /\ sells' \in [Sell -> Fates] /\ Rows' = {} /\ Flying' = {} /\ latch /\ ~closing
    BY <1>1, RowLeaves
  <1>3. QED
    BY <1>1, <1>2 DEF OfferInv, OfferTypes, LatchCovers, OneRow, OneAtATime, JournalNamesSell

\* The deal hears of a fill or of an ask that left, or is unwound.
LEMMA DealHears ==
  ASSUME OfferInv, CloseLands \/ FundLands \/ Unwound
  PROVE  OfferInv'
  <1>1. UNCHANGED <<sells, journal>> /\ Rows' = Rows /\ Flying' = Flying
    BY DEF CloseLands, FundLands, Unwound, SellerUnchanged, Rows, Flying
  <1>2. OfferTypes' /\ LatchCovers'
    <2>1. CASE CloseLands
      BY <1>1, <2>1 DEF CloseLands, OfferInv, OfferTypes, LatchCovers
    <2>2. CASE FundLands
      BY <1>1, <2>2 DEF FundLands, OfferInv, OfferTypes, LatchCovers
    <2>3. CASE Unwound
      BY <1>1, <2>3 DEF Unwound, OfferInv, OfferTypes, LatchCovers
    <2>4. QED
      BY <2>1, <2>2, <2>3
  <1>3. QED
    BY <1>1, <1>2 DEF OfferInv, OneRow, OneAtATime, JournalNamesSell

LEMMA ExpireLandsKeeps ==
  ASSUME OfferInv, NEW m \in Sell, ExpireLands(m) \/ Swept(m)
  PROVE  OfferInv'
  <1>1. UNCHANGED <<latch, fund, journal>>
    BY DEF ExpireLands, Swept, SellerUnchanged
  <1>2. CASE sells[m] = "expired"
    <2>1. m \in Rows /\ Leaves(m)
      BY <1>2 DEF ExpireLands, Swept, Rows
    <2>2. QED
      BY <1>1, <2>1, LeavesKeeps
  <1>3. CASE sells[m] # "expired"
    BY <1>1, <1>3, StillKeeps DEF ExpireLands, Swept
  <1>4. QED
    BY <1>2, <1>3

LEMMA CancelLandsKeeps ==
  ASSUME OfferInv, NEW m \in Sell, CancelLands(m)
  PROVE  OfferInv'
  <1>1. UNCHANGED <<latch, fund, journal>>
    BY DEF CancelLands
  <1>2. CASE m \in Rows /\ Leaves(m)
    BY <1>1, <1>2, LeavesKeeps
  <1>3. CASE UNCHANGED <<sells, closing>>
    BY <1>1, <1>3, StillKeeps
  <1>4. QED
    BY <1>2, <1>3 DEF CancelLands
-----------------------------------------------------------------------------
(***************************************************************************)
(* The seller.                                                             *)
(***************************************************************************)
\* A submission may be made only when nothing of an earlier one can trade.
LEMMA MayPostVacant ==
  ASSUME OfferInv, MayPost
  PROVE  Flying = {} /\ Rows = {}
  <1>1. CASE journal.m = 0
    BY <1>1 DEF OfferInv, OneAtATime, JournalNamesSell, Flying, Sell
  <1>2. CASE journal.m # 0
    <2>1. reconcile_seller_placement.done /\ Rows = {}
      BY <1>2 DEF MayPost
    <2>2. journal.done \/ sells[journal.m] # "flying"
      BY <2>1 DEF reconcile_seller_placement
    <2>3. Flying = {}
      BY <2>2 DEF OfferInv, JournalNamesSell, Flying
    <2>4. QED
      BY <2>1, <2>3
  <1>3. QED
    BY <1>1, <1>2

LEMMA PostKeeps ==
  ASSUME OfferInv, post_offer
  PROVE  OfferInv'
  <1>1. UNCHANGED <<latch, closing, fund>>
    BY DEF post_offer, chain, Goes
  <1>2. \/ UNCHANGED sells /\ journal' \in {journal, reconcile_seller_placement}
        \/ /\ MayPost
           /\ \E m \in Sell, st \in {"flying", "lost"} :
                /\ Becomes(m, st)
                /\ journal' = [m |-> m, done |-> FALSE] \/ (st = "lost" /\ journal' = NoJournal)
    BY DEF post_offer, chain, Goes
  <1>3. CASE UNCHANGED sells /\ journal' \in {journal, reconcile_seller_placement}
    BY <1>1, <1>3, StillKeeps
  <1>4. ASSUME MayPost, NEW m \in Sell, NEW st \in {"flying", "lost"}, Becomes(m, st),
               journal' = [m |-> m, done |-> FALSE] \/ (st = "lost" /\ journal' = NoJournal)
        PROVE  OfferInv'
    <2>1. Flying = {} /\ Rows = {}
      BY <1>4, MayPostVacant
    <2>2. /\ sells' \in [Sell -> Fates] /\ sells'[m] = st
          /\ \A n \in Sell \ {m} : sells'[n] = sells[n]
      BY <1>4, BecomesOne DEF Fates
    <2>3. Rows' = {} /\ Flying' = IF st = "flying" THEN {m} ELSE {}
      BY <2>1, <2>2 DEF Rows, Flying
    <2>4. journal' \in [m : 0..MaxPosts, done : BOOLEAN]
      <3>1. m \in 0..MaxPosts /\ 0 \in 0..MaxPosts
        BY OfferAssumption DEF Sell
      <3>2. /\ [m |-> m, done |-> FALSE] \in [m : 0..MaxPosts, done : BOOLEAN]
            /\ NoJournal \in [m : 0..MaxPosts, done : BOOLEAN]
        BY <3>1 DEF NoJournal
      <3>3. QED
        BY <1>4, <3>2
    <2>5. OfferTypes' /\ LatchCovers'
      BY <1>1, <2>2, <2>3, <2>4 DEF OfferInv, OfferTypes, LatchCovers
    <2>6. OneRow' /\ OneAtATime' /\ JournalNamesSell'
      BY <1>4, <2>3 DEF OneRow, OneAtATime, JournalNamesSell
    <2>7. QED
      BY <2>5, <2>6 DEF OfferInv
  <1>5. QED
    BY <1>2, <1>3, <1>4

\* The deal is served: funded becomes opened.
LEMMA ServeKeeps ==
  ASSUME OfferInv, serve_watched_match
  PROVE  OfferInv'
  <1>1. CASE UNCHANGED <<sells, latch, closing, fund>> /\ journal' = journal
    BY <1>1, StillKeeps
  <1>2. CASE Taken /\ fund' = "opened" /\ UNCHANGED <<sells, latch, closing, journal>>
    <2>1. Rows' = Rows /\ Flying' = Flying
      BY <1>2 DEF Rows, Flying
    <2>2. QED
      BY <1>2, <2>1 DEF Taken, OfferInv, OfferTypes, LatchCovers, OneRow, OneAtATime, JournalNamesSell
  <1>3. QED
    BY <1>1, <1>2 DEF serve_watched_match, Goes, chain

\* Every other step of the seller leaves the SELLs, the latch and the funding
\* alone, and at most follows the recorded message to its end.
Watches ==
  /\ UNCHANGED <<sells, latch, closing, fund>>
  /\ journal' \in {journal, reconcile_seller_placement}

LEMMA ReadsWatch == \A u : Goes(u) \/ Reads(u) \/ Fails(u) => Watches
  BY DEF Goes, Reads, Fails, raw_resting_sell_orders_for_tc, chain, Watches

LEMMA OtherStepsWatch ==
  ASSUME DealStep, ~post_offer, ~serve_watched_match
  PROVE  Watches
  <1>3. CASE sweep_expired_seller_offer
    BY <1>3, ReadsWatch DEF sweep_expired_seller_offer, Watches
  <1>4. CASE prepare_pool_deal_reporting_identity
    BY <1>4, ReadsWatch DEF prepare_pool_deal_reporting_identity
  <1>5. CASE startup_readiness
    BY <1>5, ReadsWatch DEF startup_readiness
  <1>6. CASE prepare_seller_offer
    BY <1>6, ReadsWatch DEF prepare_seller_offer
  <1>7. CASE confirm_offer_outcome
    BY <1>7, ReadsWatch DEF confirm_offer_outcome, Watches, chain
  <1>8. CASE recheck_readiness
    BY <1>8, ReadsWatch DEF recheck_readiness
  <1>9. CASE resolve_interrupted_startup
    BY <1>9, ReadsWatch DEF resolve_interrupted_startup
  <1>10. CASE prepare_pending_offer
    BY <1>10, ReadsWatch DEF prepare_pending_offer
  <1>11. CASE cancel_and_confirm_before
    BY <1>11, ReadsWatch DEF cancel_and_confirm_before, raw_resting_sell_orders_for_tc, Watches
  <1>12. CASE watch_accepted_cancel
    BY <1>12, ReadsWatch DEF watch_accepted_cancel
  <1>13. CASE reread_after_rejection
    BY <1>13, ReadsWatch DEF reread_after_rejection
  <1>14. CASE supervise_with_timing
    BY <1>14, ReadsWatch DEF supervise_with_timing
  <1>15. CASE recover_successor_post
    BY <1>15, ReadsWatch DEF recover_successor_post
  <1>16. CASE expire_resting_sell_order
    BY <1>16 DEF expire_resting_sell_order, Watches
  <1>17. CASE reap_state
    BY <1>17, ReadsWatch DEF reap_state
  <1>18. CASE successor_absolute_deadline
    BY <1>18, ReadsWatch DEF successor_absolute_deadline
  <1>19. CASE wait_for_known_match
    BY <1>19, ReadsWatch DEF wait_for_known_match, Watches, chain
  <1>20. QED
    BY <1>3, <1>4, <1>5, <1>6, <1>7, <1>8, <1>9, <1>10, <1>11, <1>12, <1>13, <1>14, <1>15, <1>16,
       <1>17, <1>18, <1>19 DEF DealStep

LEMMA DealStepKeeps ==
  ASSUME OfferInv, DealStep
  PROVE  OfferInv'
  <1>1. CASE post_offer
    BY <1>1, PostKeeps
  <1>2. CASE serve_watched_match
    BY <1>2, ServeKeeps
  <1>3. CASE ~post_offer /\ ~serve_watched_match
    BY <1>3, OtherStepsWatch, StillKeeps DEF Watches
  <1>4. QED
    BY <1>1, <1>2, <1>3

LEMMA NextOffer ==
  ASSUME OfferInv, [Next]_vars
  PROVE  OfferInv'
  <1>1. CASE SellerStep
    <2>1. CASE RelinquishLoop
      BY <2>1, ReadsWatch, StillKeeps DEF RelinquishLoop, Watches
    <2>2. QED
      BY <1>1, <2>1, DealStepKeeps DEF SellerStep
  <1>2. CASE ChainStep \/ Unwound \/ \E m \in Sell : Expires(m) \/ Swept(m) \/ Filled(m)
    BY <1>2, DealHears, LandsKeeps, ExpireLandsKeeps, CancelLandsKeeps, ExpiresKeeps, FilledKeeps
       DEF ChainStep
  <1>3. CASE Stop \/ PoolStops \/ DrainTimeout \/ Crash \/ Restart \/ UNCHANGED vars
    <2>1. UNCHANGED <<sells, latch, closing, fund, journal>>
      BY <1>3 DEF Stop, PoolStops, DrainTimeout, Crash, Restart, Goes, chain, vars
    <2>2. QED
      BY <2>1, StillKeeps
  <1>4. QED
    BY <1>1, <1>2, <1>3 DEF Next

LEMMA InitOffer == Init => OfferInv
  <1> SUFFICES ASSUME Init
               PROVE  OfferInv
    OBVIOUS
  <1>1. Rows = {} /\ Flying = {}
    BY DEF Init, Rows, Flying
  <1>2. OfferTypes
    <2>1. 0 \in 0..MaxPosts
      BY OfferAssumption
    <2>2. QED
      BY <2>1 DEF Init, OfferTypes, Fates, NoJournal
  <1>3. QED
    BY <1>1, <1>2 DEF Init, OfferInv, LatchCovers, OneRow, OneAtATime, JournalNamesSell

\* At most one SELL is under way or resting, and the deal's latch stays down from
\* the moment one lands until the deal has heard how it ended.
THEOREM OfferInvariant == Spec => []OfferInv
  <1>1. Init => OfferInv
    BY InitOffer
  <1>2. OfferInv /\ [Next]_vars => OfferInv'
    BY NextOffer
  <1>3. QED
    BY <1>1, <1>2, PTL DEF Spec

\* A SELL message that may still land is the open one of the durable record
\* (seller_placement.rs records a submission before it is sent and closes the
\* record only when the message was followed to its end).
THEOREM RecordNamesSell == Spec => []JournalNamesSell
  <1>1. OfferInv => JournalNamesSell
    BY DEF OfferInv
  <1>2. QED
    BY <1>1, OfferInvariant, PTL

\* Never two SELLs of the deal that can trade now or later, whatever timed out,
\* was sent twice, crashed or was restarted.
THEOREM OneSellAtATime == Spec => []NoSecondSell
  <1>1. OfferInv => NoSecondSell
    <2> SUFFICES ASSUME OfferInv
                 PROVE  Cardinality(Flying \cup Matchable) <= 1
      BY DEF NoSecondSell
    <2>1. \A m, n \in Flying \cup Matchable : m = n
      <3>1. Matchable \subseteq Rows
        BY DEF Matchable, Rows
      <3>2. \A m, n \in Flying : m = n
        BY DEF OfferInv, JournalNamesSell
      <3>3. QED
        BY <3>1, <3>2 DEF OfferInv, OneRow, OneAtATime
    <2>2. CASE Flying \cup Matchable = {}
      BY <2>2, FS_EmptySet
    <2>3. CASE Flying \cup Matchable # {}
      <3>1. PICK m \in Flying \cup Matchable : TRUE
        BY <2>3
      <3>2. Flying \cup Matchable = {m}
        BY <2>1, <3>1
      <3>3. Cardinality({m}) = 1
        BY FS_Singleton
      <3>4. QED
        BY <3>2, <3>3
    <2>4. QED
      BY <2>2, <2>3
  <1>2. QED
    BY <1>1, OfferInvariant, PTL
-----------------------------------------------------------------------------
(***************************************************************************)
(* A clean stop.  What the argument needs of the chain and of the place    *)
(* the seller's task is at; f stands for the fates of the SELLs, u for the *)
(* seller process.                                                         *)
(***************************************************************************)
\* The record names whatever rests or is under way, and a message is under way only
\* while the deal is free.
Recorded ==
  /\ Rows \cup Flying \subseteq {journal.m}
  /\ Flying # {} => fund = "none"
  /\ fund # "none" => journal.m # 0
  /\ journal.m # 0 => sells[journal.m] # "unsent" /\ (journal.done => sells[journal.m] # "lost")

\* An order the seller may have read of, and one that nobody can take any more.
Known(f, m) == m \in Sell /\ f[m] \in {"live", "expired", "removed", "filled", "refused", "starved"}
Dead(f, m) == Known(f, m) /\ f[m] # "live"
Empty(f) == \A m \in Sell : f[m] \notin {"flying", "live"}
Names(f, m) == m = 0 \/ Known(f, m)

Fields == {"pc", "outer", "loop", "ctx", "old", "id", "tgt", "why", "disp", "resting", "pool",
           "seen", "told", "err"}
Cancels == {"cancel", "cwatch", "reread"}
Prepares(u) == \/ u.pc \in {"ready", "offer", "post", "confirm", "recheck", "resolve", "pend"}
               \/ u.pc \in Cancels /\ u.ctx = "startup"

\* The pool answers for no order when the task has none under care.
Shape(u, f) ==
  /\ DOMAIN u = Fields /\ u.loop \in BOOLEAN /\ u.err \in BOOLEAN
  /\ u.outer \in {"start", "watch", "relist", "final"} /\ u.ctx \in {"startup", "super", "sweep"}
  /\ Names(f, u.id) /\ Names(f, u.tgt) /\ Names(f, u.old)
  /\ u.id = 0 => u.resting = 0

\* Whoever prepares an offer has none under care, or one that is over.
Preparing(u, f) ==
  /\ u.outer = "start" => u.id = 0 /\ ~u.loop
  /\ u.outer = "watch" => u.id = 0 /\ (u.loop \/ u.pc \in {"resolve"} \cup Cancels)
  /\ u.outer = "relist" => u.id # 0 /\ Dead(f, u.id)
  /\ u.outer = "final" => u.id # 0 /\ ~u.loop /\ u.pc \in {"resolve"} \cup Cancels

\* What a task at its place knows of the order under care.
Place(u, f) ==
  /\ Shape(u, f)
  /\ u.loop => Prepares(u)
  /\ Prepares(u) => Preparing(u, f)
  /\ u.pc \in {"boot", "start"} => u.outer = "start" /\ u.id = 0
  /\ u.pc \in {"watch", "succeed", "relist", "reap"} => u.id # 0
  /\ u.pc = "succeed" => u.old # 0
  /\ u.pc = "reap" \/ (u.pc = "relist" /\ proven_unmatchable(u.disp)) => Dead(f, u.id)
  /\ u.pc \in {"recheck"} \cup Cancels => u.tgt # 0
  /\ u.pc \in Cancels /\ u.ctx # "startup" => u.tgt = u.id
  /\ u.pc = "resolve" \/ (u.pc \in Cancels /\ u.ctx # "sweep") => u.why # "expired"
  /\ u.pc = "exit" /\ ~u.err => Empty(f) \/ Dead(f, u.id)

StopInv == OfferInv /\ Recorded /\ Place(s, sells)

-----------------------------------------------------------------------------
(***************************************************************************)
(* Where the pool's decisions lead.                                        *)
(***************************************************************************)
LEMMA SweepPlace ==
  ASSUME NEW u, NEW f, Shape(u, f), ~u.loop, u.resting # 0 => u.resting = u.id,
         u.resting = 0 => u.err \/ Empty(f) \/ Dead(f, u.id)
  PROVE  Place(Sweep(u), f)
  <1>1. CASE u.resting = 0
    BY <1>1 DEF Sweep, Place, Shape, Fields, Prepares, Cancels
  <1>2. CASE u.resting # 0
    BY <1>2 DEF Sweep, Place, Shape, Fields, Prepares, Cancels
  <1>3. QED
    BY <1>1, <1>2

LEMMA WatchFailsPlace ==
  ASSUME NEW u, NEW f, Shape(u, f), ~u.loop
  PROVE  Place(WatchFails(u), f)
  <1> DEFINE v == [Reseat(u) EXCEPT !.err = TRUE]
  <1>1. /\ Shape(v, f) /\ ~v.loop /\ v.err /\ (v.resting # 0 => v.resting = v.id)
    BY DEF Reseat, Shape, Fields
  <1>2. CASE u.pool = "draining"
    <2> HIDE DEF v
    <2>1. Place(Sweep(v), f)
      BY <1>1, SweepPlace
    <2>2. QED
      BY <1>2, <2>1 DEF WatchFails, v
  <1>3. CASE u.pool # "draining"
    BY <1>3 DEF WatchFails, Place, Shape, Fields, Prepares, Cancels
  <1>4. QED
    BY <1>2, <1>3

\* A pending SELL is looked for, or the order under care is watched again.
LEMMA RearmPlace ==
  ASSUME NEW u, NEW f, Shape(u, f), ~u.loop
  PROVE  Place(Rearm(u), f)
  <1>1. CASE u.id = 0
    BY <1>1 DEF Rearm, Place, Shape, Fields, Prepares, Preparing, Cancels
  <1>2. CASE u.id # 0
    BY <1>2 DEF Rearm, Place, Shape, Fields, Prepares, Cancels
  <1>3. QED
    BY <1>1, <1>2

LEMMA WatchStopsPlace ==
  ASSUME NEW u, NEW f, NEW why, NEW d, Shape(u, f), ~u.loop,
         proven_unmatchable(d) => Dead(f, u.id)
  PROVE  Place(WatchStops(u, why, d), f)
  <1> DEFINE v == [u EXCEPT !.why = why, !.disp = d]
  <1>1. Shape(v, f) /\ ~v.loop /\ v.id = u.id /\ v.pool = u.pool
    BY DEF Shape, Fields
  <1>2. WatchStops(u, why, d) =
          IF u.pool = "draining" THEN DrainedOutcome(v, d)
          ELSE IF proven_unmatchable(d) THEN [v EXCEPT !.pc = "retired", !.resting = 0]
          ELSE Rearm(Reseat(v))
    BY DEF WatchStops
  <1> HIDE DEF v
  <1>3. CASE u.pool = "draining" /\ proven_unmatchable(d)
    <2> DEFINE w == [v EXCEPT !.resting = 0]
    <2>1. Shape(w, f) /\ ~w.loop /\ w.resting = 0 /\ Dead(f, w.id)
      BY <1>1, <1>3 DEF Shape, Fields
    <2> HIDE DEF w
    <2>2. Place(Sweep(w), f)
      BY <2>1, SweepPlace
    <2>3. QED
      BY <1>2, <1>3, <2>2 DEF DrainedOutcome, w
  <1>4. CASE u.pool = "draining" /\ ~proven_unmatchable(d)
    <2> DEFINE e == v.err \/ (v.id = 0 /\ v.resting = 0) \/ has_pending_sell_offer
               w == [Reseat(v) EXCEPT !.err = e]
    <2>0. e \in BOOLEAN /\ (v.id = 0 => e)
      BY <1>1 DEF Shape
    <2>1. WatchStops(u, why, d) = Sweep(w)
      BY <1>2, <1>4 DEF DrainedOutcome
    <2> HIDE DEF e
    <2>2. /\ Shape(w, f) /\ ~w.loop /\ (w.resting # 0 => w.resting = w.id)
          /\ w.id = v.id /\ w.err = e /\ (v.id # 0 => w.resting = v.id)
      BY <1>1, <2>0 DEF Reseat, Shape, Fields
    <2>3. w.resting = 0 => w.err
      BY <2>0, <2>2
    <2> HIDE DEF w
    <2>4. Place(Sweep(w), f)
      BY <2>2, <2>3, SweepPlace
    <2>5. QED
      BY <2>1, <2>4
  <1>5. CASE u.pool # "draining" /\ proven_unmatchable(d)
    BY <1>1, <1>2, <1>5 DEF Place, Shape, Fields, Prepares, Cancels
  <1>6. CASE u.pool # "draining" /\ ~proven_unmatchable(d)
    <2>1. Shape(Reseat(v), f) /\ ~Reseat(v).loop
      BY <1>1 DEF Reseat, Shape, Fields
    <2>2. Place(Rearm(Reseat(v)), f)
      BY <2>1, RearmPlace
    <2>3. QED
      BY <1>2, <1>6, <2>2
  <1>7. QED
    BY <1>3, <1>4, <1>5, <1>6

LEMMA GenerationPlace ==
  ASSUME NEW u, NEW f, NEW why, NEW d, Shape(u, f), ~u.loop, u.id # 0,
         proven_unmatchable(d) \/ why = "expired" => Dead(f, u.id)
  PROVE  Place(Generation(u, why, d), f)
  <1> DEFINE v == [u EXCEPT !.why = why, !.disp = d]
             reaps == \/ why = "expired"
                      \/ why = "upstream" /\ d \in {"cancelled", "absent", "expired"}
  <1>1. Shape(v, f) /\ ~v.loop /\ v.id = u.id /\ v.disp = d
    BY DEF Shape, Fields
  <1>2. Generation(u, why, d) =
          IF why = "post" THEN [v EXCEPT !.pc = "relist"]
          ELSE IF reaps THEN [v EXCEPT !.pc = "reap"] ELSE WatchStops(v, why, d)
    BY DEF Generation
  <1>3. reaps => Dead(f, u.id)
    BY DEF proven_unmatchable
  <1> HIDE DEF v, reaps
  <1>4. Place([v EXCEPT !.pc = "relist"], f)
    BY <1>1 DEF Place, Shape, Fields, Prepares, Cancels
  <1>5. CASE why # "post" /\ reaps
    BY <1>1, <1>2, <1>3, <1>5 DEF Place, Shape, Fields, Prepares, Cancels
  <1>6. Place(WatchStops(v, why, d), f)
    BY <1>1, WatchStopsPlace
  <1>7. QED
    BY <1>2, <1>4, <1>5, <1>6

LEMMA StartEndsShape ==
  ASSUME NEW u, NEW f, Shape(u, f), ~u.loop
  PROVE  Shape(StartEnds(u), f) /\ ~StartEnds(u).loop
  BY DEF StartEnds, Shape, Fields

LEMMA StartStopsPlace ==
  ASSUME NEW u, NEW f, NEW why, NEW d, Shape(u, f), ~u.loop
  PROVE  Place(StartStops(u, why, d), f)
  <1>1. CASE proven_unmatchable(d)
    BY <1>1 DEF StartStops, Place, Shape, Fields, Prepares, Cancels
  <1>2. CASE ~proven_unmatchable(d) /\ u.id = 0
    BY <1>2, RearmPlace DEF StartStops
  <1>3. CASE ~proven_unmatchable(d) /\ u.id # 0
    <2> DEFINE v == [u EXCEPT !.resting = u.id, !.err = TRUE]
    <2>1. Shape(v, f) /\ ~v.loop /\ v.id # 0 /\ v.resting = v.id /\ v.err
      BY <1>3 DEF Shape, Fields
    <2>2. StartStops(u, why, d) = IF why = "shutdown" THEN Sweep(v) ELSE [v EXCEPT !.pc = "watch"]
      BY <1>3 DEF StartStops
    <2> HIDE DEF v
    <2>3. Place(Sweep(v), f)
      BY <2>1, SweepPlace
    <2>4. Place([v EXCEPT !.pc = "watch"], f)
      BY <2>1 DEF Place, Shape, Fields, Prepares, Cancels
    <2>5. QED
      BY <2>2, <2>3, <2>4
  <1>4. QED
    BY <1>1, <1>2, <1>3

\* A preparation stops with order i named, or with none.  A proof that nothing can be
\* taken is about order i, or the preparation had asked for nothing yet.
LEMMA PrepareStopsPlace ==
  ASSUME NEW u, NEW f, NEW i, NEW why, NEW d, Place(u, f), Prepares(u), Names(f, i),
         why # "expired",
         proven_unmatchable(d) => Dead(f, i) \/ (i = 0 /\ u.outer \in {"start", "relist"})
  PROVE  Place(PrepareStops(u, i, why, d), f)
  <1>1. Shape(u, f) /\ Preparing(u, f)
    BY DEF Place
  <1>2. 0 \notin Sell
    BY DEF Sell
  <1>3. CASE u.loop /\ (~proven_unmatchable(d) \/ why = "upstream")
    <2>1. u.outer \in {"watch", "relist"}
      BY <1>1, <1>3 DEF Shape, Preparing
    <2>2. QED
      BY <1>1, <1>3, <2>1 DEF PrepareStops, Place, Shape, Fields, Prepares, Preparing, Cancels
  <1>4. CASE ~(u.loop /\ (~proven_unmatchable(d) \/ why = "upstream"))
    <2> DEFINE v == [u EXCEPT !.loop = FALSE]
               j == IF i # 0 THEN i ELSE u.id
    <2>1. Shape(v, f) /\ ~v.loop /\ v.id = u.id /\ v.outer = u.outer
      BY <1>1 DEF Shape, Fields
    <2>2. /\ u.outer = "start" =>
               PrepareStops(u, i, why, d) = StartStops(StartEnds([v EXCEPT !.id = i]), why, d)
          /\ u.outer = "watch" => PrepareStops(u, i, why, d) = WatchStops([v EXCEPT !.id = i], why, d)
          /\ u.outer = "relist" => PrepareStops(u, i, why, d) = Generation([v EXCEPT !.id = j], why, d)
          /\ u.outer = "final" => PrepareStops(u, i, why, d) = WatchStops([v EXCEPT !.id = j], why, d)
      BY <1>4 DEF PrepareStops
    <2>3. Dead(f, i) => i # 0
      BY <1>2 DEF Dead, Known
    <2> HIDE DEF v
    <2>4. CASE u.outer = "start" \/ u.outer = "watch"
      <3> DEFINE w == [v EXCEPT !.id = i]
      <3>1. Shape(w, f) /\ ~w.loop /\ w.id = i
        BY <1>1, <2>1, <2>4 DEF Shape, Fields, Preparing
      <3> HIDE DEF w
      <3>2. CASE u.outer = "start"
        <4>1. Place(StartStops(StartEnds(w), why, d), f)
          BY <3>1, StartEndsShape, StartStopsPlace
        <4>2. QED
          BY <2>2, <3>2, <4>1 DEF w
      <3>3. CASE u.outer = "watch"
        <4>1. Place(WatchStops(w, why, d), f)
          BY <3>1, <3>3, WatchStopsPlace
        <4>2. QED
          BY <2>2, <3>3, <4>1 DEF w
      <3>4. QED
        BY <2>4, <3>2, <3>3
    <2>5. CASE u.outer = "relist" \/ u.outer = "final"
      <3> DEFINE w == [v EXCEPT !.id = j]
      <3>1. j # 0 /\ Names(f, j)
        BY <1>1, <2>5 DEF Preparing, Shape
      <3>2. proven_unmatchable(d) => Dead(f, j)
        BY <1>1, <2>3, <2>5 DEF Preparing
      <3> HIDE DEF j
      <3>3. Shape(w, f) /\ ~w.loop /\ w.id = j
        BY <2>1, <3>1 DEF Shape, Fields
      <3> HIDE DEF w
      <3>4. Place(Generation(w, why, d), f)
        BY <3>1, <3>2, <3>3, GenerationPlace
      <3>5. Place(WatchStops(w, why, d), f)
        BY <3>2, <3>3, WatchStopsPlace
      <3>6. QED
        BY <2>2, <2>5, <3>4, <3>5 DEF w
    <2>6. QED
      BY <1>1, <2>4, <2>5 DEF Shape
  <1>5. QED
    BY <1>3, <1>4

LEMMA PrepareReadyPlace ==
  ASSUME NEW u, NEW f, NEW o, Place(u, f), Prepares(u), Names(f, o)
  PROVE  Place(PrepareReady(u, o), f)
  <1>1. Shape(u, f) /\ Preparing(u, f)
    BY DEF Place
  <1> DEFINE v == [u EXCEPT !.loop = FALSE, !.why = "none"]
  <1>2. Shape(v, f) /\ ~v.loop /\ v.id = u.id /\ v.resting = u.resting
    BY <1>1 DEF Shape, Fields
  <1>3. Shape(StartEnds(v), f) /\ ~StartEnds(v).loop
    BY <1>2, StartEndsShape
  <1> DEFINE st == StartEnds(v)
             p == IF o = 0 THEN "known" ELSE "watch"
  <1>4. /\ u.outer = "start" => PrepareReady(u, o) =
             [st EXCEPT !.pc = p, !.id = o, !.resting = o]
        /\ u.outer = "watch" => PrepareReady(u, o) =
             [v EXCEPT !.pc = p, !.id = o]
        /\ u.outer = "final" => PrepareReady(u, o) = [v EXCEPT !.pc = "serve"]
        /\ u.outer = "relist" => PrepareReady(u, o) =
             IF o = 0 THEN [v EXCEPT !.pc = "serve"]
             ELSE IF o = u.id THEN WatchStops(v, "expired", "unknown")
             ELSE [v EXCEPT !.pc = "succeed", !.old = o]
    BY DEF PrepareReady
  <1>0. p \in {"known", "watch"} /\ (p = "watch" => o # 0)
    OBVIOUS
  <1> HIDE DEF v, st, p
  <1>5. CASE u.outer = "start"
    <2>1. Shape(st, f) /\ ~st.loop
      BY <1>3 DEF st
    <2>2. Place([st EXCEPT !.pc = p, !.id = o, !.resting = o], f)
      BY <1>0, <2>1 DEF Place, Shape, Fields, Prepares, Cancels
    <2>3. QED
      BY <1>4, <1>5, <2>2
  <1>6. CASE u.outer = "watch"
    <2>1. u.id = 0
      BY <1>1, <1>6 DEF Preparing
    <2>2. Place([v EXCEPT !.pc = p, !.id = o], f)
      BY <1>0, <1>2, <2>1 DEF Place, Shape, Fields, Prepares, Cancels
    <2>3. QED
      BY <1>4, <1>6, <2>2
  <1>7. Place([v EXCEPT !.pc = "serve"], f)
    BY <1>2 DEF Place, Shape, Fields, Prepares, Cancels
  <1>8. CASE u.outer = "relist"
    <2>1. Place(WatchStops(v, "expired", "unknown"), f)
      BY <1>2, WatchStopsPlace DEF proven_unmatchable
    <2>2. CASE o # 0
      <3>1. u.id # 0
        BY <1>1, <1>8 DEF Preparing
      <3>2. Place([v EXCEPT !.pc = "succeed", !.old = o], f)
        BY <1>2, <2>2, <3>1 DEF Place, Shape, Fields, Prepares, Cancels
      <3>3. QED
        BY <1>4, <1>7, <1>8, <2>1, <3>2
    <2>3. QED
      BY <1>4, <1>7, <1>8, <2>2
  <1>9. QED
    BY <1>1, <1>4, <1>5, <1>6, <1>7, <1>8 DEF Shape

\* Stopping an order and looking for one are part of the preparation.
LEMMA WithdrawPlace ==
  ASSUME NEW u, NEW f, NEW i, NEW why, Place(u, f), Prepares(u), Known(f, i), why # "expired"
  PROVE  Place(Withdraw(u, i, why), f)
  <1>1. i # 0
    BY DEF Known, Sell
  <1>2. QED
    BY <1>1 DEF Withdraw, Place, Shape, Fields, Prepares, Preparing, Cancels, Names

LEMMA ResolvePlace ==
  ASSUME NEW u, NEW f, NEW why, Place(u, f), Prepares(u), why # "expired"
  PROVE  Place(Resolve(u, why), f)
  BY DEF Resolve, Place, Shape, Fields, Prepares, Preparing, Cancels

LEMMA PrepareFailsPlace ==
  ASSUME NEW u, NEW f, NEW why \in {"post", "watcher"}, Place(u, f), u.pc = "ready"
  PROVE  Place(PrepareFails(u, why), f)
  <1>1. Shape(u, f) /\ Preparing(u, f) /\ Prepares(u)
    BY DEF Place, Prepares
  <1>2. CASE u.loop /\ u.old = 0
    BY <1>1, <1>2, ResolvePlace DEF PrepareFails
  <1>3. CASE u.loop /\ u.old # 0
    <2>1. Known(f, u.old)
      BY <1>1, <1>3 DEF Shape, Names
    <2>2. QED
      BY <1>1, <1>3, <2>1, WithdrawPlace DEF PrepareFails
  <1>4. CASE ~u.loop /\ u.outer = "start"
    <2> DEFINE v == StartEnds(u)
    <2>1. Shape(v, f) /\ ~v.loop
      BY <1>1, <1>4, StartEndsShape
    <2> HIDE DEF v
    <2>2. Place([v EXCEPT !.pc = "isolated", !.err = TRUE], f)
      BY <2>1 DEF Place, Shape, Fields, Prepares, Cancels
    <2>3. QED
      BY <1>4, <2>2 DEF PrepareFails, v
  <1>5. CASE ~u.loop /\ u.outer # "start"
    <2>1. u.id # 0
      BY <1>1, <1>5 DEF Preparing, Shape, Cancels
    <2>2. Place(Generation(u, "post", "unknown"), f)
      BY <1>1, <1>5, <2>1, GenerationPlace DEF proven_unmatchable
    <2>3. Place(WatchFails(u), f)
      BY <1>1, <1>5, WatchFailsPlace
    <2>4. QED
      BY <1>5, <2>2, <2>3 DEF PrepareFails
  <1>6. QED
    BY <1>1, <1>2, <1>3, <1>4, <1>5 DEF Shape

\* What a cancellation found out: a proof is about the order it was for.
LEMMA CancelDonePlace ==
  ASSUME NEW u, NEW f, NEW d, Place(u, f), u.pc \in Cancels, proven_unmatchable(d) => Dead(f, u.tgt)
  PROVE  Place(CancelDone(u, d), f)
  <1>1. Shape(u, f) /\ u.tgt # 0
    BY DEF Place
  <1>2. CASE u.ctx = "startup"
    <2> DEFINE e == IF proven_unmatchable(d) /\ has_pending_sell_offer THEN "unknown" ELSE d
    <2>1. Prepares(u) /\ Names(f, u.tgt) /\ Names(f, 0) /\ u.why # "expired"
      BY <1>1, <1>2 DEF Prepares, Shape, Names, Place
    <2>2. proven_unmatchable(e) => Dead(f, u.tgt)
      BY DEF proven_unmatchable
    <2>3. CancelDone(u, d) =
            IF d = "matched" THEN PrepareReady(u, 0) ELSE PrepareStops(u, u.tgt, u.why, e)
      BY <1>2 DEF CancelDone
    <2> HIDE DEF e
    <2>4. Place(PrepareReady(u, 0), f) /\ Place(PrepareStops(u, u.tgt, u.why, e), f)
      BY <2>1, <2>2, PrepareReadyPlace, PrepareStopsPlace
    <2>5. QED
      BY <2>3, <2>4
  <1>3. CASE u.ctx # "startup"
    <2>1. ~u.loop /\ u.tgt = u.id
      BY <1>1, <1>3 DEF Place, Prepares, Cancels, Shape
    <2>2. Place([u EXCEPT !.pc = "serve"], f)
      BY <1>1, <2>1 DEF Place, Shape, Fields, Prepares, Cancels
    <2>3. CASE u.ctx = "super"
      <3>1. u.why # "expired"
        BY <2>3 DEF Place
      <3>2. Place(Generation(u, u.why, d), f)
        BY <1>1, <2>1, <3>1, GenerationPlace
      <3>3. QED
        BY <2>2, <2>3, <3>2 DEF CancelDone
    <2>4. CASE u.ctx = "sweep"
      <3> DEFINE e == u.err \/ ~proven_unmatchable(d)
                 v == [u EXCEPT !.pc = "exit", !.resting = 0, !.err = e]
      <3>1. e \in BOOLEAN /\ (~e => Dead(f, u.id))
        BY <1>1, <2>1 DEF Shape
      <3>2. CancelDone(u, d) = IF d = "matched" THEN [u EXCEPT !.pc = "serve"] ELSE v
        BY <2>4 DEF CancelDone
      <3> HIDE DEF e
      <3>3. Place(v, f)
        BY <1>1, <2>1, <3>1 DEF Place, Shape, Fields, Prepares, Cancels
      <3>4. QED
        BY <2>2, <3>2, <3>3
    <2>5. QED
      BY <1>1, <1>3, <2>3, <2>4 DEF Shape
  <1>4. QED
    BY <1>2, <1>3

-----------------------------------------------------------------------------
(***************************************************************************)
(* The seller's steps.                                                     *)
(***************************************************************************)
\* What the seller reads of the chain.
LEMMA Readings ==
  ASSUME StopInv
  PROVE  /\ \A m \in Rows : Known(sells, m) /\ m # 0
         /\ Rows # {} => Row \in Rows
         /\ \A m : Known(sells, m) /\ (m \notin Rows \/ m \notin Matchable) => Dead(sells, m)
         /\ Taken => Empty(sells)
         /\ has_pending_sell_offer \in BOOLEAN
  <1>1. \A m \in Rows : Known(sells, m) /\ m # 0
    BY DEF Rows, Known, Sell
  <1>2. Rows # {} => Row \in Rows
    BY DEF Row
  <1>3. \A m : Known(sells, m) /\ (m \notin Rows \/ m \notin Matchable) => Dead(sells, m)
    BY DEF Known, Dead, Rows, Matchable
  <1>4. Taken => Empty(sells)
    BY DEF Taken, Empty, StopInv, OfferInv, LatchCovers, Recorded, Rows, Flying
  <1>5. QED
    BY <1>1, <1>2, <1>3, <1>4 DEF has_pending_sell_offer, StopInv, OfferInv, OfferTypes

\* A step to u that leaves the SELLs alone.
LEMMA StepTo ==
  ASSUME NEW u, Place(u, sells), Goes(u) \/ Reads(u) \/ Fails(u)
  PROVE  Place(s, sells)'
  BY DEF Goes, Reads, Fails, chain

LEMMA BootPlace ==
  ASSUME StopInv, sweep_expired_seller_offer
  PROVE  Place(s, sells)'
  <1>1. Place(s, sells) /\ s.pc = "boot" /\ Shape(s, sells)
    BY DEF StopInv, Place, sweep_expired_seller_offer, At
  <1>2. s.outer = "start" /\ s.id = 0 /\ ~s.loop
    BY <1>1 DEF Place, Prepares, Cancels, Shape
  <1>3. /\ Place([s EXCEPT !.pc = "start"], sells)
        /\ Place([s EXCEPT !.pc = "start", !.old = 0], sells)
        /\ Place([s EXCEPT !.pc = "exit", !.err = TRUE], sells)
    BY <1>1, <1>2 DEF Place, Shape, Fields, Prepares, Cancels, Names
  <1>4. ASSUME NEW m \in Rows, s' = [s EXCEPT !.old = m], UNCHANGED sells
        PROVE  Place(s, sells)'
    <2>1. Known(sells, m)
      BY Readings
    <2>2. Place([s EXCEPT !.old = m], sells)
      BY <1>1, <1>2, <2>1 DEF Place, Shape, Fields, Prepares, Cancels, Names
    <2>3. QED
      BY <1>4, <2>2
  <1>5. QED
    BY <1>3, <1>4, StepTo DEF sweep_expired_seller_offer

LEMMA StartPlace ==
  ASSUME StopInv, prepare_pool_deal_reporting_identity
  PROVE  Place(s, sells)'
  <1>1. Place(s, sells) /\ s.pc = "start" /\ Shape(s, sells)
    BY DEF StopInv, Place, prepare_pool_deal_reporting_identity, At
  <1>2. s.outer = "start" /\ s.id = 0 /\ ~s.loop
    BY <1>1 DEF Place, Prepares, Cancels, Shape
  <1> DEFINE v == StartEnds(s)
             o == IF inspect_seller_offer = "resting" THEN Row ELSE 0
  <1>3. Shape(v, sells) /\ ~v.loop
    BY <1>1, <1>2, StartEndsShape
  <1>4. Place(Rearm(v), sells)
    BY <1>3, RearmPlace
  <1>5. Names(sells, o)
    BY Readings DEF inspect_seller_offer, Names
  <1> HIDE DEF v, o
  <1>6. Place([v EXCEPT !.pc = "known"], sells) /\ Place([v EXCEPT !.pc = "isolated", !.err = TRUE], sells)
    BY <1>3 DEF Place, Shape, Fields, Prepares, Cancels
  <1>7. Place([s EXCEPT !.pc = "ready", !.old = o], sells)
    BY <1>1, <1>2, <1>5 DEF Place, Shape, Fields, Prepares, Preparing, Cancels
  <1>8. QED
    BY <1>4, <1>6, <1>7, StepTo DEF prepare_pool_deal_reporting_identity, v, o

\* The signal a start consumes changes nothing else.
LEMMA HeedingPlace ==
  ASSUME StopInv
  PROVE  /\ Place(Heeding, sells) /\ Heeding.pc = s.pc /\ Heeding.outer = s.outer
         /\ Heeding.tgt = s.tgt /\ Heeding.old = s.old /\ Heeding.ctx = s.ctx
  <1> DEFINE e == s.seen \/ (Interrupted /\ s.outer = "start")
             h == [s EXCEPT !.seen = e]
  <1>1. DOMAIN s = Fields
    BY DEF StopInv, Place, Shape
  <1>2. Heeding = h
    BY <1>1 DEF Heeding, Fields
  <1> HIDE DEF e
  <1>3. /\ DOMAIN h = Fields /\ h.pc = s.pc /\ h.outer = s.outer /\ h.loop = s.loop
        /\ h.ctx = s.ctx /\ h.old = s.old /\ h.id = s.id /\ h.tgt = s.tgt /\ h.why = s.why
        /\ h.disp = s.disp /\ h.resting = s.resting /\ h.pool = s.pool /\ h.err = s.err
    BY <1>1 DEF Fields
  <1> HIDE DEF h
  <1>4. Place(h, sells)
    BY <1>3 DEF StopInv, Place, Shape, Prepares, Preparing
  <1>5. QED
    BY <1>2, <1>3, <1>4

LEMMA ReadyPlace ==
  ASSUME StopInv, startup_readiness
  PROVE  Place(s, sells)'
  <1>1. Place(s, sells) /\ s.pc = "ready" /\ Shape(s, sells) /\ Prepares(s) /\ Preparing(s, sells)
    BY DEF StopInv, Place, startup_readiness, At, Prepares
  <1>2. CASE ~Interrupted /\ Goes([s EXCEPT !.pc = "offer"])
    <2>1. Place([s EXCEPT !.pc = "offer"], sells)
      BY <1>1 DEF Place, Shape, Fields, Prepares, Preparing, Cancels
    <2>2. QED
      BY <1>2, <2>1, StepTo
  <1>3. ASSUME NEW why \in {"post", "watcher"}, Fails(PrepareFails(s, why))
        PROVE  Place(s, sells)'
    BY <1>1, <1>3, PrepareFailsPlace, StepTo
  <1>4. s.old # 0 => Known(sells, s.old)
    BY <1>1 DEF Shape, Names
  <1>5. CASE /\ Interrupted
             /\ Goes(IF s.old # 0 THEN Withdraw(Heeding, s.old, "shutdown")
                     ELSE PrepareStops(Heeding, 0, "shutdown", "absent"))
    <2>1. Place(Heeding, sells) /\ Prepares(Heeding) /\ Heeding.outer = s.outer
      BY <1>1, HeedingPlace DEF Prepares
    <2>2. s.outer \in {"start", "relist"}
      BY <1>1, <1>5 DEF Interrupted, Preparing, Shape, Cancels
    <2>3. Place(PrepareStops(Heeding, 0, "shutdown", "absent"), sells)
      BY <2>1, <2>2, PrepareStopsPlace DEF Names
    <2>4. s.old # 0 => Place(Withdraw(Heeding, s.old, "shutdown"), sells)
      BY <1>4, <2>1, WithdrawPlace
    <2>5. QED
      BY <1>5, <2>3, <2>4, StepTo
  <1>6. ASSUME NEW why \in {"gateway", "upstream"},
               Fails(IF s.old # 0 THEN Withdraw(s, s.old, why) ELSE PrepareFails(s, "watcher"))
        PROVE  Place(s, sells)'
    <2>1. Place(PrepareFails(s, "watcher"), sells)
      BY <1>1, PrepareFailsPlace
    <2>2. s.old # 0 => Place(Withdraw(s, s.old, why), sells)
      BY <1>1, <1>4, WithdrawPlace
    <2>3. QED
      BY <1>6, <2>1, <2>2, StepTo
  <1>7. QED
    BY <1>2, <1>3, <1>5, <1>6 DEF startup_readiness

LEMMA OfferPlace ==
  ASSUME StopInv, prepare_seller_offer
  PROVE  Place(s, sells)'
  <1>1. Place(s, sells) /\ s.pc = "offer" /\ Shape(s, sells) /\ Prepares(s) /\ Preparing(s, sells)
    BY DEF StopInv, Place, prepare_seller_offer, At, Prepares
  <1>2. Place(Heeding, sells) /\ Prepares(Heeding)
    BY <1>1, HeedingPlace DEF Prepares
  <1>3. Place(PrepareReady(Heeding, 0), sells)
    BY <1>2, PrepareReadyPlace DEF Names
  <1>4. CASE Rows # {}
    <2>1. Known(sells, Row) /\ Names(sells, Row)
      BY <1>4, Readings DEF Names
    <2>2. Place(Withdraw(Heeding, Row, "shutdown"), sells) /\ Place(PrepareReady(s, Row), sells)
      BY <1>1, <1>2, <2>1, WithdrawPlace, PrepareReadyPlace
    <2>3. QED
      BY <1>3, <2>2, <1>4, StepTo, ResolvePlace, <1>1, <1>2
         DEF prepare_seller_offer, inspect_seller_offer
  <1>5. CASE Rows = {}
    <2>1. Place([s EXCEPT !.pc = "post"], sells)
      BY <1>1 DEF Place, Shape, Fields, Prepares, Preparing, Cancels
    <2>2. QED
      BY <1>1, <1>2, <1>3, <1>5, <2>1, StepTo, ResolvePlace
         DEF prepare_seller_offer, inspect_seller_offer
  <1>6. QED
    BY <1>4, <1>5


\* What is known of an order stays known, and what is over stays over.
LEMMA PlaceMoves ==
  ASSUME NEW u, NEW f, NEW g, Place(u, f),
         \A m : (Known(f, m) => Known(g, m)) /\ (Dead(f, m) => Dead(g, m)),
         Empty(f) => Empty(g) \/ u.pc # "exit"
  PROVE  Place(u, g)
  BY DEF Place, Shape, Preparing, Names

LEMMA PostPlace ==
  ASSUME StopInv, post_offer
  PROVE  Place(s, sells)'
  <1>1. Place(s, sells) /\ s.pc = "post" /\ Shape(s, sells) /\ Prepares(s) /\ Preparing(s, sells)
    BY DEF StopInv, Place, post_offer, At, Prepares
  <1>2. Place([s EXCEPT !.pc = "confirm"], sells)
    BY <1>1 DEF Place, Shape, Fields, Prepares, Preparing, Cancels
  <1>3. \A why \in {"post", "watcher", "shutdown"} : Place(Resolve(s, why), sells)
    BY <1>1, ResolvePlace
  <1>4. Place(Resolve(Heeding, "shutdown"), sells)
    BY <1>1, HeedingPlace, ResolvePlace DEF Prepares
  <1>5. [s EXCEPT !.pc = "confirm"].pc # "exit" /\ \A why : Resolve(s, why).pc # "exit"
    BY <1>1 DEF Resolve, Shape, Fields
  <1>6. CASE UNCHANGED sells
    BY <1>2, <1>3, <1>4, <1>6, StepTo DEF post_offer
  <1>7. ASSUME NEW m \in Sell, sells[m] = "unsent", NEW st \in {"flying", "lost"}, Becomes(m, st),
               \/ s' = [s EXCEPT !.pc = "confirm"]
               \/ \E why \in {"post", "watcher"} : s' = Resolve(s, why)
        PROVE  Place(s, sells)'
    <2>1. \A n \in Sell \ {m} : sells'[n] = sells[n]
      BY <1>7, BecomesOne DEF Fates, StopInv
    <2>2. \A n : (Known(sells, n) => Known(sells', n)) /\ (Dead(sells, n) => Dead(sells', n))
      BY <1>7, <2>1 DEF Known, Dead
    <2>3. Place(s', sells) /\ s'.pc # "exit"
      BY <1>2, <1>3, <1>5, <1>7
    <2>4. QED
      BY <2>2, <2>3, PlaceMoves
  <1>8. QED
    BY <1>6, <1>7 DEF post_offer, Goes, chain

LEMMA ConfirmPlace ==
  ASSUME StopInv, confirm_offer_outcome
  PROVE  Place(s, sells)'
  <1>1. Place(s, sells) /\ s.pc = "confirm" /\ Shape(s, sells) /\ Prepares(s) /\ Preparing(s, sells)
    BY DEF StopInv, Place, confirm_offer_outcome, At, Prepares
  <1>2. Place(Heeding, sells) /\ Prepares(Heeding)
    BY <1>1, HeedingPlace DEF Prepares
  <1>3. /\ Place(PrepareReady(Heeding, 0), sells) /\ Place(Resolve(Heeding, "shutdown"), sells)
        /\ \A why \in {"post", "watcher"} : Place(Resolve(s, why), sells)
    BY <1>1, <1>2, PrepareReadyPlace, ResolvePlace DEF Names
  <1>4. ASSUME NEW m, Known(sells, m) PROVE Place([s EXCEPT !.pc = "recheck", !.tgt = m], sells)
    <2>1. m # 0 /\ Names(sells, m)
      BY <1>4 DEF Known, Names, Sell
    <2>2. QED
      BY <1>1, <2>1 DEF Place, Shape, Fields, Prepares, Preparing, Cancels
  <1>5. Rows # {} => Known(sells, Row)
    BY Readings
  <1>6. ASSUME journal.m # 0, reconcile_seller_placement.done,
               s' = IF sells[journal.m] \in {"refused", "starved"} THEN Resolve(s, "post")
                    ELSE [s EXCEPT !.pc = "recheck", !.tgt = journal.m],
               UNCHANGED sells
        PROVE  Place(s, sells)'
    <2>1. /\ journal.m \in Sell /\ sells[journal.m] \in Fates /\ sells[journal.m] # "unsent"
          /\ journal.done => sells[journal.m] # "lost"
          /\ sells[journal.m] = "flying" => journal.done = FALSE
      BY <1>6 DEF StopInv, OfferInv, OfferTypes, Recorded, JournalNamesSell, Flying, Sell
    <2>2. sells[journal.m] \notin {"flying", "lost"}
      BY <1>6, <2>1 DEF reconcile_seller_placement
    <2>3. Known(sells, journal.m)
      BY <2>1, <2>2 DEF Known, Fates
    <2>4. QED
      BY <1>3, <1>4, <1>6, <2>3
  <1>7. QED
    BY <1>3, <1>4, <1>5, <1>6, StepTo DEF confirm_offer_outcome, chain

LEMMA RecheckPlace ==
  ASSUME StopInv, recheck_readiness
  PROVE  Place(s, sells)'
  <1>1. Place(s, sells) /\ s.pc = "recheck" /\ Shape(s, sells) /\ Prepares(s)
    BY DEF StopInv, Place, recheck_readiness, At, Prepares
  <1>2. Known(sells, s.tgt) /\ Names(sells, s.tgt)
    BY <1>1 DEF Place, Shape, Names
  <1>3. Place(Heeding, sells) /\ Prepares(Heeding)
    BY <1>1, HeedingPlace DEF Prepares
  <1>4. QED
    BY <1>1, <1>2, <1>3, StepTo, PrepareReadyPlace, WithdrawPlace DEF recheck_readiness

LEMMA ResolvesPlace ==
  ASSUME StopInv, resolve_interrupted_startup
  PROVE  Place(s, sells)'
  <1>1. Place(s, sells) /\ s.pc = "resolve" /\ Prepares(s) /\ s.why # "expired"
    BY DEF StopInv, Place, resolve_interrupted_startup, At, Prepares
  <1>2. Place(PrepareReady(s, 0), sells)
    BY <1>1, PrepareReadyPlace DEF Names
  <1>3. Place(PrepareStops(s, 0, s.why, "unknown"), sells)
    BY <1>1, PrepareStopsPlace DEF Names, proven_unmatchable
  <1>4. Rows # {} => Place(Withdraw(s, Row, s.why), sells)
    BY <1>1, Readings, WithdrawPlace
  <1>5. QED
    BY <1>2, <1>3, <1>4, StepTo DEF resolve_interrupted_startup

LEMMA PendPlace ==
  ASSUME StopInv, prepare_pending_offer
  PROVE  Place(s, sells)'
  <1>1. Place(s, sells) /\ s.pc = "pend" /\ Prepares(s) /\ Shape(s, sells) /\ Preparing(s, sells)
    BY DEF StopInv, Place, prepare_pending_offer, At, Prepares
  <1>2. Place(PrepareReady(s, 0), sells)
    BY <1>1, PrepareReadyPlace DEF Names
  <1> DEFINE o == IF Rows = {} THEN 0 ELSE Row
  <1>3. Names(sells, o)
    BY Readings DEF Names
  <1> HIDE DEF o
  <1>4. Place([s EXCEPT !.pc = "ready", !.old = o], sells)
    BY <1>1, <1>3 DEF Place, Shape, Fields, Prepares, Preparing, Cancels
  <1>5. QED
    BY <1>2, <1>4, StepTo DEF prepare_pending_offer, o

LEMMA CancelPlace ==
  ASSUME StopInv, cancel_and_confirm_before
  PROVE  Place(s, sells)'
  <1>1. Place(s, sells) /\ s.pc = "cancel" /\ s.pc \in Cancels /\ Shape(s, sells) /\ s.tgt # 0
    BY DEF StopInv, Place, cancel_and_confirm_before, At, Cancels
  <1>2. Known(sells, s.tgt)
    BY <1>1 DEF Shape, Names
  <1>3. Place([s EXCEPT !.pc = "cwatch"], sells) /\ Place([s EXCEPT !.pc = "reread"], sells)
    BY <1>1 DEF Place, Shape, Fields, Prepares, Preparing, Cancels
  <1>4. Place(CancelDone(s, "unknown"), sells) /\ Place(CancelDone(s, "matched"), sells)
    BY <1>1, CancelDonePlace DEF proven_unmatchable
  <1>5. target_state = "absent" => Place(CancelDone(s, "absent"), sells)
    BY <1>1, <1>2, Readings, CancelDonePlace DEF target_state
  <1>6. QED
    BY <1>3, <1>4, <1>5, StepTo DEF cancel_and_confirm_before

LEMMA WatchCancelPlace ==
  ASSUME StopInv, watch_accepted_cancel \/ reread_after_rejection
  PROVE  Place(s, sells)'
  <1>1. Place(s, sells) /\ s.pc \in Cancels /\ Shape(s, sells) /\ s.tgt # 0
    BY DEF StopInv, Place, watch_accepted_cancel, reread_after_rejection, At, Cancels
  <1>2. Known(sells, s.tgt)
    BY <1>1 DEF Shape, Names
  <1>3. \A d \in {"unknown", "matched", "rejected"} : Place(CancelDone(s, d), sells)
    BY <1>1, CancelDonePlace DEF proven_unmatchable
  <1>4. target_state = "absent" =>
          Place(CancelDone(s, "absent"), sells) /\ Place(CancelDone(s, "cancelled"), sells)
    BY <1>1, <1>2, Readings, CancelDonePlace DEF target_state
  <1>5. QED
    BY <1>3, <1>4, StepTo DEF watch_accepted_cancel, reread_after_rejection

LEMMA WatchPlace ==
  ASSUME StopInv, supervise_with_timing
  PROVE  Place(s, sells)'
  <1>1. Place(s, sells) /\ s.pc = "watch" /\ Shape(s, sells) /\ s.id # 0 /\ ~s.loop
    BY DEF StopInv, Place, supervise_with_timing, At, Prepares, Cancels, Shape
  <1>2. Known(sells, s.id)
    BY <1>1 DEF Shape, Names
  <1>3. Place([s EXCEPT !.pc = "serve"], sells)
    BY <1>1 DEF Place, Shape, Fields, Prepares, Cancels
  <1>4. \A why \in {"shutdown", "gateway", "upstream", "watcher"} : Place(Supervised(s, why), sells)
    BY <1>1 DEF Supervised, Place, Shape, Fields, Prepares, Cancels
  <1>5. s.id \notin Matchable => Place(Generation(s, "expired", "expired"), sells)
    BY <1>1, <1>2, Readings, GenerationPlace
  <1>6. Place(WatchFails(s), sells)
    BY <1>1, WatchFailsPlace
  <1>7. QED
    BY <1>3, <1>4, <1>5, <1>6, StepTo DEF supervise_with_timing

LEMMA RelistPlace ==
  ASSUME StopInv, recover_successor_post
  PROVE  Place(s, sells)'
  <1>1. Place(s, sells) /\ s.pc = "relist" /\ Shape(s, sells) /\ s.id # 0 /\ ~s.loop
    BY DEF StopInv, Place, recover_successor_post, At, Prepares, Cancels, Shape
  <1>2. Known(sells, s.id)
    BY <1>1 DEF Shape, Names
  <1>3. proven_unmatchable(s.disp) => Place(WatchStops(s, "shutdown", s.disp), sells)
    BY <1>1, WatchStopsPlace DEF Place
  <1>4. Place(Resolve([s EXCEPT !.outer = "final"], "shutdown"), sells)
    BY <1>1 DEF Resolve, Place, Shape, Fields, Prepares, Preparing, Cancels
  <1>5. Place([s EXCEPT !.pc = "serve"], sells)
    BY <1>1 DEF Place, Shape, Fields, Prepares, Cancels
  <1>6. CASE Rows # {}
    <2>1. Names(sells, Row) /\ Row # 0
      BY <1>6, Readings DEF Names
    <2>2. Place([s EXCEPT !.pc = "watch", !.id = Row], sells)
      BY <1>1, <2>1 DEF Place, Shape, Fields, Prepares, Cancels
    <2>3. QED
      BY <1>3, <1>4, <1>5, <1>6, <2>2, StepTo DEF recover_successor_post, inspect_seller_offer
  <1>7. CASE Rows = {}
    <2>1. Dead(sells, s.id)
      BY <1>2, <1>7, Readings
    <2>2. Place([s EXCEPT !.pc = "reap"], sells)
      BY <1>1, <2>1 DEF Place, Shape, Fields, Prepares, Cancels
    <2>3. QED
      BY <1>3, <1>4, <1>5, <1>7, <2>2, StepTo DEF recover_successor_post, inspect_seller_offer
  <1>8. QED
    BY <1>6, <1>7

LEMMA ReapPlace ==
  ASSUME StopInv, reap_state
  PROVE  Place(s, sells)'
  <1>1. /\ Place(s, sells) /\ s.pc = "reap" /\ Shape(s, sells) /\ s.id # 0 /\ ~s.loop
        /\ Dead(sells, s.id)
    BY DEF StopInv, Place, reap_state, At, Prepares, Cancels, Shape
  <1>2. Place([s EXCEPT !.pc = "serve"], sells)
    BY <1>1 DEF Place, Shape, Fields, Prepares, Cancels
  <1>3. \A d : Place(WatchStops(s, s.why, d), sells)
    BY <1>1, WatchStopsPlace
  <1>4. Place([s EXCEPT !.pc = "relist", !.disp = "unknown"], sells)
    BY <1>1 DEF Place, Shape, Fields, Prepares, Cancels
  <1>5. Place(Unproven, sells)
    BY <1>3, <1>4 DEF Unproven
  <1> DEFINE h == has_pending_sell_offer
             p == IF h THEN "pend" ELSE "ready"
  <1>6. h \in BOOLEAN /\ p \in {"pend", "ready"}
    BY Readings
  <1> HIDE DEF h, p
  <1>7. Place([s EXCEPT !.pc = p, !.loop = h, !.outer = "relist", !.old = 0], sells)
    BY <1>1, <1>6 DEF Place, Shape, Fields, Prepares, Preparing, Cancels, Names
  <1>8. QED
    BY <1>2, <1>3, <1>5, <1>7, StepTo DEF reap_state, h, p

LEMMA SucceedPlace ==
  ASSUME StopInv, successor_absolute_deadline
  PROVE  Place(s, sells)'
  <1>1. Place(s, sells) /\ s.pc = "succeed" /\ Shape(s, sells) /\ s.id # 0 /\ ~s.loop /\ s.old # 0
    BY DEF StopInv, Place, successor_absolute_deadline, At, Prepares, Cancels, Shape
  <1>2. Place(WatchStops(s, "expired", "unknown"), sells)
    BY <1>1, WatchStopsPlace DEF proven_unmatchable
  <1> DEFINE o == s.old
  <1>3. Names(sells, o) /\ o # 0
    BY <1>1 DEF Shape
  <1> HIDE DEF o
  <1>4. Place([s EXCEPT !.pc = "watch", !.id = o, !.old = 0], sells)
    BY <1>1, <1>3 DEF Place, Shape, Fields, Prepares, Cancels, Names
  <1>5. QED
    BY <1>2, <1>4, StepTo DEF successor_absolute_deadline, o

LEMMA MatchPlace ==
  ASSUME StopInv, wait_for_known_match \/ serve_watched_match
  PROVE  Place(s, sells)'
  <1>1. Place(s, sells) /\ s.pc \in {"known", "serve"} /\ Shape(s, sells) /\ ~s.loop
    BY DEF StopInv, Place, wait_for_known_match, serve_watched_match, At, Prepares, Cancels, Shape
  <1>2. Place(WatchFails(s), sells)
    BY <1>1, WatchFailsPlace
  <1>3. /\ Place([s EXCEPT !.pc = "serve"], sells)
        /\ Place([s EXCEPT !.pc = "serving", !.resting = 0], sells)
        /\ Place([s EXCEPT !.pc = "exit", !.resting = 0, !.err = TRUE], sells)
    BY <1>1 DEF Place, Shape, Fields, Prepares, Cancels
  <1>4. Taken => Place([s EXCEPT !.pc = "exit", !.resting = 0], sells)
    <2>1. Taken => Empty(sells)
      BY Readings
    <2>2. QED
      BY <1>1, <2>1 DEF Place, Shape, Fields, Prepares, Cancels
  <1>5. UNCHANGED sells
    BY DEF wait_for_known_match, serve_watched_match, Goes, chain
  <1>6. QED
    BY <1>2, <1>3, <1>4, <1>5, StepTo DEF wait_for_known_match, serve_watched_match

LEMMA RelinquishPlace ==
  ASSUME StopInv, RelinquishLoop
  PROVE  Place(s, sells)'
  <1>1. Place(s, sells) /\ Prepares(s) /\ Shape(s, sells) /\ Preparing(s, sells)
    BY DEF StopInv, Place, RelinquishLoop
  <1>2. Place(Resolve([s EXCEPT !.loop = FALSE], "shutdown"), sells)
    BY <1>1 DEF Resolve, Place, Shape, Fields, Prepares, Preparing, Cancels
  <1>3. QED
    BY <1>2, StepTo DEF RelinquishLoop

\* Each step of the deal's task leads to a place it belongs at.
LEMMA SellerPlace ==
  ASSUME StopInv, SellerStep
  PROVE  Place(s, sells)'
  <1>1. CASE expire_resting_sell_order
    BY <1>1 DEF expire_resting_sell_order, StopInv
  <1>2. QED
    BY <1>1, RelinquishPlace, BootPlace, StartPlace, ReadyPlace, OfferPlace, PostPlace, ConfirmPlace,
       RecheckPlace, ResolvesPlace, PendPlace, CancelPlace, WatchCancelPlace, WatchPlace, RelistPlace,
       ReapPlace, SucceedPlace, MatchPlace
       DEF SellerStep, DealStep

\* The pool, the operator and the machine.
LEMMA PoolPlace ==
  ASSUME StopInv, Stop \/ PoolStops \/ DrainTimeout \/ Crash \/ Restart \/ UNCHANGED vars
  PROVE  Place(s, sells)'
  <1>1. Place(s, sells) /\ Shape(s, sells)
    BY DEF StopInv, Place
  <1>2. CASE Stop \/ UNCHANGED vars
    BY <1>1, <1>2 DEF Stop, vars, chain
  <1>3. CASE PoolStops
    <2> DEFINE h == [s EXCEPT !.pool = "draining", !.told = TRUE]
    <2>1. /\ DOMAIN h = Fields /\ h.pc = s.pc /\ h.outer = s.outer /\ h.loop = s.loop
          /\ h.ctx = s.ctx /\ h.old = s.old /\ h.id = s.id /\ h.tgt = s.tgt /\ h.why = s.why
          /\ h.disp = s.disp /\ h.resting = s.resting /\ h.err = s.err
      BY <1>1 DEF Shape, Fields
    <2> HIDE DEF h
    <2>2. Place(h, sells)
      BY <1>1, <2>1 DEF Place, Shape, Prepares, Preparing
    <2>3. QED
      BY <1>3, <2>2, StepTo DEF PoolStops, h
  <1>4. CASE DrainTimeout
    <2>1. Place([s EXCEPT !.pc = "exit", !.loop = FALSE, !.resting = 0, !.err = TRUE], sells)
      BY <1>1 DEF Place, Shape, Fields, Prepares, Cancels
    <2>2. QED
      BY <1>4, <2>1, StepTo DEF DrainTimeout
  <1>5. Place(Booting, sells) /\ Place(Down, sells)
    BY DEF Booting, Down, Place, Shape, Fields, Prepares, Preparing, Cancels, Names
  <1>6. CASE Crash
    BY <1>5, <1>6, StepTo DEF Crash
  <1>7. CASE Restart
    BY <1>5, <1>7 DEF Restart, chain
  <1>8. QED
    BY <1>2, <1>3, <1>4, <1>6, <1>7

\* A step of the chain: at most one SELL meets its fate, and none comes back.
ChainMoves ==
  \/ ChainStep \/ Unwound
  \/ \E m \in Sell : Expires(m) \/ Swept(m) \/ Filled(m)

LEMMA FateMoves ==
  ASSUME ChainMoves
  PROVE  /\ UNCHANGED <<journal, s>>
         /\ \/ UNCHANGED sells
            \/ \E m \in Sell, st \in {"live", "expired", "removed", "filled", "refused", "starved"} :
                 /\ Becomes(m, st)
                 /\ sells[m] \in {"flying", "live", "expired"}
                 /\ st = "live" => sells[m] = "flying"
  BY DEF ChainMoves, ChainStep, Unwound, CloseLands, FundLands, Lands, ExpireLands, CancelLands,
         Expires, Swept, Filled, Leaves, Rows, SellerUnchanged

LEMMA ChainPlace ==
  ASSUME StopInv, ChainMoves
  PROVE  Place(s, sells)'
  <1>1. Place(s, sells) /\ UNCHANGED s
    BY FateMoves DEF StopInv
  <1>2. CASE UNCHANGED sells
    BY <1>1, <1>2
  <1>3. ASSUME NEW m \in Sell,
               NEW st \in {"live", "expired", "removed", "filled", "refused", "starved"},
               Becomes(m, st), sells[m] \in {"flying", "live", "expired"},
               st = "live" => sells[m] = "flying"
        PROVE  Place(s, sells)'
    <2>1. sells'[m] = st /\ \A n \in Sell \ {m} : sells'[n] = sells[n]
      BY <1>3, BecomesOne DEF Fates, StopInv
    <2>2. \A n : (Known(sells, n) => Known(sells', n)) /\ (Dead(sells, n) => Dead(sells', n))
      BY <1>3, <2>1 DEF Known, Dead
    <2>3. Empty(sells) => Empty(sells')
      BY <1>3, <2>1 DEF Empty
    <2>4. QED
      BY <1>1, <2>2, <2>3, PlaceMoves
  <1>4. QED
    BY <1>2, <1>3, FateMoves
-----------------------------------------------------------------------------
(***************************************************************************)
(* The record.                                                             *)
(***************************************************************************)
LEMMA WatchesRecorded ==
  ASSUME OfferInv, Recorded, UNCHANGED sells, journal' \in {journal, reconcile_seller_placement},
         fund' = fund \/ fund' = "none" \/ fund # "none"
  PROVE  Recorded'
  <1>1. Rows' = Rows /\ Flying' = Flying
    BY DEF Rows, Flying
  <1>2. /\ journal'.m = journal.m
        /\ journal'.done => journal.done \/ sells[journal.m] # "lost"
    BY DEF OfferInv, OfferTypes, reconcile_seller_placement
  <1>3. QED
    BY <1>1, <1>2 DEF Recorded

LEMMA PostRecorded ==
  ASSUME OfferInv, Recorded, post_offer
  PROVE  Recorded'
  <1>1. fund' = fund
    BY DEF post_offer, chain, Goes
  <1>2. \/ UNCHANGED sells /\ journal' \in {journal, reconcile_seller_placement}
        \/ /\ MayPost
           /\ \E m \in Sell, st \in {"flying", "lost"} :
                /\ Becomes(m, st)
                /\ journal' = [m |-> m, done |-> FALSE] \/ (st = "lost" /\ journal' = NoJournal)
    BY DEF post_offer, chain, Goes
  <1>3. CASE UNCHANGED sells /\ journal' \in {journal, reconcile_seller_placement}
    BY <1>1, <1>3, WatchesRecorded
  <1>4. ASSUME MayPost, NEW m \in Sell, NEW st \in {"flying", "lost"}, Becomes(m, st),
               journal' = [m |-> m, done |-> FALSE] \/ (st = "lost" /\ journal' = NoJournal)
        PROVE  Recorded'
    <2>1. Flying = {} /\ Rows = {}
      BY <1>4, MayPostVacant
    <2>2. fund = "none"
      BY <1>4 DEF MayPost, Recorded, OfferInv, OfferTypes, LatchCovers, Taken
    <2>3. sells'[m] = st /\ \A n \in Sell \ {m} : sells'[n] = sells[n]
      BY <1>4, BecomesOne DEF Fates
    <2>4. Rows' = {} /\ Flying' = IF st = "flying" THEN {m} ELSE {}
      BY <2>1, <2>3 DEF Rows, Flying
    <2>5. QED
      BY <1>1, <1>4, <2>2, <2>3, <2>4 DEF Recorded, NoJournal
  <1>5. QED
    BY <1>2, <1>3, <1>4

LEMMA ChainRecorded ==
  ASSUME OfferInv, Recorded, ChainMoves
  PROVE  Recorded'
  <1>1. journal' = journal /\ journal.m \in 0..MaxPosts
    BY FateMoves DEF OfferInv, OfferTypes
  <1>2. fund' = fund \/ fund' = "none" \/ fund # "none" \/ \E m \in Sell : Filled(m)
    BY DEF ChainMoves, ChainStep, Unwound, CloseLands, FundLands, Lands, ExpireLands, CancelLands,
           Expires, Swept
  <1>3. CASE UNCHANGED sells
    <2>1. ~\E m \in Sell : Filled(m)
      BY <1>3 DEF Filled, Becomes, OfferInv, OfferTypes
    <2>2. QED
      BY <1>1, <1>2, <1>3, <2>1, WatchesRecorded
  <1>4. ASSUME NEW m \in Sell,
               NEW st \in {"live", "expired", "removed", "filled", "refused", "starved"},
               Becomes(m, st), sells[m] \in {"flying", "live", "expired"}
        PROVE  Recorded'
    <2>1. sells'[m] = st /\ \A n \in Sell \ {m} : sells'[n] = sells[n]
      BY <1>4, BecomesOne DEF Fates
    <2>2. m = journal.m /\ m # 0
      BY <1>4 DEF Recorded, Rows, Flying, Sell
    <2>3. Rows' \cup Flying' \subseteq {journal.m} /\ Flying' = {}
      BY <1>4, <2>1, <2>2 DEF Recorded, Rows, Flying
    <2>4. QED
      BY <1>1, <1>4, <2>1, <2>2, <2>3 DEF Recorded
  <1>5. QED
    BY <1>3, <1>4, FateMoves

LEMMA SellerRecorded ==
  ASSUME OfferInv, Recorded, SellerStep
  PROVE  Recorded'
  <1>1. CASE post_offer
    BY <1>1, PostRecorded
  <1>2. CASE serve_watched_match
    <2>1. UNCHANGED <<sells, journal>> /\ (fund' = fund \/ fund # "none")
      BY <1>2 DEF serve_watched_match, Goes, chain, Taken
    <2>2. QED
      BY <2>1, WatchesRecorded
  <1>3. CASE RelinquishLoop
    BY <1>3, ReadsWatch, WatchesRecorded DEF RelinquishLoop, Watches
  <1>4. CASE DealStep /\ ~post_offer /\ ~serve_watched_match
    BY <1>4, OtherStepsWatch, WatchesRecorded DEF Watches
  <1>5. QED
    BY <1>1, <1>2, <1>3, <1>4 DEF SellerStep
-----------------------------------------------------------------------------
LEMMA NextStop ==
  ASSUME StopInv, [Next]_vars
  PROVE  StopInv'
  <1>1. OfferInv /\ OfferInv' /\ Recorded
    BY NextOffer DEF StopInv
  <1>2. CASE SellerStep
    BY <1>1, <1>2, SellerPlace, SellerRecorded DEF StopInv
  <1>3. CASE ChainMoves
    BY <1>1, <1>3, ChainPlace, ChainRecorded DEF StopInv
  <1>4. CASE Stop \/ PoolStops \/ DrainTimeout \/ Crash \/ Restart \/ UNCHANGED vars
    <2>1. UNCHANGED <<sells, fund, journal>>
      BY <1>4 DEF Stop, PoolStops, DrainTimeout, Crash, Restart, Goes, chain, vars
    <2>2. Recorded'
      BY <1>1, <2>1, WatchesRecorded
    <2>3. QED
      BY <1>1, <1>4, <2>2, PoolPlace DEF StopInv
  <1>5. QED
    BY <1>2, <1>3, <1>4 DEF Next, ChainMoves

\* The durable record names whatever rests or is under way, and the deal's task is always
\* at a place that fits the ask it cares for: an ask it treats as over (reap, a relist
\* that proved it, an exit without an error) is over in the book.
THEOREM StopInvariant == Spec => []StopInv
  <1>1. Init => StopInv
    <2> SUFFICES ASSUME Init
                 PROVE  OfferInv /\ Recorded /\ Place(s, sells)
      BY DEF StopInv
    <2>1. OfferInv
      BY InitOffer
    <2>2. Recorded
      BY DEF Init, Recorded, Rows, Flying, NoJournal
    <2>3. Place(Booting, sells)
      BY DEF Booting, Place, Shape, Fields, Prepares, Preparing, Cancels, Names
    <2>4. QED
      BY <2>1, <2>2, <2>3 DEF Init
  <1>2. StopInv /\ [Next]_vars => StopInv'
    BY NextStop
  <1>3. QED
    BY <1>1, <1>2, PTL DEF Spec

\* A seller that ended without an error left no SELL that a buyer can take, as long as
\* the ask it watched last is the one it posted last (the drain and the final sweep of
\* cli/seller.rs answer for every other end with an error).
THEOREM StopIsClean == Spec => []CleanStop
  <1>1. StopInv => CleanStop
    <2> SUFFICES ASSUME StopInv, s.pc = "exit", ~s.err, s.id \in {0, journal.m}
                 PROVE  Flying \cup Matchable = {}
      BY DEF CleanStop, At
    <2>1. Empty(sells) \/ Dead(sells, s.id)
      BY DEF StopInv, Place
    <2>2. CASE Empty(sells)
      BY <2>2 DEF Empty, Flying, Matchable
    <2>3. CASE Dead(sells, s.id)
      <3>1. s.id = journal.m /\ sells[journal.m] \notin {"flying", "live"}
        BY <2>3 DEF Dead, Known, Sell
      <3>2. Flying \cup Matchable \subseteq {journal.m}
        BY DEF StopInv, Recorded, Matchable, Rows
      <3>3. QED
        BY <3>1, <3>2 DEF Flying, Matchable
    <2>4. QED
      BY <2>1, <2>2, <2>3
  <1>2. QED
    BY <1>1, StopInvariant, PTL
=============================================================================
