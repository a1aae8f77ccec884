----------------------------- MODULE SellerOffer -----------------------------
(***************************************************************************)
(* The seller's care for the SELL of one deal (seller/liveness.rs,         *)
(* seller/mod.rs, cli/seller.rs, chain/seller_placement.rs): the pool      *)
(* starts the deal, checks readiness, posts the ask through a durable      *)
(* submission journal, supervises the resting ask until it is matched,     *)
(* withdraws it on bad health or an operator's stop, reaps it when its     *)
(* deadline passes and posts one successor, and at shutdown drains the     *)
(* watcher and sweeps what is left.                                        *)
(*                                                                         *)
(* The order book and the deal contract run beside it: a SELL message is   *)
(* under way until it lands, an ask expires, is swept, cancelled or        *)
(* filled, and the deal hears of each (its latch and its funding) later.   *)
(* Every authoritative read is one step.  A read that fails, a budget that *)
(* runs out and a failed health check each spend one of MaxFaults; waiting *)
(* is not taking the next step yet.  A hand-over is assumed to land within *)
(* the budget in which a client waits for an absent ask to show as a match.*)
(***************************************************************************)
EXTENDS Naturals, FiniteSets

CONSTANTS
  MaxPosts,     \* bound: SELL messages signed over the run
  MaxFaults,    \* bound: failed reads, expired budgets, failed health checks
  MaxStarts     \* bound: starts of the seller process

ASSUME OfferAssumption ==
  MaxPosts \in Nat \ {0} /\ MaxFaults \in Nat /\ MaxStarts \in Nat \ {0}

VARIABLES
  sells,      \* what became of each SELL message; its number is its order id
  latch,      \* the deal's offer latch
  closing,    \* the book's word that the ask left it is on its way to the deal
  fund,       \* the deal's funding: none, coming, funded or opened
  cancels,    \* cancel requests under way
  refusals,   \* orders whose cancel the book refused
  expires,    \* orders whose expiry the seller asked the book to apply
  journal,    \* durable: the SELL submission and whether its end is known
  cursor,     \* durable: the fill is recorded
  s,          \* the seller process
  stop,       \* the operator asked it to stop
  faults, starts
chain == <<sells, latch, closing, fund, cancels, refusals, expires>>
vars == <<chain, journal, cursor, s, stop, faults, starts>>

Sell == 1..MaxPosts
NoJournal == [m |-> 0, done |-> FALSE]
Reasons == {"none", "shutdown", "gateway", "upstream", "watcher", "post", "expired"}
Dispositions == {"none", "cancelled", "absent", "expired", "reaped", "unknown", "rejected"}

\* pc: the step the deal's task is at.  outer: who asked for the offer to be
\* prepared.  loop: the preparation runs in the recovery loop of a pending SELL.
\* ctx: who asked for a cancellation.  old: the resting ask a preparation began
\* with.  id: the ask under care.  tgt: the ask a preparation made or a cancel is for.  resting: the pool's own entry for the deal.
\* seen: the start consumed the operator's signal; told: the watchers' own stop
\* channel was set.
Booting == [pc |-> "boot", outer |-> "start", loop |-> FALSE, ctx |-> "startup", old |-> 0,
            id |-> 0, tgt |-> 0, why |-> "none", disp |-> "none", resting |-> 0, pool |-> "starting",
            seen |-> FALSE, told |-> FALSE, err |-> FALSE]
Down == [Booting EXCEPT !.pc = "down"]
At(pc) == s.pc = pc

Init ==
  /\ sells = [m \in Sell |-> "unsent"] /\ latch = FALSE /\ closing = FALSE /\ fund = "none"
  /\ cancels = {} /\ refusals = {} /\ expires = {} /\ journal = NoJournal /\ cursor = FALSE
  /\ s = Booting /\ stop = FALSE /\ faults = 0 /\ starts = 1
-----------------------------------------------------------------------------
(***************************************************************************)
(* The order book and the deal contract.                                   *)
(***************************************************************************)
Rows == {m \in Sell : sells[m] \in {"live", "expired"}}
Matchable == {m \in Sell : sells[m] = "live"}
Flying == {m \in Sell : sells[m] = "flying"}
Taken == fund \in {"funded", "opened"}
Becomes(m, st) == sells' = [sells EXCEPT ![m] = st]
SellerUnchanged == UNCHANGED <<journal, cursor, s, stop, faults, starts>>

\* The note's SELL reaches the deal, which drops it while an ask rests or the
\* deal is funded, or for lack of reserve, and otherwise posts it to the book.
Lands(m) ==
  /\ sells[m] = "flying"
  /\ \/ /\ ~latch /\ fund = "none" /\ Becomes(m, "live") /\ latch' = TRUE
        /\ UNCHANGED <<closing, faults>>
     \/ /\ latch \/ fund # "none"
        /\ Becomes(m, "refused") /\ UNCHANGED <<latch, closing, faults>>
     \/ /\ faults < MaxFaults /\ faults' = faults + 1
        /\ Becomes(m, "starved") /\ UNCHANGED <<latch, closing>>
  /\ UNCHANGED <<fund, cancels, refusals, expires, journal, cursor, s, stop, starts>>

\* A deadline passes while there is room for a successor.
Expires(m) ==
  /\ sells[m] = "live" /\ \E n \in Sell : sells[n] = "unsent"
  /\ Becomes(m, "expired")
  /\ UNCHANGED <<latch, closing, fund, cancels, refusals, expires>> /\ SellerUnchanged

Leaves(m) == Becomes(m, "removed") /\ closing' = TRUE

\* A matcher or a keeper sweeps an expired ask.
Swept(m) ==
  /\ sells[m] = "expired" /\ Leaves(m)
  /\ UNCHANGED <<latch, fund, cancels, refusals, expires>> /\ SellerUnchanged

ExpireLands(m) ==
  /\ m \in expires /\ expires' = expires \ {m}
  /\ IF sells[m] = "expired" THEN Leaves(m) ELSE UNCHANGED <<sells, closing>>
  /\ UNCHANGED <<latch, fund, cancels, refusals>> /\ SellerUnchanged

\* A cancel removes the ask, finds none, or meets a full queue.
CancelLands(m) ==
  /\ m \in cancels /\ cancels' = cancels \ {m}
  /\ \/ m \in Rows /\ Leaves(m) /\ UNCHANGED <<refusals, faults>>
     \/ m \notin Rows /\ refusals' = refusals \cup {m} /\ UNCHANGED <<sells, closing, faults>>
     \/ /\ m \in Rows /\ faults < MaxFaults /\ faults' = faults + 1
        /\ refusals' = refusals \cup {m} /\ UNCHANGED <<sells, closing>>
  /\ UNCHANGED <<latch, fund, expires, journal, cursor, s, stop, starts>>

CloseLands ==
  /\ closing /\ closing' = FALSE /\ latch' = FALSE
  /\ UNCHANGED <<sells, fund, cancels, refusals, expires>> /\ SellerUnchanged

\* A buyer takes the ask: the book consumes it at once, the deal is funded later.
Filled(m) ==
  /\ sells[m] = "live" /\ Becomes(m, "filled") /\ fund' = "coming"
  /\ UNCHANGED <<latch, closing, cancels, refusals, expires>> /\ SellerUnchanged

FundLands ==
  /\ fund = "coming" /\ fund' = "funded" /\ latch' = FALSE
  /\ UNCHANGED <<sells, closing, cancels, refusals, expires>> /\ SellerUnchanged

\* A funded deal nobody opened is unwound after its time.
Unwound ==
  /\ fund = "funded" /\ fund' = "none" /\ ~At("serve")
  /\ UNCHANGED <<sells, latch, closing, cancels, refusals, expires>> /\ SellerUnchanged
-----------------------------------------------------------------------------
(***************************************************************************)
(* What the seller reads, and its submission journal.                      *)
(***************************************************************************)
has_pending_sell_offer == journal.m # 0 /\ ~journal.done

\* Slip: a message still on its way is already taken as followed to its end.
ReconcileOnSight ==
  IF journal.m # 0 /\ sells[journal.m] # "lost" THEN [journal EXCEPT !.done = TRUE] ELSE journal

\* Following the exact message to its end, which is then recorded.
reconcile_seller_placement ==
  IF journal.m # 0 /\ sells[journal.m] \notin {"flying", "lost"}
  THEN [journal EXCEPT !.done = TRUE] ELSE journal

\* A read of the deal's asks that finds one also follows the journal's message.
raw_resting_sell_orders_for_tc ==
  journal' \in (IF Rows = {} THEN {journal} ELSE {journal, reconcile_seller_placement})

Row == CHOOSE m \in Rows : TRUE
inspect_seller_offer == IF Taken THEN "funded" ELSE IF Rows = {} THEN "vacant" ELSE "resting"
target_state ==
  IF s.tgt \in Rows THEN "present" ELSE IF Taken THEN "matched" ELSE "absent"
proven_unmatchable(d) == d \in {"cancelled", "absent", "expired", "reaped"}
-----------------------------------------------------------------------------
(***************************************************************************)
(* What the pool makes of the end of a watch or of a start.                *)
(***************************************************************************)
\* The sweep cancels what the pool still answers for; then the process ends.
Sweep(u) == IF u.resting = 0 THEN [u EXCEPT !.pc = "exit"]
            ELSE [u EXCEPT !.pc = "cancel", !.ctx = "sweep", !.tgt = u.resting]
Reseat(u) == [u EXCEPT !.resting = IF u.id # 0 THEN u.id ELSE u.resting]

\* A watch that ended in an error: the running pool drops the deal, the
\* draining pool keeps it for the sweep.
WatchFails(u) ==
  IF u.pool = "draining" THEN Sweep([Reseat(u) EXCEPT !.err = TRUE])
  ELSE [u EXCEPT !.pc = "isolated", !.resting = 0, !.err = TRUE]

\* Slip: a drained deal is left without a word.
DrainedQuietly(u, d) ==
  IF proven_unmatchable(d) THEN Sweep([u EXCEPT !.resting = 0]) ELSE Sweep(Reseat(u))

DrainedOutcome(u, d) ==
  IF proven_unmatchable(d) THEN Sweep([u EXCEPT !.resting = 0])
  ELSE Sweep([Reseat(u) EXCEPT
         !.err = u.err \/ (u.id = 0 /\ u.resting = 0) \/ has_pending_sell_offer])

Rearm(u) ==
  IF u.id = 0 THEN [u EXCEPT !.pc = "pend", !.outer = "watch", !.loop = TRUE]
  ELSE [u EXCEPT !.pc = "watch"]

\* The watch ended with the ask stopped for a reason, its fate the disposition d.
WatchStops(u, why, d) ==
  LET v == [u EXCEPT !.why = why, !.disp = d] IN
  IF u.pool = "draining" THEN DrainedOutcome(v, d)
  ELSE IF proven_unmatchable(d) THEN [v EXCEPT !.pc = "retired", !.resting = 0]
       ELSE Rearm(Reseat(v))

\* One generation of the ask ended: recover the post, reap and relist, or report.
Generation(u, why, d) ==
  LET v == [u EXCEPT !.why = why, !.disp = d] IN
  IF why = "post" THEN [v EXCEPT !.pc = "relist"]
  ELSE IF \/ why = "expired"
          \/ why = "upstream" /\ d \in {"cancelled", "absent", "expired"}
       THEN [v EXCEPT !.pc = "reap"]
       ELSE WatchStops(v, why, d)

\* The start is over and the pool runs, or it drains when the start consumed the
\* operator's signal: that road does not set the watchers' stop channel.
StartEnds(u) == [u EXCEPT !.pool = IF u.seen THEN "draining" ELSE "running"]

\* A start that stopped: its ask is proven gone, or the pool keeps answering.
StartStops(u, why, d) ==
  IF proven_unmatchable(d) THEN [u EXCEPT !.pc = "isolated", !.err = TRUE]
  ELSE IF u.id = 0 THEN Rearm(u)
  ELSE LET v == [u EXCEPT !.resting = u.id, !.err = TRUE]
       IN  IF why = "shutdown" THEN Sweep(v) ELSE [v EXCEPT !.pc = "watch"]

\* A preparation ended with the offer stopped.  The recovery loop of a pending
\* SELL tries again while nothing is proven; a relist keeps the old identity
\* when the stop names none.
PrepareStops(u, i, why, d) ==
  IF u.loop /\ (~proven_unmatchable(d) \/ why = "upstream") THEN [u EXCEPT !.pc = "pend", !.why = "none"]
  ELSE LET v == [u EXCEPT !.loop = FALSE] IN
       CASE u.outer = "start"  -> StartStops(StartEnds([v EXCEPT !.id = i]), why, d)
         [] u.outer = "watch"  -> WatchStops([v EXCEPT !.id = i], why, d)
         [] u.outer = "relist" -> Generation([v EXCEPT !.id = IF i # 0 THEN i ELSE u.id], why, d)
         [] u.outer = "final"  -> WatchStops([v EXCEPT !.id = IF i # 0 THEN i ELSE u.id], why, d)

\* A preparation ended with an ask under care, or (0) with a match to serve.
PrepareReady(u, o) ==
  LET v == [u EXCEPT !.loop = FALSE, !.why = "none"] IN
  CASE u.outer = "start" -> [StartEnds(v) EXCEPT !.pc = IF o = 0 THEN "known" ELSE "watch", !.id = o, !.resting = o]
    [] u.outer = "watch" -> [v EXCEPT !.pc = IF o = 0 THEN "known" ELSE "watch", !.id = o]
    [] u.outer = "final" -> [v EXCEPT !.pc = "serve"]
    [] u.outer = "relist" -> IF o = 0 THEN [v EXCEPT !.pc = "serve"]
                             ELSE IF o = u.id THEN WatchStops(v, "expired", "unknown")
                             ELSE [v EXCEPT !.pc = "succeed", !.old = o]

\* Stopping the exact ask of a preparation, or finding out what it left behind.
Withdraw(u, i, why) == [u EXCEPT !.pc = "cancel", !.ctx = "startup", !.tgt = i, !.why = why]
Resolve(u, why) == [u EXCEPT !.pc = "resolve", !.why = why]

\* A preparation failed before anything was submitted; why: a transport failure
\* ("post") or another one.
PrepareFails(u, why) ==
  IF u.loop
  THEN IF u.old = 0 THEN Resolve(u, why) ELSE Withdraw(u, u.old, why)
  ELSE IF u.outer = "start" THEN [StartEnds(u) EXCEPT !.pc = "isolated", !.err = TRUE]
  ELSE IF why = "post" THEN Generation(u, "post", "unknown")
  ELSE WatchFails(u)

\* What a cancellation found out goes back to whoever asked for it.
CancelDone(u, d) ==
  CASE u.ctx = "startup" ->
         IF d = "matched" THEN PrepareReady(u, 0)
         ELSE PrepareStops(u, u.tgt, u.why,
                IF proven_unmatchable(d) /\ has_pending_sell_offer THEN "unknown" ELSE d)
    [] u.ctx = "super" -> IF d = "matched" THEN [u EXCEPT !.pc = "serve"] ELSE Generation(u, u.why, d)
    [] u.ctx = "sweep" ->
         IF d = "matched" THEN [u EXCEPT !.pc = "serve"]
         ELSE [u EXCEPT !.pc = "exit", !.resting = 0, !.err = u.err \/ ~proven_unmatchable(d)]
-----------------------------------------------------------------------------
(***************************************************************************)
(* The seller's steps, by the place its task for the deal is at.           *)
(***************************************************************************)
Goes(u) == s' = u /\ UNCHANGED <<chain, journal, cursor, stop, faults, starts>>
Reads(u) ==
  s' = u /\ raw_resting_sell_orders_for_tc /\ UNCHANGED <<chain, cursor, stop, faults, starts>>
Fails(u) ==
  /\ faults < MaxFaults /\ faults' = faults + 1
  /\ s' = u /\ UNCHANGED <<chain, journal, cursor, stop, starts>>

\* What interrupts a preparation: the operator's signal itself while the pool
\* starts the deal, the watchers' stop channel afterwards.
Stopped == IF s.outer = "start" THEN stop ELSE s.told
Interrupted == ~s.loop /\ Stopped
Heeding == [s EXCEPT !.seen = @ \/ (Interrupted /\ s.outer = "start")]

\* Before the pool runs, an expired ask a former run left is expired and waited for.
sweep_expired_seller_offer ==
  /\ At("boot")
  /\ \/ has_pending_sell_offer /\ s.old = 0 /\ Goes([s EXCEPT !.pc = "start"])
     \/ /\ ~has_pending_sell_offer /\ s.old = 0 /\ Rows \subseteq Matchable
        /\ Reads([s EXCEPT !.pc = "start"])
     \/ /\ ~has_pending_sell_offer /\ s.old = 0
        /\ \E m \in Rows : /\ sells[m] = "expired" /\ expires' = expires \cup {m}
                          /\ s' = [s EXCEPT !.old = m]
        /\ UNCHANGED <<sells, latch, closing, fund, cancels, refusals, journal, cursor, stop, faults, starts>>
     \/ s.old # 0 /\ s.old \notin Rows /\ ~latch /\ Goes([s EXCEPT !.pc = "start", !.old = 0])
     \/ Fails([s EXCEPT !.pc = "exit", !.err = TRUE])

prepare_pool_deal_reporting_identity ==
  /\ At("start")
  /\ IF cursor THEN Goes([StartEnds(s) EXCEPT !.pc = "known"])
     ELSE IF has_pending_sell_offer THEN Goes(Rearm(StartEnds(s)))
     ELSE \/ Reads([s EXCEPT !.pc = "ready",
                      !.old = IF inspect_seller_offer = "resting" THEN Row ELSE 0])
          \/ Fails([StartEnds(s) EXCEPT !.pc = "isolated", !.err = TRUE])

\* The bond is covered and the gateway and the model answer, before any post.
startup_readiness ==
  /\ At("ready")
  /\ \/ ~Interrupted /\ Goes([s EXCEPT !.pc = "offer"])
     \/ \E why \in {"post", "watcher"} : Fails(PrepareFails(s, why))
     \/ /\ Interrupted
        /\ Goes(IF s.old # 0 THEN Withdraw(Heeding, s.old, "shutdown")
                ELSE PrepareStops(Heeding, 0, "shutdown", "absent"))
     \/ \E why \in {"gateway", "upstream"} :
          /\ ~(why = "upstream" /\ ~s.loop /\ s.outer = "relist" /\ s.why \in {"post", "upstream"})
          /\ Fails(IF s.old # 0 THEN Withdraw(s, s.old, why) ELSE PrepareFails(s, "watcher"))

\* The authoritative state after readiness decides whether anything is posted.
prepare_seller_offer ==
  /\ At("offer")
  /\ \/ Reads(CASE inspect_seller_offer = "funded"  -> PrepareReady(Heeding, 0)
               [] inspect_seller_offer = "resting" ->
                    IF Interrupted THEN Withdraw(Heeding, Row, "shutdown") ELSE PrepareReady(s, Row)
               [] inspect_seller_offer = "vacant"  -> [s EXCEPT !.pc = "post"])
     \/ \E why \in {"post", "watcher"} : Fails(Resolve(s, why))
     \/ Interrupted /\ Goes(Resolve(Heeding, "shutdown"))

\* Slip: an empty book alone lets another submission be made.
MayPostOnVacancy == ~Taken /\ Rows = {} /\ ~latch

\* A submission proven to have ended with nothing left of it lets another be made:
\* refused for lack of reserve, or followed to its end with the latch released.
MayPost ==
  \/ journal.m = 0
  \/ reconcile_seller_placement.done /\ ~Taken /\ Rows = {} /\ ~latch
SubmissionStands ==
  /\ journal.m # 0 /\ reconcile_seller_placement.done
  /\ Taken \/ Rows # {}
  /\ ~(journal.done /\ sells[journal.m] = "starved")

\* The durable record precedes the message.  A send that failed before the message
\* left clears it; one of unknown fate keeps it.
post_offer ==
  /\ At("post")
  /\ \/ /\ SubmissionStands /\ journal' = reconcile_seller_placement
        /\ s' = [s EXCEPT !.pc = "confirm"] /\ UNCHANGED <<chain, cursor, stop, faults, starts>>
     \/ /\ ~SubmissionStands /\ ~MayPost
        /\ journal' = reconcile_seller_placement
        /\ s' = Resolve(s, "post") /\ UNCHANGED <<chain, cursor, stop, faults, starts>>
     \/ /\ MayPost
        /\ \E m \in Sell :
             /\ sells[m] = "unsent" /\ \A n \in Sell : n < m => sells[n] # "unsent"
             /\ \/ /\ Becomes(m, "flying") /\ journal' = [m |-> m, done |-> FALSE]
                   /\ s' = [s EXCEPT !.pc = "confirm"] /\ UNCHANGED faults
                \/ /\ faults < MaxFaults /\ faults' = faults + 1
                   /\ Becomes(m, "lost") /\ journal' = NoJournal
                   /\ \E why \in {"post", "watcher"} : s' = Resolve(s, why)
                \/ /\ faults < MaxFaults /\ faults' = faults + 1
                   /\ \E st \in {"flying", "lost"} : Becomes(m, st)
                   /\ journal' = [m |-> m, done |-> FALSE] /\ s' = Resolve(s, "post")
        /\ UNCHANGED <<latch, closing, fund, cancels, refusals, expires, cursor, stop, starts>>
     \/ Interrupted /\ Goes(Resolve(Heeding, "shutdown"))
     \/ Taken /\ Goes(Resolve(s, "watcher"))

\* Each pass looks for the match, then for the ask, then follows the message.
confirm_offer_outcome ==
  /\ At("confirm")
  /\ \/ Taken /\ Goes(PrepareReady(Heeding, 0))
     \/ ~Taken /\ Rows # {} /\ Reads([s EXCEPT !.pc = "recheck", !.tgt = Row])
     \/ /\ ~Taken /\ Rows = {} /\ journal.m # 0 /\ reconcile_seller_placement.done
        /\ journal' = reconcile_seller_placement
        /\ s' = IF sells[journal.m] \in {"refused", "starved"} THEN Resolve(s, "post")
                ELSE [s EXCEPT !.pc = "recheck", !.tgt = journal.m]
        /\ UNCHANGED <<chain, cursor, stop, faults, starts>>
     \/ \E why \in {"post", "watcher"} : Fails(Resolve(s, why))
     \/ Interrupted /\ Goes(Resolve(Heeding, "shutdown"))

\* Readiness once more, now that an ask rests.
recheck_readiness ==
  /\ At("recheck")
  /\ \/ ~Interrupted /\ Goes(PrepareReady(s, s.tgt))
     \/ Interrupted /\ Goes(Withdraw(Heeding, s.tgt, "shutdown"))
     \/ \E why \in {"gateway", "upstream"} : Fails(Withdraw(s, s.tgt, why))

\* What an interrupted preparation left is looked for until a budget ends.
resolve_interrupted_startup ==
  /\ At("resolve")
  /\ \/ Taken /\ Goes(PrepareReady(s, 0))
     \/ ~Taken /\ Rows # {} /\ Reads(Withdraw(s, Row, s.why))
     \/ ~Taken /\ Rows = {} /\ Goes(PrepareStops(s, 0, s.why, "unknown"))
     \/ Fails(PrepareStops(s, 0, s.why, "unknown"))

\* The recovery loop of a SELL whose fate is not known.
prepare_pending_offer ==
  /\ At("pend")
  /\ \/ Taken /\ Goes(PrepareReady(s, 0))
     \/ ~Taken /\ Reads([s EXCEPT !.pc = "ready", !.old = IF Rows = {} THEN 0 ELSE Row])

\* A cancel is asked for only while the exact ask is seen; an absent ask is watched
\* to the end of the budget, lest it show as a match.
cancel_and_confirm_before ==
  /\ At("cancel")
  /\ \/ /\ target_state = "present" /\ raw_resting_sell_orders_for_tc
        /\ cancels' = cancels \cup {s.tgt} /\ s' = [s EXCEPT !.pc = "cwatch"]
        /\ UNCHANGED <<sells, latch, closing, fund, refusals, expires, cursor, stop, faults, starts>>
     \/ /\ target_state = "present" /\ faults < MaxFaults /\ faults' = faults + 1
        /\ cancels' \in {cancels, cancels \cup {s.tgt}}
        /\ s' \in {CancelDone(s, "unknown"), [s EXCEPT !.pc = "reread"]}
        /\ UNCHANGED <<sells, latch, closing, fund, refusals, expires, journal, cursor, stop, starts>>
     \/ target_state = "matched" /\ Goes(CancelDone(s, "matched"))
     \/ target_state = "absent" /\ fund # "coming" /\ Goes(CancelDone(s, "absent"))
     \/ Fails(CancelDone(s, "unknown"))

\* An accepted cancel is watched without a bound; one absent reading ends it.
watch_accepted_cancel ==
  /\ At("cwatch")
  /\ \/ target_state = "matched" /\ Goes(CancelDone(s, "matched"))
     \/ target_state = "absent" /\ Goes(CancelDone(s, "cancelled"))
     \/ target_state = "present" /\ s.tgt \in refusals /\ Reads(CancelDone(s, "rejected"))

\* A refused submission: the ask is read again to the end of the budget.
reread_after_rejection ==
  /\ At("reread")
  /\ \/ target_state = "matched" /\ Goes(CancelDone(s, "matched"))
     \/ target_state = "absent" /\ fund # "coming" /\ Goes(CancelDone(s, "absent"))
     \/ Goes(CancelDone(s, "unknown"))

Supervised(u, why) == [u EXCEPT !.pc = "cancel", !.ctx = "super", !.tgt = u.id, !.why = why]

\* The resting ask under watch: a match, the operator, health and expiry.
supervise_with_timing ==
  /\ At("watch")
  /\ \/ Taken /\ Goes([s EXCEPT !.pc = "serve"])
     \/ s.told /\ Goes(Supervised(s, "shutdown"))
     \/ \E why \in {"gateway", "upstream", "watcher"} : Fails(Supervised(s, why))
     \/ /\ ~Taken /\ s.id \notin Matchable
        /\ Reads(Generation(s, "expired", "expired"))
     \/ Fails(WatchFails(s))

\* A post of unknown fate is looked for before anything else is done.
recover_successor_post ==
  /\ At("relist")
  /\ \/ s.told /\ Goes(IF proven_unmatchable(s.disp) THEN WatchStops(s, "shutdown", s.disp)
                        ELSE Resolve([s EXCEPT !.outer = "final"], "shutdown"))
     \/ ~s.told /\ Reads(CASE inspect_seller_offer = "funded"  -> [s EXCEPT !.pc = "serve"]
                           [] inspect_seller_offer = "resting" -> [s EXCEPT !.pc = "watch", !.id = Row]
                           [] inspect_seller_offer = "vacant"  -> [s EXCEPT !.pc = "reap"])

\* Slip: expiry is asked for only when the upstream failed as well.
ExpireWithdrawnOnly ==
  /\ At("reap") /\ s.why = "upstream" /\ s.disp = "expired" /\ s.id \notin expires /\ s.id \in Rows
  /\ expires' = expires \cup {s.id}
  /\ UNCHANGED <<sells, latch, closing, fund, cancels, refusals, journal, cursor, s, stop, faults, starts>>

\* Expiry is asked for once, of the seller's own expired ask.
expire_resting_sell_order ==
  /\ At("reap") /\ "expired" \in {s.why, s.disp} /\ s.id \notin expires /\ s.id \in Rows
  /\ expires' = expires \cup {s.id}
  /\ UNCHANGED <<sells, latch, closing, fund, cancels, refusals, journal, cursor, s, stop, faults, starts>>

Unproven == IF s.why = "post" THEN [s EXCEPT !.pc = "relist", !.disp = "unknown"]
            ELSE WatchStops(s, s.why, "unknown")

\* A successor needs the book empty of the deal's asks and the latch released.
reap_state ==
  /\ At("reap")
  /\ \/ Taken /\ Goes([s EXCEPT !.pc = "serve"])
     \/ ~Taken /\ Rows \ {s.id} # {}
        /\ Reads(IF s.why = "post" THEN Unproven ELSE WatchStops(s, s.why, "reaped"))
     \/ /\ ~Taken /\ Rows = {} /\ ~latch
        /\ Goes([s EXCEPT !.pc = IF has_pending_sell_offer THEN "pend" ELSE "ready",
                          !.loop = has_pending_sell_offer, !.outer = "relist", !.old = 0])
     \/ Fails(WatchStops(s, s.why, "reaped"))
     \/ Fails(Unproven)

\* The successor becomes the ask under watch once its own row was read.
successor_absolute_deadline ==
  /\ At("succeed")
  /\ \/ s.old \in Rows /\ Reads([s EXCEPT !.pc = "watch", !.id = s.old, !.old = 0])
     \/ Fails(WatchStops(s, "expired", "unknown"))
     \/ s.old \notin Rows /\ Goes(WatchStops(s, "expired", "unknown"))

\* A match known of before is waited for until it is readable, also when the deal
\* has been unwound meanwhile: cleanupUnopened leaves no terminal receipt, and
\* NoMatch is retried.
wait_for_known_match ==
  /\ At("known") /\ Taken
  /\ cursor' = TRUE /\ s' = [s EXCEPT !.pc = "serve"]
  /\ UNCHANGED <<chain, journal, stop, faults, starts>>

\* The fill is recorded and the buyer is given access.
serve_watched_match ==
  /\ At("serve")
  /\ \/ /\ Taken /\ fund' = "opened" /\ cursor' = TRUE
        /\ s' = IF s.pool = "draining" THEN [s EXCEPT !.pc = "exit", !.resting = 0]
                ELSE [s EXCEPT !.pc = "serving", !.resting = 0]
        /\ UNCHANGED <<sells, latch, closing, cancels, refusals, expires, journal, stop, faults, starts>>
     \/ /\ ~Taken
        /\ Goes(IF s.ctx = "sweep" THEN [s EXCEPT !.pc = "exit", !.resting = 0, !.err = TRUE]
                ELSE WatchFails(s))
-----------------------------------------------------------------------------
(***************************************************************************)
(* The pool, the operator and the machine.                                 *)
(***************************************************************************)
Ended == {"exit", "down", "retired", "isolated", "serving"}

Stop == ~stop /\ s.pc \notin {"exit", "down"} /\ stop' = TRUE
        /\ UNCHANGED <<chain, journal, cursor, s, faults, starts>>

\* The running pool sees the signal and tells its watchers.
PoolStops ==
  /\ stop /\ s.pool = "running" /\ s.pc \notin Ended
  /\ Goes([s EXCEPT !.pool = "draining", !.told = TRUE])

\* The drain and the sweep are bounded: the task is dropped, wherever it is, and the
\* deal is named in the error.
DrainTimeout ==
  /\ s.pool = "draining" /\ s.pc \notin Ended
  /\ Goes([s EXCEPT !.pc = "exit", !.loop = FALSE, !.resting = 0, !.err = TRUE])

Crash == s.pc \notin {"exit", "down"} /\ starts < MaxStarts /\ Goes(Down)
Restart ==
  /\ s.pc \in Ended /\ starts < MaxStarts /\ starts' = starts + 1
  /\ s' = Booting /\ stop' = FALSE /\ UNCHANGED <<chain, journal, cursor, faults>>

\* A stop drops the recovery loop wherever it is, a cancel it made included.
RelinquishLoop == s.loop /\ s.told /\ Goes(Resolve([s EXCEPT !.loop = FALSE], "shutdown"))

DealStep ==
  \/ sweep_expired_seller_offer \/ prepare_pool_deal_reporting_identity \/ startup_readiness
  \/ prepare_seller_offer \/ post_offer \/ confirm_offer_outcome \/ recheck_readiness
  \/ resolve_interrupted_startup \/ prepare_pending_offer \/ cancel_and_confirm_before
  \/ watch_accepted_cancel \/ reread_after_rejection \/ supervise_with_timing
  \/ recover_successor_post \/ expire_resting_sell_order \/ reap_state
  \/ successor_absolute_deadline \/ wait_for_known_match \/ serve_watched_match

SellerStep == RelinquishLoop \/ (~(s.loop /\ s.told) /\ DealStep)

ChainStep ==
  \/ CloseLands \/ FundLands
  \/ \E m \in Sell : Lands(m) \/ ExpireLands(m) \/ CancelLands(m)

Next ==
  \/ SellerStep \/ ChainStep \/ Stop \/ PoolStops \/ DrainTimeout \/ Crash \/ Restart \/ Unwound
  \/ \E m \in Sell : Expires(m) \/ Swept(m) \/ Filled(m)

Fairness ==
  /\ WF_vars(SellerStep /\ faults' = faults) /\ WF_vars(CloseLands) /\ WF_vars(FundLands)
  /\ \A m \in Sell : WF_vars(Lands(m)) /\ WF_vars(ExpireLands(m)) /\ WF_vars(CancelLands(m))
Spec == Init /\ [][Next]_vars /\ Fairness
-----------------------------------------------------------------------------
\* The deal never has two SELLs that can trade now or later, whatever timed out, was
\* sent twice, crashed or was restarted: only a proven end admits a successor.
NoSecondSell == Cardinality(Flying \cup Matchable) <= 1

\* A SELL message that may still land is the one the durable record names, as open:
\* a restarted seller can find it before it asks for anything else.
JournalNamesSell == \A m \in Flying : journal = [m |-> m, done |-> FALSE]

\* A seller that ended without an error left no SELL a buyer can take, as long as the
\* ask it watched last is the one it posted last.
CleanStop ==
  At("exit") /\ ~s.err /\ s.id \in {0, journal.m} => Flying \cup Matchable = {}

\* The same of every end without an error: an order the seller posted after the one
\* it watches is found and cancelled at shutdown too.
StopLeavesNothing == At("exit") /\ ~s.err => Flying \cup Matchable = {}

\* An ask that expired under a seller at work is followed by one a buyer can take or
\* by a sale, unless the seller gives the deal up or a message was lost for good.
RelistedOrReported ==
  (At("watch") /\ \E m \in Sell : sells[m] = "expired") ~>
    \/ Matchable # {} \/ Taken \/ s.pc \in Ended
    \/ Flying = {} /\ \A n \in Sell : sells[n] # "unsent"
    \/ journal.m # 0 /\ sells[journal.m] = "lost"
=============================================================================
