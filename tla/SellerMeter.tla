---------------------------- MODULE SellerMeter ----------------------------
(***************************************************************************)
(* The seller's metering of one deal: the gateway admits concurrent        *)
(* requests against the purchased capacity (seller/capacity.rs,            *)
(* seller/gateway.rs), each clean request becomes one bill in a durable    *)
(* record, and the claim driver (seller/advance.rs) turns billed usage     *)
(* into cumulative claims on the deal contract.  For a subscription the    *)
(* weekly keeper's observer refreshes the capacity instead of the driver.  *)
(*                                                                         *)
(* What is durable is the capacity file (disk) and the deal (chain).  The  *)
(* capacity entry, the delivery counters, the requests and the driver live *)
(* in the process and die with it.  Writing the file may fail before or    *)
(* after the rename; a claim may be lost, answered late or land late.      *)
(*                                                                         *)
(* Left out: the incremental accounting the gateway no longer calls        *)
(* (record_delivered), authentication, and the bytes of the streams: a     *)
(* relay is the way it ends.                                               *)
(***************************************************************************)
EXTENDS Integers, FiniteSets

CONSTANTS
  Requests,        \* gateway streams
  TICK,            \* TICK_SIZE = PROBE_SEED_TOKENS = MAX_CLAIM_DELTA = risk limit
  FundedTicks,     \* fundedTokens / TICK_SIZE
  TokensPerWeek, SubWeeks,
  Shapes,          \* which deals are served: subset of BOOLEAN, TRUE = subscription
  Allowance,       \* claim_delta_limit(minClaimInterval, minSecondsPerTick)
  ConcurrencyLimit,\* SELLER_MAX_CONCURRENT_REQUESTS_PER_DEAL
  Grants,          \* billing_grant_tokens a buyer may ask for
  Usages,          \* non-cached tokens a provider may report
  MaxCrashes,      \* bound: restarts of the seller process
  MaxFaults,       \* bound: failed writes of the file, lost or late messages
  MaxRequests      \* bound: requests admitted over the life of the deal

ASSUME MeterAssumption ==
  /\ TICK \in Nat \ {0} /\ FundedTicks \in Nat /\ FundedTicks >= 2
  /\ TokensPerWeek \in Nat /\ TokensPerWeek >= TICK /\ SubWeeks \in Nat \ {0}
  /\ Shapes \subseteq BOOLEAN
  /\ Allowance \in 1..TICK
  /\ ConcurrencyLimit \in Nat \ {0}
  /\ Grants \subseteq Nat \ {0} /\ Usages \subseteq Nat \ {0}
  /\ MaxCrashes \in Nat /\ MaxFaults \in Nat /\ MaxRequests \in Nat

NoHolder == "free"
ASSUME HolderAssumption == NoHolder \notin Requests

VARIABLES
  chain,      \* the deal contract, as the client reads it
  disk,       \* the capacity file of the deal
  mem,        \* the capacity entry and the gateway's registration
  delivery,   \* DealDelivery: count, billing_exhausted, done, update_lock
  req,        \* the admitted requests
  drv,        \* the claim driver
  flight,     \* claims accepted for delivery and not yet executed
  served,     \* ledger: chargeable tokens of streams that ended cleanly
  crashes, faults, admitted
vars == <<chain, disk, mem, delivery, req, drv, flight, served,
          crashes, faults, admitted>>
counters == <<crashes, faults, admitted>>

Lesser(a, b)  == IF a < b THEN a ELSE b
Greater(a, b) == IF a > b THEN a ELSE b
Funded == FundedTicks * TICK
NoFile == [cap |-> 0, anchor |-> 0, local |-> 0, outstanding |-> 0, probeAt |-> 0, file |-> FALSE]
NoRequest == [st |-> "idle", shared |-> FALSE, grant |-> 0, charged |-> 0, over |-> FALSE]

Live == chain.st = "open"

Init ==
  /\ chain \in {[st |-> "open", sub |-> s, probe |-> FALSE, pending |-> 0, final |-> 0,
                 base |-> 0, week |-> 0] : s \in Shapes}
  /\ disk = NoFile
  /\ mem = [up |-> FALSE, reg |-> FALSE, entry |-> NoFile, terminal |-> FALSE,
            active |-> 0]
  /\ delivery = [count |-> 0, exhausted |-> FALSE, done |-> FALSE, lock |-> NoHolder]
  /\ req = [r \in Requests |-> NoRequest]
  /\ drv = [pc |-> "down", claimed |-> 0, target |-> 0, next |-> 0]
  /\ flight = {}
  /\ served = 0
  /\ crashes = 0 /\ faults = 0 /\ admitted = 0
-----------------------------------------------------------------------------
(***************************************************************************)
(* The durable record.                                                     *)
(***************************************************************************)
Delivered(rec) == rec.anchor + rec.local
Committed(rec) == rec.anchor + rec.local + rec.outstanding
Available(rec) == rec.cap - Committed(rec)

\* validate_record
ValidRecord(rec) ==
  /\ rec.probeAt # 0 => rec.anchor = 0 /\ rec.probeAt <= Lesser(TICK, rec.local)
  /\ Committed(rec) <= rec.cap
  /\ rec.cap <= Funded

\* persist_candidate followed by the assignment to the entry: the write can
\* fail before the rename, or after it (the parent directory cannot be synced),
\* and then the entry in memory keeps the old record.
WriteOutcomes == {"ok", "kept_old", "replaced"}
\* Slip: the rename does not replace a file that is there.
WrittenOnce(outcome, rec) ==
  /\ faults' = faults + (IF outcome = "ok" THEN 0 ELSE 1)
  /\ faults' <= MaxFaults
  /\ disk' = IF outcome = "kept_old" \/ disk.file THEN disk ELSE [rec EXCEPT !.file = TRUE]

Written(outcome, rec) ==
  /\ faults' = faults + (IF outcome = "ok" THEN 0 ELSE 1)
  /\ faults' <= MaxFaults
  /\ disk' = IF outcome = "kept_old" THEN disk ELSE [rec EXCEPT !.file = TRUE]

\* authoritative_cap
AuthoritativeCap(c) ==
  IF c.sub /\ c.week >= SubWeeks THEN c.pending
  ELSE IF ~c.probe THEN Lesser(TICK, Funded)
  ELSE IF ~c.sub THEN Funded
  ELSE Lesser(c.base + TokensPerWeek, Funded)

TermEnded(c) == c.sub /\ c.week >= SubWeeks

\* validate_live_deal_shape, for the shapes the contract can have.
LiveShape(c) ==
  /\ c.st = "open"
  /\ c.pending <= Funded
  /\ IF c.probe THEN c.pending >= TICK ELSE c.pending = 0
  /\ c.pending <= AuthoritativeCap(c)

\* The record reconcile_deal starts from: the entry, the file, or a new one.
Baseline(rec, c) ==
  IF rec.file THEN rec
  ELSE [cap |-> AuthoritativeCap(c), anchor |-> c.pending, local |-> 0,
        outstanding |-> 0, probeAt |-> 0, file |-> TRUE]

\* reconcile_deal's refusals: a regressing high-water or cap, or a claim that
\* neither durable delivery nor the paid probe tick accounts for.
Accepts(old, c) ==
  /\ LiveShape(c)
  /\ c.pending >= old.anchor
  /\ TermEnded(c) \/ AuthoritativeCap(c) >= old.cap
  /\ \/ TermEnded(c)
     \/ c.pending <= IF c.probe THEN Greater(Delivered(old), TICK) ELSE Delivered(old)

Reconciled(old, c) ==
  LET anchor == Lesser(c.pending, Delivered(old))
  IN  [cap |-> IF TermEnded(c) THEN Delivered(old) + old.outstanding
               ELSE AuthoritativeCap(c),
       anchor |-> anchor,
       local |-> Delivered(old) - anchor,
       outstanding |-> old.outstanding,
       probeAt |-> IF c.probe THEN 0 ELSE old.probeAt,
       file |-> TRUE]

\* mark_terminal: the entry is dropped and its file removed.
Terminal ==
  /\ mem' = [mem EXCEPT !.terminal = TRUE, !.entry = NoFile]
  /\ disk' = NoFile

\* unregister_stream: new streams are refused; relays under way keep their
\* reservation and their counters.
Unregistered(m) == [m EXCEPT !.reg = FALSE]
-----------------------------------------------------------------------------
(***************************************************************************)
(* The deal contract, as far as metering sees it (TokenContract models it  *)
(* whole).                                                                 *)
(***************************************************************************)
ClaimCap(c) ==
  IF ~c.sub THEN Funded
  ELSE IF c.week >= SubWeeks THEN c.pending
  ELSE Lesser(c.base + TokensPerWeek, Funded)

Claimable(c, cumulative) ==
  /\ c.st = "open" /\ c.probe
  /\ cumulative > c.pending /\ cumulative <= ClaimCap(c)
  /\ cumulative - c.pending <= TICK

\* claimTokens; the promote window is the claim interval, so the claim before
\* this one has matured.
ClaimLands(c, cumulative) == [c EXCEPT !.final = c.pending, !.pending = cumulative]

ChainFinalize ==
  /\ Live /\ chain.pending > chain.final
  /\ chain' = [chain EXCEPT !.final = chain.pending,
                 !.st = IF ~chain.sub /\ chain.pending >= Funded THEN "gone" ELSE @]
  /\ UNCHANGED <<disk, mem, delivery, req, drv, flight, served, counters>>

ChainSettleWeek ==
  /\ Live /\ chain.sub /\ chain.probe
  /\ IF chain.week < SubWeeks
     THEN chain' = [chain EXCEPT !.week = @ + 1, !.base = Greater(chain.final, chain.pending)]
     ELSE chain' = [chain EXCEPT !.final = chain.pending, !.st = "gone"]
  /\ UNCHANGED <<disk, mem, delivery, req, drv, flight, served, counters>>

\* The buyer stops, or disputes and the dispute ends the deal.
BuyerStops ==
  /\ chain.st \in {"open", "disputed"}
  /\ chain' = [chain EXCEPT !.st = "gone"]
  /\ UNCHANGED <<disk, mem, delivery, req, drv, flight, served, counters>>

BuyerDisputes ==
  /\ Live
  /\ chain' = [chain EXCEPT !.st = "disputed"]
  /\ UNCHANGED <<disk, mem, delivery, req, drv, flight, served, counters>>

\* A claim whose answer the driver gave up on is executed, or refused, later.
LateClaim(cumulative) ==
  /\ cumulative \in flight
  /\ flight' = flight \ {cumulative}
  /\ chain' = IF Claimable(chain, cumulative) THEN ClaimLands(chain, cumulative) ELSE chain
  /\ UNCHANGED <<disk, mem, delivery, req, drv, served, counters>>
-----------------------------------------------------------------------------
(***************************************************************************)
(* The gateway.                                                            *)
(***************************************************************************)
\* register_stream_with_claim_bounds, and the driver task that follows it.  A
\* record that is as it was is not written again.  A new one is written here, by
\* the code when it first changes: until then there is nothing in it that the
\* chain would not tell a restart.
Register ==
  LET old == Baseline(disk, chain)
  IN  /\ drv.pc = "register"
      /\ CASE chain.st = "gone" ->
                /\ Terminal /\ drv' = [drv EXCEPT !.pc = "ended"]
                /\ UNCHANGED <<delivery, faults>>
           [] chain.st # "gone" /\ ~Accepts(old, chain) ->
                /\ drv' = [drv EXCEPT !.pc = "failed"]
                /\ UNCHANGED <<disk, mem, delivery, faults>>
           [] OTHER ->
                LET rec == Reconciled(old, chain) IN
                \E o \in IF rec = disk THEN {"ok"} ELSE WriteOutcomes :
                  /\ Written(o, rec)
                  /\ IF o = "ok"
                     THEN /\ mem' = [mem EXCEPT !.entry = rec, !.reg = TRUE]
                          /\ delivery' = [delivery EXCEPT !.count = Delivered(rec)]
                          /\ drv' = [drv EXCEPT !.pc = "start"]
                     ELSE /\ mem' = [mem EXCEPT !.entry = old]
                          /\ drv' = [drv EXCEPT !.pc = "failed"]
                          /\ UNCHANGED delivery
      /\ UNCHANGED <<chain, req, flight, served, crashes, admitted>>

Admissible ==
  /\ mem.up /\ mem.reg /\ ~mem.terminal
  /\ delivery.lock = NoHolder /\ ~delivery.exhausted
  /\ mem.entry.local < TICK
  /\ Available(mem.entry) > 0
  /\ mem.entry.outstanding = 0
  /\ admitted < MaxRequests

\* open_stream and admit_shared: a live slot, nothing durable.
AdmitShared(r, grant) ==
  /\ Admissible /\ req[r].st = "idle"
  /\ mem.active < ConcurrencyLimit
  /\ mem' = [mem EXCEPT !.active = @ + 1]
  /\ req' = [req EXCEPT ![r] = [NoRequest EXCEPT !.st = "open", !.shared = TRUE,
                                  !.grant = Lesser(Available(mem.entry), grant)]]
  /\ admitted' = admitted + 1
  /\ UNCHANGED <<chain, disk, delivery, drv, flight, served, crashes, faults>>

\* open_stream and reserve_exclusive, for a peer without the shared budget: the
\* amount is reserved in the file before the upstream sees the request.
AdmitExclusive(r, grant) ==
  LET amount == Lesser(Available(mem.entry), grant)
      rec    == [mem.entry EXCEPT !.outstanding = @ + amount]
  IN  /\ Admissible /\ req[r].st = "idle"
      /\ mem.active = 0
      /\ \E o \in WriteOutcomes :
           /\ Written(o, rec)
           /\ IF o = "ok"
              THEN /\ mem' = [mem EXCEPT !.entry = rec]
                   /\ req' = [req EXCEPT ![r] = [NoRequest EXCEPT !.st = "open",
                                                   !.grant = amount]]
              ELSE UNCHANGED <<mem, req>>
      /\ admitted' = admitted + 1
      /\ UNCHANGED <<chain, delivery, drv, flight, served, crashes>>

Holds(r) == delivery.lock = r

\* finish_with_delivery: an exclusive request's bill is within its reservation;
\* a shared one takes what is left of the purchase when it ends.
Charged(r, tokens) ==
  IF req[r].shared THEN Lesser(Lesser(tokens, req[r].grant), Available(mem.entry))
  ELSE tokens

BilledRecord(r, charged) ==
  [mem.entry EXCEPT
     !.local = @ + charged,
     !.outstanding = @ - (IF req[r].shared THEN 0 ELSE req[r].grant)]

Slot(r) == IF req[r].shared THEN 1 ELSE 0

\* The relay of a clean stream, up to the durable bill: complete_billing takes
\* update_lock and finish_with_delivery writes the record.
CommitBill(r, usage) ==
  LET tokens  == Lesser(usage, req[r].grant)
      charged == Charged(r, tokens)
      rec     == BilledRecord(r, charged)
  IN  /\ mem.up /\ req[r].st = "open" /\ delivery.lock = NoHolder
      /\ ~mem.terminal
      /\ \E o \in WriteOutcomes :
           /\ Written(o, rec)
           /\ served' = served + charged
           /\ IF o = "ok"
              THEN /\ mem' = [mem EXCEPT !.entry = rec, !.active = @ - Slot(r)]
                   /\ req' = [req EXCEPT ![r].st = "billed", ![r].charged = charged,
                                         ![r].over = usage > req[r].grant \/ charged < tokens]
                   /\ delivery' = [delivery EXCEPT !.lock = r]
              ELSE /\ req' = [req EXCEPT ![r].st = "ambiguous"]
                   /\ UNCHANGED <<mem, delivery>>
      /\ UNCHANGED <<chain, drv, flight, crashes, admitted>>

\* The rest of complete_billing, still under update_lock.
PublishBill(r) ==
  LET over == delivery.exhausted \/ req[r].over
  IN  /\ mem.up /\ req[r].st = "billed" /\ Holds(r)
      /\ delivery' = [count |-> delivery.count + req[r].charged,
                      exhausted |-> over,
                      done |-> delivery.done \/ (over /\ mem.active = 0),
                      lock |-> NoHolder]
      /\ req' = [req EXCEPT ![r] = NoRequest]
      /\ UNCHANGED <<chain, disk, mem, drv, flight, served, counters>>

\* A relay that ends without a valid bill (Finished): before any output the
\* reservation is released (finish_exact), after output it is kept
\* (finish_ambiguous); a shared request only gives its slot back.  When the
\* record cannot be written the error returns before the last-request check,
\* and dropping the reservation frees the slot.
FinishUnbilled(r) ==
  /\ mem.up /\ delivery.lock = NoHolder
  /\ \E exact \in BOOLEAN :
       LET rec  == IF exact /\ ~req[r].shared
                   THEN [mem.entry EXCEPT !.outstanding = @ - req[r].grant] ELSE mem.entry
           left == mem.active - Slot(r)
           writes == ~mem.terminal /\ (exact \/ req[r].shared)
           finished(ok) ==
             /\ mem' = [mem EXCEPT !.active = left,
                                   !.entry = IF ok /\ writes THEN rec ELSE @]
             /\ delivery' = [delivery EXCEPT
                               !.done = @ \/ (ok /\ delivery.exhausted /\ left = 0)]
       IN  /\ \/ req[r].st = "open"
              \/ req[r].st = "ambiguous" /\ ~exact
           /\ IF writes
              THEN \E o \in WriteOutcomes : Written(o, rec) /\ finished(o = "ok")
              ELSE finished(~(mem.terminal /\ req[r].shared)) /\ UNCHANGED <<disk, faults>>
           /\ req' = [req EXCEPT ![r] = NoRequest]
  /\ UNCHANGED <<chain, drv, flight, served, crashes, admitted>>
-----------------------------------------------------------------------------
(***************************************************************************)
(* The claim driver, one action between two reads of the chain.  At every  *)
(* step it may find the deal gone: with the settlement receipt in hand it  *)
(* marks the capacity terminal and ends, except where it reads the state   *)
(* before it looks for the receipt, and then it reports a fault.           *)
(***************************************************************************)
Ends ==
  /\ drv' = [drv EXCEPT !.pc = "ended"]
  /\ mem' = Unregistered([mem EXCEPT !.terminal = TRUE, !.entry = NoFile])
  /\ disk' = NoFile
  /\ UNCHANGED faults

Fails ==
  /\ drv' = [drv EXCEPT !.pc = "failed"]
  /\ mem' = Unregistered(mem)
  /\ UNCHANGED <<disk, faults>>

\* deal_closed_observed at the head of a step.
ClosedAt(places) ==
  /\ mem.up /\ drv.pc \in places /\ chain.st = "gone"
  /\ Ends
  /\ UNCHANGED <<chain, delivery, req, flight, served, crashes, admitted>>

DriverSeesClose == ClosedAt({"start", "probe_wait", "loop", "claim", "confirm", "post_claim", "final"})

\* required_claim_state: the strict read, and for an ordinary deal the
\* observer's reconcile_ordinary_capacity, before the driver goes on to pc.
Observes(next) ==
  IF chain.sub
  THEN /\ drv' = next /\ UNCHANGED <<disk, mem, faults>>
  ELSE IF ~Accepts(mem.entry, chain) THEN Fails
  ELSE \E o \in WriteOutcomes :
         LET rec == Reconciled(mem.entry, chain) IN
         IF rec = mem.entry
         THEN o = "ok" /\ drv' = next /\ UNCHANGED <<disk, mem, faults>>
         ELSE /\ Written(o, rec)
              /\ IF o = "ok"
                 THEN mem' = [mem EXCEPT !.entry = rec] /\ drv' = next
                 ELSE mem' = Unregistered(mem) /\ drv' = [drv EXCEPT !.pc = "failed"]

Driver(place) == mem.up /\ ~mem.terminal /\ drv.pc = place
DriverFrame == UNCHANGED <<chain, delivery, req, flight, served, crashes, admitted>>

Start ==
  /\ Driver("start") /\ chain.st # "gone"
  /\ IF chain.probe THEN Observes([drv EXCEPT !.pc = "resume"])
     ELSE IF chain.st = "disputed" THEN Fails
     ELSE Observes([drv EXCEPT !.pc = "probe_wait"])
  /\ DriverFrame

\* The probe window has passed; the first billed token opens the way, and a
\* finished session without one ends the driver with nothing claimed.
ProbeWait ==
  /\ Driver("probe_wait") /\ chain.st # "gone"
  /\ delivery.count > 0 \/ delivery.done
  /\ drv' = [drv EXCEPT !.pc = IF delivery.count > 0 THEN "prepare" ELSE "final"]
  /\ UNCHANGED <<disk, mem, faults>> /\ DriverFrame

\* prepare_probe: the decision is durable before acceptProbe is sent.
PrepareProbe ==
  LET prefix == Lesser(delivery.count, TICK)
      rec    == [mem.entry EXCEPT !.probeAt = prefix]
  IN  /\ Driver("prepare")
      /\ IF mem.entry.anchor # 0 \/ prefix > mem.entry.local THEN Fails
         ELSE IF mem.entry.probeAt # 0
         THEN drv' = [drv EXCEPT !.pc = "accept"] /\ UNCHANGED <<disk, mem, faults>>
         ELSE \E o \in WriteOutcomes :
                /\ Written(o, rec)
                /\ IF o = "ok"
                   THEN mem' = [mem EXCEPT !.entry = rec] /\ drv' = [drv EXCEPT !.pc = "accept"]
                   ELSE mem' = Unregistered(mem) /\ drv' = [drv EXCEPT !.pc = "failed"]
      /\ DriverFrame

\* accept_probe: the call lands, or it is lost.
AcceptProbe ==
  /\ Driver("accept")
  /\ drv' = [drv EXCEPT !.pc = "accepted"]
  /\ \/ /\ Live /\ ~chain.probe
        /\ chain' = [chain EXCEPT !.probe = TRUE, !.pending = TICK, !.final = TICK]
        /\ UNCHANGED faults
     \/ /\ Live => faults < MaxFaults
        /\ faults' = faults + (IF Live THEN 1 ELSE 0)
        /\ UNCHANGED chain
  /\ UNCHANGED <<disk, mem, delivery, req, flight, served, crashes, admitted>>

\* The state, not the answer, decides.  The account of a stopped deal is gone:
\* the read fails before the close is looked for.
ProbeReadback ==
  /\ Driver("accepted")
  /\ IF chain.st # "gone" /\ chain.probe
     THEN Observes([drv EXCEPT !.pc = "resume"]) ELSE Fails
  /\ DriverFrame

\* The cumulative cursor is seeded from the chain (validated_claim_high_water).
Resume ==
  /\ Driver("resume")
  /\ IF ~Live THEN Fails
     ELSE Observes([drv EXCEPT !.pc = "loop", !.claimed = chain.pending])
  /\ DriverFrame

\* Slip: usage beyond the probe tick is claimed on top of it.
ClaimTargetOnTop(count) == Lesser(count + TICK, Funded)

\* Slip: only whole ticks of usage are claimed.
ClaimTargetWholeTicks(count) == Lesser(Greater(TICK * (count \div TICK), TICK), Funded)

\* claim_target
ClaimTarget(count) == Lesser(Greater(count, TICK), Funded)

\* The head of the claim loop.
LoopHead ==
  /\ Driver("loop") /\ chain.st # "gone"
  /\ \/ /\ \/ drv.claimed >= Funded
           \/ drv.claimed >= ClaimTarget(delivery.count) /\ delivery.done
        /\ drv' = [drv EXCEPT !.pc = "final"]
     \/ /\ drv.claimed < ClaimTarget(delivery.count)
        /\ drv' = [drv EXCEPT !.pc = "claim"]
  /\ UNCHANGED <<disk, mem, faults>> /\ DriverFrame

\* Slip: the claim that exhausts the deal does not wait for admitted requests.
HoldsBackNever(next) == FALSE

\* The claim that uses the deal up may close it: it waits for the last request.
HoldsBack(next) == next = Funded /\ mem.active > 0

\* After the claim interval: claim_tokens reads the high-water first, then
\* submits; the message is executed, refused, lost, or still under way.
Claim ==
  LET target == ClaimTarget(delivery.count)
      next   == Lesser(target, drv.claimed + Allowance)
      sent   == [drv EXCEPT !.pc = "confirm", !.target = target, !.next = next]
  IN  /\ Driver("claim") /\ chain.st # "gone"
      /\ IF next <= drv.claimed \/ HoldsBack(next)
         THEN drv' = [drv EXCEPT !.pc = "loop"] /\ UNCHANGED <<chain, mem, flight, faults>>
         ELSE IF chain.pending >= next
         THEN drv' = sent /\ UNCHANGED <<chain, mem, flight, faults>>
         ELSE \/ /\ Claimable(chain, next)
                 /\ chain' = ClaimLands(chain, next)
                 /\ drv' = sent
                 /\ UNCHANGED <<mem, flight, faults>>
              \/ /\ Claimable(chain, next) /\ faults < MaxFaults
                 /\ faults' = faults + 1
                 /\ drv' = sent
                 /\ flight' \in {flight, flight \cup {next}}
                 /\ UNCHANGED <<chain, mem>>
              \/ /\ ~Claimable(chain, next)
                 /\ drv' = [drv EXCEPT !.pc = "failed"]
                 /\ mem' = Unregistered(mem)
                 /\ UNCHANGED <<chain, flight, faults>>
      /\ UNCHANGED <<disk, delivery, req, served, crashes, admitted>>

\* submit_claim_confirmed_with: only the high-water proves the claim landed; a
\* higher one is a resync, which must stay within the delivered target.
Confirm ==
  /\ Driver("confirm") /\ chain.st # "gone"
  /\ IF chain.pending < drv.next \/ chain.pending > drv.target THEN Fails
     ELSE /\ drv' = [drv EXCEPT !.pc = "post_claim", !.next = chain.pending]
          /\ UNCHANGED <<disk, mem, faults>>
  /\ DriverFrame

PostClaim ==
  /\ Driver("post_claim") /\ chain.st # "gone"
  /\ IF ~Live \/ chain.pending < drv.next \/ chain.pending > drv.target THEN Fails
     ELSE Observes([drv EXCEPT !.pc = "loop", !.claimed = chain.pending])
  /\ DriverFrame

\* The driver is done: the keeper of a subscription goes on alone; for an
\* ordinary deal the last claim is promoted, and a deal whose billing ran out is
\* closed by the seller (record_advance_result).
FinishDeal ==
  /\ Driver("final") /\ chain.st # "gone"
  /\ IF chain.sub
     THEN drv' = [drv EXCEPT !.pc = "keeping"] /\ UNCHANGED <<chain, mem, disk, faults>>
     ELSE IF chain.pending > chain.final
     THEN IF Live
          THEN /\ chain' = [chain EXCEPT !.final = chain.pending,
                               !.st = IF chain.pending >= Funded THEN "gone" ELSE @]
               /\ UNCHANGED <<drv, mem, disk, faults>>
          ELSE Fails /\ UNCHANGED chain
     ELSE IF Live /\ delivery.exhausted
     THEN Ends /\ chain' = [chain EXCEPT !.st = "gone"]
     ELSE /\ drv' = [drv EXCEPT !.pc = "ended"]
          /\ mem' = Unregistered(mem)
          /\ UNCHANGED <<chain, disk, faults>>
  /\ UNCHANGED <<delivery, req, flight, served, crashes, admitted>>

\* SubscriptionCapacityObserver: every coherent snapshot of the keeper
\* reconciles the capacity; a refusal ends keeper and driver together.
KeeperObserves ==
  /\ mem.up /\ mem.reg /\ ~mem.terminal /\ chain.sub
  /\ IF chain.st = "gone" THEN Ends
     ELSE IF ~Accepts(mem.entry, chain) THEN Fails
     ELSE LET rec == Reconciled(mem.entry, chain) IN
          /\ rec # mem.entry
          /\ \E o \in WriteOutcomes :
               /\ Written(o, rec)
               /\ IF o = "ok" THEN mem' = [mem EXCEPT !.entry = rec] /\ UNCHANGED drv
                  ELSE mem' = Unregistered(mem) /\ drv' = [drv EXCEPT !.pc = "failed"]
  /\ DriverFrame
-----------------------------------------------------------------------------
\* The process stops anywhere, and a new one starts from the file and the chain.
Crash ==
  /\ mem.up /\ crashes < MaxCrashes
  /\ crashes' = crashes + 1
  /\ mem' = [up |-> FALSE, reg |-> FALSE, entry |-> NoFile, terminal |-> FALSE, active |-> 0]
  /\ delivery' = [count |-> 0, exhausted |-> FALSE, done |-> FALSE, lock |-> NoHolder]
  /\ req' = [r \in Requests |-> NoRequest]
  /\ drv' = [pc |-> "down", claimed |-> 0, target |-> 0, next |-> 0]
  /\ UNCHANGED <<chain, disk, flight, served, faults, admitted>>

Boot ==
  /\ ~mem.up
  /\ mem' = [mem EXCEPT !.up = TRUE]
  /\ drv' = [drv EXCEPT !.pc = "register"]
  /\ UNCHANGED <<chain, disk, delivery, req, flight, served, counters>>

DriverStep ==
  \/ Register \/ Start \/ ProbeWait \/ PrepareProbe \/ AcceptProbe \/ ProbeReadback
  \/ Resume \/ LoopHead \/ Claim \/ Confirm \/ PostClaim \/ FinishDeal \/ DriverSeesClose

GatewayStep(r) ==
  \/ \E u \in Usages : CommitBill(r, u)
  \/ PublishBill(r) \/ FinishUnbilled(r)

Next ==
  \/ DriverStep \/ KeeperObserves \/ Boot \/ Crash
  \/ ChainFinalize \/ ChainSettleWeek \/ BuyerStops \/ BuyerDisputes
  \/ \E c \in flight : LateClaim(c)
  \/ \E r \in Requests :
       \/ GatewayStep(r)
       \/ \E g \in Grants : AdmitShared(r, g) \/ AdmitExclusive(r, g)

Spec == Init /\ [][Next]_vars

\* The tasks of a running process are scheduled, and a relay ends.
FairSpec ==
  /\ Spec
  /\ WF_vars(DriverStep) /\ WF_vars(KeeperObserves) /\ WF_vars(Boot)
  /\ \A r \in Requests : WF_vars(GatewayStep(r))
-----------------------------------------------------------------------------

\* The seller never asks to be paid for more than it served: whatever was lost,
\* written late or repeated, the claimed cumulative is covered by the trial tick
\* or by the usage of streams that ended cleanly.
ClaimsBacked == chain.pending <= Greater(TICK, served)

\* A crash at any moment is recoverable: while the deal is live, the file that is
\* on disk now is one reconcile_deal accepts against the chain as it is now.
RestartReconciles ==
  chain.st = "open" => Accepts(Baseline(disk, chain), chain)

\* A deal whose whole purchase is claimed may be finalized and destroyed by
\* anyone: no request of this process is still being served then, not even when
\* the exhausting claim lands long after the driver gave it up.
NoRequestOutlivesPurchase ==
  ~chain.sub /\ chain.pending >= Funded =>
    \A r \in Requests : req[r].st # "open"

\* Billed usage beyond the trial tick, to the last token, is claimed, or the deal or its driver is over.
BilledIsClaimed ==
  \A n \in {TICK + 1, Funded} :
    (drv.pc = "loop" /\ delivery.count >= n) ~>
       (chain.pending >= n \/ ~Live \/ drv.pc \in {"failed", "ended", "down", "register"})
=============================================================================
