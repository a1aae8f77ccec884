------------------------- MODULE SellerMeterProofs -------------------------
(***************************************************************************)
(* The metering of a deal (SellerMeter), for any number of requests,       *)
(* crashes, failed writes and late claims: the seller claims no more than  *)
(* it served, a restart always reconciles, and no request is being served  *)
(* when a purchase is used up.                                             *)
(***************************************************************************)
EXTENDS SellerMeter, FiniteSetTheorems, TLAPS

DriverPlaces == {"start", "probe_wait", "prepare", "accept", "accepted", "resume", "loop",
                 "claim", "confirm", "post_claim", "final"}
Places   == DriverPlaces \cup {"down", "register", "keeping", "ended", "failed"}
Deal     == [st : {"open", "disputed", "gone"}, sub : BOOLEAN, probe : BOOLEAN,
             pending : Nat, final : Nat, base : Nat, week : Nat]
Record   == [cap : Nat, anchor : Nat, local : Nat, outstanding : Nat, probeAt : Nat,
             file : BOOLEAN]
Entry    == [up : BOOLEAN, reg : BOOLEAN, entry : Record, terminal : BOOLEAN, active : Nat]
Delivery == [count : Nat, exhausted : BOOLEAN, done : BOOLEAN, lock : Requests \cup {NoHolder}]
Stream   == [st : {"idle", "open", "billed", "ambiguous"}, shared : BOOLEAN, grant : Nat,
             charged : Nat, over : BOOLEAN]
DriverState == [pc : Places, claimed : Nat, target : Nat, next : Nat]

TypeOK ==
  /\ chain \in Deal /\ disk \in Record /\ mem \in Entry /\ delivery \in Delivery
  /\ req \in [Requests -> Stream] /\ drv \in DriverState
  /\ flight \subseteq Nat /\ served \in Nat

\* The deal: claims never pass the purchase or the cap of the week.
DealOK(c) ==
  /\ c.final <= c.pending /\ c.base <= c.pending /\ c.pending <= Funded
  /\ IF c.probe THEN c.pending >= TICK ELSE c.pending = 0
  /\ c.pending <= AuthoritativeCap(c)

\* A record reconcile_deal accepts, now and after every claim in flight has
\* landed: f are the claims in flight.
Fits(rec, c, f) ==
  /\ rec.file
  /\ Committed(rec) <= rec.cap /\ rec.cap <= Funded
  /\ rec.anchor <= c.pending
  /\ TermEnded(c) \/ rec.cap <= AuthoritativeCap(c)
  /\ c.pending <= Greater(TICK, Delivered(rec))
  /\ \A x \in f : x <= Greater(TICK, Delivered(rec))

\* The file is such a record, or there is none because nothing was claimed yet
\* or the deal is over.
FileOK ==
  IF disk.file THEN Fits(disk, chain, flight) /\ Delivered(disk) <= served
  ELSE disk = NoFile /\ (chain.st = "gone" \/ (~chain.probe /\ flight = {}))

\* The process has a capacity entry in use.
Serving ==
  /\ ~mem.terminal
  /\ mem.reg \/ drv.pc \in DriverPlaces \/ \E r \in Requests : req[r].st # "idle"

\* A request that holds a durable reservation.
Exclusive(r) == req[r].st \in {"open", "ambiguous"} /\ ~req[r].shared
Sharing == {r \in Requests : req[r].st \in {"open", "ambiguous"} /\ req[r].shared}

\* The bill that is durable and not yet counted.
Held == IF delivery.lock \in Requests THEN req[delivery.lock].charged ELSE 0

\* The entry is never ahead of the file, and what the driver claims from, the
\* count, is never ahead of the entry.
EntryOK ==
  Serving => /\ Fits(mem.entry, chain, flight)
             /\ disk.file /\ Delivered(mem.entry) <= Delivered(disk)
             /\ delivery.count + Held <= Delivered(mem.entry)
             /\ \A r \in Requests :
                  Exclusive(r) => mem.entry.outstanding = req[r].grant /\ req[r].grant > 0

\* At most one reservation; the live slots are counted.
Slots ==
  /\ \A r, s \in Requests : Exclusive(r) /\ Exclusive(s) => r = s
  /\ IsFiniteSet(Sharing) /\ mem.active = Cardinality(Sharing)

\* A process that has not registered the deal serves nothing.
Unborn ==
  /\ drv.pc \in {"down", "register"} =>
       /\ ~mem.reg /\ ~mem.terminal /\ delivery.lock = NoHolder
       /\ \A r \in Requests : req[r].st = "idle"
  /\ ~mem.up => drv.pc = "down"

\* The exhausting claim, landed or in flight, was sent when nobody was served.
Exhausting ==
  ~chain.sub /\ (chain.pending >= Funded \/ \E x \in flight : x >= Funded) =>
     \A r \in Requests : req[r].st # "open"

MeterInv ==
  /\ TypeOK /\ DealOK(chain) /\ FileOK /\ EntryOK /\ Slots /\ Unborn /\ Exhausting
  /\ ClaimsBacked
-----------------------------------------------------------------------------
(***************************************************************************)
(* Records.                                                                *)
(***************************************************************************)
\* The purchase is at least two trial ticks.
LEMMA Sizes == TICK \in Nat /\ TICK > 0 /\ Funded \in Nat /\ Funded >= 2 * TICK
  <1>1. TICK \in Nat /\ TICK > 0 /\ FundedTicks \in Nat /\ FundedTicks >= 2
    BY MeterAssumption
  <1>2. FundedTicks * TICK \in Nat /\ FundedTicks * TICK >= 2 * TICK
    BY <1>1
  <1>3. QED
    BY <1>1, <1>2 DEF Funded

LEMMA CapBounds ==
  ASSUME NEW c \in Deal, DealOK(c)
  PROVE  AuthoritativeCap(c) \in Nat /\ AuthoritativeCap(c) <= Funded
  BY Sizes, MeterAssumption DEF AuthoritativeCap, Deal, DealOK, Lesser

\* What reconcile_deal writes fits the deal and keeps what was delivered and
\* reserved.
LEMMA ReconciledFits ==
  ASSUME NEW c \in Deal, DealOK(c), NEW f, NEW rec \in Record, Fits(rec, c, f)
  PROVE  LET new == Reconciled(rec, c)
         IN  /\ new \in Record /\ Fits(new, c, f)
             /\ Delivered(new) = Delivered(rec) /\ new.outstanding = rec.outstanding
  <1> DEFINE new == Reconciled(rec, c)
  <1>1. /\ rec.cap \in Nat /\ rec.anchor \in Nat /\ rec.local \in Nat /\ rec.outstanding \in Nat
        /\ rec.probeAt \in Nat /\ c.pending \in Nat
    BY DEF Record, Deal
  <1>2. AuthoritativeCap(c) \in Nat /\ AuthoritativeCap(c) <= Funded
    BY CapBounds
  <1>3. /\ new.anchor = Lesser(c.pending, Delivered(rec))
        /\ new.local = Delivered(rec) - new.anchor
        /\ new.outstanding = rec.outstanding
        /\ new.cap = IF TermEnded(c) THEN Delivered(rec) + rec.outstanding ELSE AuthoritativeCap(c)
        /\ new.file = TRUE /\ new.probeAt \in Nat
        /\ new = [cap |-> new.cap, anchor |-> new.anchor, local |-> new.local,
                  outstanding |-> new.outstanding, probeAt |-> new.probeAt, file |-> new.file]
    BY <1>1 DEF Reconciled
  <1> HIDE DEF new
  <1>4. /\ new.anchor \in Nat /\ new.local \in Nat /\ new.cap \in Nat /\ new.anchor <= c.pending
        /\ Delivered(new) = Delivered(rec)
    BY <1>1, <1>2, <1>3 DEF Delivered, Lesser
  <1>5. new \in Record
    BY <1>1, <1>3, <1>4 DEF Record
  <1>6. Committed(new) = Committed(rec) /\ Committed(rec) \in Nat /\ Committed(rec) = Delivered(rec) + rec.outstanding
    BY <1>1, <1>3, <1>4 DEF Committed, Delivered
  <1>7. Committed(new) <= new.cap /\ new.cap <= Funded
    BY <1>1, <1>2, <1>3, <1>6, Sizes DEF Fits
  <1>8. TermEnded(c) \/ new.cap <= AuthoritativeCap(c)
    BY <1>2, <1>3
  <1>9. Fits(new, c, f)
    BY <1>3, <1>4, <1>7, <1>8 DEF Fits
  <1>10. QED
    BY <1>3, <1>4, <1>5, <1>9 DEF new

\* A record that fits a live deal is accepted.
LEMMA FitsAccepted ==
  ASSUME NEW c \in Deal, DealOK(c), c.st = "open", NEW f, NEW rec \in Record, Fits(rec, c, f)
  PROVE  Accepts(rec, c)
  <1>1. rec.anchor \in Nat /\ rec.local \in Nat /\ c.pending \in Nat
    BY DEF Record, Deal
  <1>2. LiveShape(c)
    BY DEF LiveShape, DealOK
  <1>3. c.pending <= IF c.probe THEN Greater(Delivered(rec), TICK) ELSE Delivered(rec)
    BY <1>1, Sizes DEF Fits, DealOK, Greater, Delivered
  <1>4. QED
    BY <1>2, <1>3 DEF Accepts, Fits

\* The record a registration starts from.
LEMMA BaselineFits ==
  ASSUME TypeOK, DealOK(chain), FileOK, chain.st # "gone"
  PROVE  LET old == Baseline(disk, chain)
         IN  /\ old \in Record /\ Fits(old, chain, flight) /\ Delivered(old) <= served
             /\ disk.file => old = disk
  <1>1. CASE disk.file
    BY <1>1 DEF Baseline, FileOK, TypeOK
  <1>2. CASE ~disk.file
    <2> DEFINE old == Baseline(disk, chain)
    <2>1. ~chain.probe /\ flight = {} /\ chain.pending = 0 /\ served \in Nat
      BY <1>2 DEF FileOK, DealOK, TypeOK
    <2>2. AuthoritativeCap(chain) \in Nat /\ AuthoritativeCap(chain) <= Funded
      BY CapBounds DEF TypeOK
    <2>3. old = [cap |-> AuthoritativeCap(chain), anchor |-> 0, local |-> 0,
                 outstanding |-> 0, probeAt |-> 0, file |-> TRUE]
      BY <1>2, <2>1 DEF Baseline
    <2>4. old \in Record
      BY <2>2, <2>3 DEF Record
    <2>5. /\ old.cap = AuthoritativeCap(chain) /\ old.anchor = 0 /\ old.local = 0
          /\ old.outstanding = 0 /\ old.file = TRUE
      BY <2>3
    <2> HIDE DEF old
    <2>6. Delivered(old) = 0 /\ Committed(old) = 0
      BY <2>5 DEF Delivered, Committed
    <2>7. Fits(old, chain, flight)
      BY <2>1, <2>2, <2>5, <2>6, Sizes DEF Fits, Greater
    <2>8. QED
      BY <1>2, <2>1, <2>4, <2>6, <2>7 DEF old
  <1>3. QED
    BY <1>1, <1>2

\* The file after a write.
LEMMA WrittenIs ==
  ASSUME NEW rec \in Record, rec.file, NEW o \in WriteOutcomes, Written(o, rec)
  PROVE  disk' \in {disk, rec} /\ (o = "ok" => disk' = rec)
  <1>1. [rec EXCEPT !.file = TRUE] = rec
    BY DEF Record
  <1>2. QED
    BY <1>1 DEF Written, WriteOutcomes
-----------------------------------------------------------------------------
(***************************************************************************)
(* Steps of the driver and the keeper that read the deal.                  *)
(***************************************************************************)
\* The step leaves the entry and the file alone; or it refreshes them with a
\* record that delivered and reserved the same; or it ends a deal that is gone.
Leaves ==
  /\ UNCHANGED disk /\ mem'.entry = mem.entry /\ mem'.terminal = mem.terminal
  /\ drv'.pc \in DriverPlaces => Serving
Refreshes ==
  /\ Serving /\ mem'.terminal = mem.terminal
  /\ \E rec \in Record :
       /\ Fits(rec, chain, flight) /\ Delivered(rec) = Delivered(mem.entry)
       /\ rec.outstanding = mem.entry.outstanding
       /\ mem'.entry \in {mem.entry, rec} /\ disk' \in {disk, rec}
       /\ mem'.entry # mem.entry => disk' = rec
EndsDeal == mem'.terminal /\ disk' = NoFile /\ chain.st = "gone"

LEMMA DriverKeeps ==
  ASSUME MeterInv, DriverFrame,
         drv' \in DriverState, drv'.pc \notin {"down", "register"},
         mem' \in Entry, mem'.up = mem.up, mem'.up, mem'.active = mem.active, mem'.reg => mem.reg,
         Leaves \/ Refreshes \/ EndsDeal
  PROVE  MeterInv'
  <1>1. UNCHANGED <<chain, delivery, req, flight, served>>
    BY DEF DriverFrame
  <1>2. NoFile \in Record /\ ~NoFile.file
    BY DEF NoFile, Record
  <1>3. TypeOK'
    <2>1. disk' \in Record
      BY <1>2 DEF Leaves, Refreshes, EndsDeal, MeterInv, TypeOK
    <2>2. QED
      BY <1>1, <2>1 DEF MeterInv, TypeOK
  <1>4. Serving' => Serving
    BY <1>1 DEF Serving, Leaves, Refreshes, EndsDeal
  <1>5. FileOK'
    <2>1. CASE disk' = disk
      BY <1>1, <2>1 DEF MeterInv, FileOK
    <2>2. CASE EndsDeal
      BY <1>1, <1>2, <2>2 DEF FileOK, EndsDeal
    <2>3. CASE Refreshes /\ disk' # disk
      <3>1. Fits(disk', chain, flight) /\ Delivered(disk') = Delivered(mem.entry)
        BY <2>3 DEF Refreshes
      <3>2. Delivered(mem.entry) <= Delivered(disk) /\ disk.file /\ Delivered(disk) <= served
        BY <2>3 DEF Refreshes, MeterInv, EntryOK, FileOK
      <3>3. Delivered(disk') \in Nat /\ Delivered(disk) \in Nat
        BY <1>3 DEF MeterInv, TypeOK, Record, Delivered
      <3>4. QED
        BY <1>1, <3>1, <3>2, <3>3, <1>3 DEF FileOK, Fits, TypeOK
    <2>4. QED
      BY <2>1, <2>2, <2>3 DEF Leaves
  <1>6. EntryOK'
    <2> SUFFICES ASSUME Serving'
                 PROVE  /\ Fits(mem'.entry, chain, flight)
                        /\ disk'.file /\ Delivered(mem'.entry) <= Delivered(disk')
                        /\ delivery.count + Held <= Delivered(mem'.entry)
                        /\ \A r \in Requests :
                             Exclusive(r) => mem'.entry.outstanding = req[r].grant /\ req[r].grant > 0
      BY <1>1 DEF EntryOK, Held, Exclusive
    <2>1. /\ Fits(mem.entry, chain, flight)
          /\ disk.file /\ Delivered(mem.entry) <= Delivered(disk)
          /\ delivery.count + Held <= Delivered(mem.entry)
          /\ \A r \in Requests :
               Exclusive(r) => mem.entry.outstanding = req[r].grant /\ req[r].grant > 0
      BY <1>4 DEF MeterInv, EntryOK
    <2>2. CASE Leaves
      BY <2>1, <2>2 DEF Leaves
    <2>3. CASE Refreshes
      <3>1. PICK rec \in Record :
              /\ Fits(rec, chain, flight) /\ Delivered(rec) = Delivered(mem.entry)
              /\ rec.outstanding = mem.entry.outstanding
              /\ mem'.entry \in {mem.entry, rec} /\ disk' \in {disk, rec}
              /\ mem'.entry # mem.entry => disk' = rec
        BY <2>3 DEF Refreshes
      <3>2. Delivered(rec) \in Nat /\ rec.file
        BY <3>1 DEF Record, Delivered, Fits
      <3>3. QED
        BY <2>1, <3>1, <3>2
    <2>4. QED
      BY <2>2, <2>3 DEF EndsDeal, Serving
  <1>7. Slots'
    <2>1. Sharing' = Sharing /\ \A r \in Requests : Exclusive(r)' <=> Exclusive(r)
      BY <1>1 DEF Sharing, Exclusive
    <2>2. QED
      BY <2>1 DEF MeterInv, Slots
  <1>8. Unborn'
    BY DEF Unborn
  <1>9. DealOK(chain)' /\ Exhausting' /\ ClaimsBacked'
    BY <1>1 DEF MeterInv, Exhausting, ClaimsBacked, DealOK, AuthoritativeCap
  <1>10. QED
    BY <1>3, <1>5, <1>6, <1>7, <1>8, <1>9 DEF MeterInv

LEMMA EndsKeeps ==
  ASSUME MeterInv, mem.up, Ends, DriverFrame, chain.st = "gone"
  PROVE  MeterInv'
  <1>1. drv \in DriverState /\ mem \in Entry
    BY DEF MeterInv, TypeOK
  <1>2. drv' \in DriverState /\ drv'.pc = "ended"
    BY <1>1 DEF Ends, DriverState, Places
  <1>3. NoFile \in Record
    BY DEF NoFile, Record
  <1>4. /\ mem' \in Entry /\ mem'.up = mem.up /\ mem'.active = mem.active /\ ~mem'.reg
        /\ mem'.terminal
    BY <1>1, <1>3 DEF Ends, Unregistered, Entry
  <1>5. QED
    BY <1>2, <1>4, DriverKeeps DEF EndsDeal, Ends

LEMMA FailsKeeps ==
  ASSUME MeterInv, mem.up, Fails, DriverFrame
  PROVE  MeterInv'
  <1>1. drv \in DriverState /\ mem \in Entry
    BY DEF MeterInv, TypeOK
  <1>2. drv' \in DriverState /\ drv'.pc = "failed"
    BY <1>1 DEF Fails, DriverState, Places
  <1>3. /\ mem' \in Entry /\ mem'.up = mem.up /\ mem'.active = mem.active /\ ~mem'.reg
        /\ mem'.terminal = mem.terminal /\ mem'.entry = mem.entry
    BY <1>1 DEF Fails, Unregistered, Entry
  <1>4. Leaves
    BY <1>2, <1>3 DEF Leaves, Fails, DriverPlaces
  <1>5. QED
    BY <1>2, <1>3, <1>4, DriverKeeps

\* A write of a record that refreshes the entry: with success the driver goes
\* on, without it fails.
LEMMA RefreshKeeps ==
  ASSUME MeterInv, mem.up, Serving, DriverFrame, NEW rec \in Record,
         Fits(rec, chain, flight), Delivered(rec) = Delivered(mem.entry),
         rec.outstanding = mem.entry.outstanding,
         NEW o \in WriteOutcomes, Written(o, rec),
         IF o = "ok" THEN mem' = [mem EXCEPT !.entry = rec] ELSE mem' = Unregistered(mem),
         drv' \in DriverState, drv'.pc \notin {"down", "register"}
  PROVE  MeterInv'
  <1>1. mem \in Entry
    BY DEF MeterInv, TypeOK
  <1>2. disk' \in {disk, rec} /\ (o = "ok" => disk' = rec)
    BY WrittenIs DEF Fits
  <1>3. /\ mem' \in Entry /\ mem'.up = mem.up /\ mem'.active = mem.active /\ (mem'.reg => mem.reg)
        /\ mem'.terminal = mem.terminal
        /\ mem'.entry = IF o = "ok" THEN rec ELSE mem.entry
    <2>1. CASE o = "ok"
      BY <1>1, <2>1 DEF Entry
    <2>2. CASE o # "ok"
      BY <1>1, <2>2 DEF Entry, Unregistered
    <2>3. QED
      BY <2>1, <2>2
  <1>4. Refreshes
    BY <1>2, <1>3 DEF Refreshes
  <1>5. QED
    BY <1>3, <1>4, DriverKeeps

\* required_claim_state: the strict read and the reconciliation that follows.
LEMMA ObservesKeeps ==
  ASSUME MeterInv, mem.up, Serving, DriverFrame, NEW next \in DriverState, Observes(next),
         next.pc \notin {"down", "register"}
  PROVE  MeterInv'
  <1>1. mem \in Entry /\ mem.entry \in Record /\ chain \in Deal /\ DealOK(chain) /\ drv \in DriverState
    BY DEF MeterInv, TypeOK, Entry
  <1>2. CASE drv' = next /\ UNCHANGED <<disk, mem, faults>>
    BY <1>1, <1>2, DriverKeeps DEF Leaves
  <1>3. CASE Fails
    BY <1>3, FailsKeeps
  <1>4. CASE \E o \in WriteOutcomes :
               LET rec == Reconciled(mem.entry, chain) IN
               /\ Written(o, rec)
               /\ IF o = "ok" THEN mem' = [mem EXCEPT !.entry = rec] /\ drv' = next
                  ELSE mem' = Unregistered(mem) /\ drv' = [drv EXCEPT !.pc = "failed"]
    <2> DEFINE rec == Reconciled(mem.entry, chain)
    <2>1. Fits(mem.entry, chain, flight)
      BY DEF MeterInv, EntryOK
    <2>2. /\ rec \in Record /\ Fits(rec, chain, flight) /\ Delivered(rec) = Delivered(mem.entry)
          /\ rec.outstanding = mem.entry.outstanding
      BY <1>1, <2>1, ReconciledFits
    <2>3. PICK o \in WriteOutcomes :
            /\ Written(o, rec)
            /\ IF o = "ok" THEN mem' = [mem EXCEPT !.entry = rec] /\ drv' = next
               ELSE mem' = Unregistered(mem) /\ drv' = [drv EXCEPT !.pc = "failed"]
      BY <1>4
    <2> HIDE DEF rec
    <2>4. drv' \in DriverState /\ drv'.pc \notin {"down", "register"}
      <3>1. [drv EXCEPT !.pc = "failed"] \in DriverState /\ [drv EXCEPT !.pc = "failed"].pc = "failed"
        BY <1>1 DEF DriverState, Places
      <3>2. QED
        BY <2>3, <3>1
    <2>5. QED
      BY <2>2, <2>3, <2>4, RefreshKeeps
  <1>5. QED
    BY <1>2, <1>3, <1>4 DEF Observes

\* The driver at one of its places has the entry in use.
LEMMA DriverServes ==
  ASSUME TypeOK, NEW place \in DriverPlaces, Driver(place)
  PROVE  Serving /\ mem.up
  BY DEF Driver, Serving

LEMMA StartKeeps ==
  ASSUME MeterInv, Start
  PROVE  MeterInv'
  <1>1. Serving /\ mem.up /\ DriverFrame
    BY DriverServes DEF Start, MeterInv, DriverPlaces
  <1>2. ASSUME NEW pc \in {"resume", "probe_wait"}
        PROVE  [drv EXCEPT !.pc = pc] \in DriverState /\ [drv EXCEPT !.pc = pc].pc = pc
    BY DEF MeterInv, TypeOK, DriverState, Places, DriverPlaces
  <1>3. QED
    BY <1>1, <1>2, ObservesKeeps, FailsKeeps DEF Start

LEMMA ProbeReadbackKeeps ==
  ASSUME MeterInv, ProbeReadback
  PROVE  MeterInv'
  <1>1. Serving /\ mem.up /\ DriverFrame
    BY DriverServes DEF ProbeReadback, MeterInv, DriverPlaces
  <1>2. [drv EXCEPT !.pc = "resume"] \in DriverState /\ [drv EXCEPT !.pc = "resume"].pc = "resume"
    BY DEF MeterInv, TypeOK, DriverState, Places, DriverPlaces
  <1>3. QED
    BY <1>1, <1>2, ObservesKeeps, FailsKeeps DEF ProbeReadback

LEMMA SeedKeeps ==
  ASSUME MeterInv, Resume \/ PostClaim
  PROVE  MeterInv'
  <1>1. Serving /\ mem.up /\ DriverFrame
    BY DriverServes DEF Resume, PostClaim, MeterInv, DriverPlaces
  <1> DEFINE next == [drv EXCEPT !.pc = "loop", !.claimed = chain.pending]
  <1>2. next \in DriverState /\ next.pc = "loop"
    BY DEF MeterInv, TypeOK, DriverState, Places, DriverPlaces, Deal
  <1>3. QED
    BY <1>1, <1>2, ObservesKeeps, FailsKeeps DEF Resume, PostClaim

LEMMA MovesKeeps ==
  ASSUME MeterInv, ProbeWait \/ LoopHead \/ Confirm
  PROVE  MeterInv'
  <1>1. Serving /\ mem.up /\ DriverFrame
    BY DriverServes DEF ProbeWait, LoopHead, Confirm, MeterInv, DriverPlaces
  <1>2. ASSUME NEW pc \in DriverPlaces
        PROVE  [drv EXCEPT !.pc = pc] \in DriverState /\ [drv EXCEPT !.pc = pc].pc = pc
    BY DEF MeterInv, TypeOK, DriverState, Places, DriverPlaces
  <1>3. CASE Fails
    BY <1>1, <1>3, FailsKeeps
  <1>4. CASE drv' \in DriverState /\ drv'.pc \notin {"down", "register"} /\ UNCHANGED <<disk, mem>>
    BY <1>1, <1>4, DriverKeeps DEF Leaves, MeterInv, TypeOK
  <1>5. CASE ProbeWait \/ LoopHead
    BY <1>2, <1>4, <1>5 DEF ProbeWait, LoopHead, DriverPlaces
  <1>6. CASE Confirm
    <2> DEFINE next == [drv EXCEPT !.pc = "post_claim", !.next = chain.pending]
    <2>1. next \in DriverState /\ next.pc = "post_claim"
      BY DEF MeterInv, TypeOK, DriverState, Places, DriverPlaces, Deal
    <2>2. QED
      BY <1>3, <1>4, <1>6, <2>1 DEF Confirm
  <1>7. QED
    BY <1>5, <1>6

\* prepare_probe writes its decision before the call.
LEMMA PrepareProbeKeeps ==
  ASSUME MeterInv, PrepareProbe
  PROVE  MeterInv'
  <1>1. Serving /\ mem.up /\ DriverFrame
    BY DriverServes DEF PrepareProbe, MeterInv, DriverPlaces
  <1>2. /\ mem.entry \in Record /\ delivery.count \in Nat /\ drv \in DriverState
        /\ Fits(mem.entry, chain, flight) /\ mem \in Entry
    BY <1>1 DEF MeterInv, TypeOK, Entry, Delivery, EntryOK
  <1>3. ASSUME NEW pc \in {"accept", "failed"}
        PROVE  [drv EXCEPT !.pc = pc] \in DriverState /\ [drv EXCEPT !.pc = pc].pc = pc
    BY <1>2 DEF DriverState, Places, DriverPlaces
  <1> DEFINE prefix == Lesser(delivery.count, TICK)
             rec == [mem.entry EXCEPT !.probeAt = prefix]
  <1>4. prefix \in Nat
    BY <1>2, Sizes DEF Lesser
  <1>5. /\ rec \in Record /\ rec.cap = mem.entry.cap /\ rec.anchor = mem.entry.anchor
        /\ rec.local = mem.entry.local /\ rec.outstanding = mem.entry.outstanding
        /\ rec.file = mem.entry.file
    BY <1>2, <1>4 DEF Record
  <1>6. CASE Fails
    BY <1>1, <1>6, FailsKeeps
  <1>7. CASE drv' = [drv EXCEPT !.pc = "accept"] /\ UNCHANGED <<disk, mem, faults>>
    BY <1>1, <1>2, <1>3, <1>7, DriverKeeps DEF Leaves
  <1>8. CASE \E o \in WriteOutcomes :
               /\ Written(o, rec)
               /\ IF o = "ok"
                  THEN mem' = [mem EXCEPT !.entry = rec] /\ drv' = [drv EXCEPT !.pc = "accept"]
                  ELSE mem' = Unregistered(mem) /\ drv' = [drv EXCEPT !.pc = "failed"]
    <2> HIDE DEF rec
    <2>1. Delivered(rec) = Delivered(mem.entry) /\ Fits(rec, chain, flight)
      BY <1>2, <1>5 DEF Delivered, Committed, Fits
    <2>2. drv' \in DriverState /\ drv'.pc \notin {"down", "register"}
      BY <1>3, <1>8
    <2>3. QED
      BY <1>1, <1>5, <1>8, <2>1, <2>2, RefreshKeeps
  <1>9. QED
    BY <1>6, <1>7, <1>8 DEF PrepareProbe

LEMMA ClosedKeeps ==
  ASSUME MeterInv, DriverSeesClose
  PROVE  MeterInv'
  BY EndsKeeps DEF DriverSeesClose, ClosedAt, DriverFrame

\* The keeper's observer.
LEMMA KeeperKeeps ==
  ASSUME MeterInv, KeeperObserves
  PROVE  MeterInv'
  <1>1. Serving /\ mem.up /\ DriverFrame
    BY DEF KeeperObserves, Serving
  <1>2. /\ mem.entry \in Record /\ drv \in DriverState /\ chain \in Deal /\ DealOK(chain)
        /\ Fits(mem.entry, chain, flight) /\ drv.pc \notin {"down", "register"}
    BY <1>1 DEF MeterInv, TypeOK, Entry, EntryOK, Unborn, KeeperObserves
  <1>3. CASE chain.st = "gone" /\ Ends
    BY <1>1, <1>3, EndsKeeps
  <1>4. CASE Fails
    BY <1>1, <1>4, FailsKeeps
  <1> DEFINE rec == Reconciled(mem.entry, chain)
  <1>5. CASE \E o \in WriteOutcomes :
               /\ Written(o, rec)
               /\ IF o = "ok" THEN mem' = [mem EXCEPT !.entry = rec] /\ UNCHANGED drv
                  ELSE mem' = Unregistered(mem) /\ drv' = [drv EXCEPT !.pc = "failed"]
    <2>1. /\ rec \in Record /\ Fits(rec, chain, flight) /\ Delivered(rec) = Delivered(mem.entry)
          /\ rec.outstanding = mem.entry.outstanding
      BY <1>2, ReconciledFits
    <2> HIDE DEF rec
    <2>2. [drv EXCEPT !.pc = "failed"] \in DriverState /\ [drv EXCEPT !.pc = "failed"].pc = "failed"
      BY <1>2 DEF DriverState, Places
    <2>3. drv' \in DriverState /\ drv'.pc \notin {"down", "register"}
      BY <1>2, <1>5, <2>2
    <2>4. QED
      BY <1>1, <1>5, <2>1, <2>3, RefreshKeeps
  <1>6. QED
    BY <1>3, <1>4, <1>5 DEF KeeperObserves
-----------------------------------------------------------------------------
(***************************************************************************)
(* Steps of the deal.                                                      *)
(***************************************************************************)
\* How the deal may change under the seller.
Later(c, d) ==
  /\ d \in Deal /\ DealOK(d)
  /\ d.sub = c.sub /\ c.pending <= d.pending
  /\ c.st = "gone" => d.st = "gone"
  /\ TermEnded(c) => TermEnded(d)
  /\ TermEnded(d) \/ AuthoritativeCap(c) <= AuthoritativeCap(d)

\* A cumulative the seller may ask for: its file and its entry account for it,
\* and it exhausts an ordinary purchase only when nobody is served.
Claimed(n) ==
  /\ n \in Nat /\ disk.file /\ n <= Greater(TICK, Delivered(disk))
  /\ Serving => n <= Greater(TICK, Delivered(mem.entry))
  /\ ~chain.sub /\ n >= Funded => \A r \in Requests : req[r].st # "open"

LEMMA InFlightClaimed ==
  ASSUME MeterInv, chain.st # "gone", NEW n \in flight
  PROVE  Claimed(n)
  BY DEF MeterInv, Claimed, FileOK, EntryOK, Fits, Exhausting, TypeOK

LEMMA ChainKeeps ==
  ASSUME MeterInv, UNCHANGED <<disk, delivery, req, served>>, Later(chain, chain'),
         chain'.pending = chain.pending \/ Claimed(chain'.pending),
         \A x \in flight' : x \in flight \/ Claimed(x),
         chain'.probe = chain.probe \/ disk.file,
         mem' \in Entry, mem'.entry = mem.entry, mem'.up = mem.up, mem'.active = mem.active,
         mem'.terminal = mem.terminal, mem'.reg => mem.reg,
         \/ UNCHANGED <<drv, mem>>
         \/ /\ drv' \in DriverState /\ drv'.pc \notin {"down", "register"} /\ mem.up
            /\ drv'.pc \in DriverPlaces => Serving
  PROVE  MeterInv'
  <1>1. TypeOK'
    BY DEF MeterInv, TypeOK, Later, Claimed
  <1>2. DealOK(chain')
    BY DEF Later
  <1>3. Serving' => Serving
    BY DEF Serving
  <1>4. ASSUME NEW rec \in Record, Fits(rec, chain, flight),
               \A n \in Nat : Claimed(n) => n <= Greater(TICK, Delivered(rec))
        PROVE  Fits(rec, chain', flight')
    <2>1. /\ rec.anchor \in Nat /\ rec.cap \in Nat /\ chain.pending \in Nat /\ chain'.pending \in Nat
          /\ AuthoritativeCap(chain) \in Nat /\ AuthoritativeCap(chain') \in Nat
      BY CapBounds, <1>1, <1>2 DEF Record, MeterInv, TypeOK, Deal
    <2>2. rec.anchor <= chain'.pending
      BY <1>4, <2>1 DEF Fits, Later
    <2>3. TermEnded(chain') \/ rec.cap <= AuthoritativeCap(chain')
      BY <1>4, <2>1 DEF Fits, Later
    <2>4. chain'.pending <= Greater(TICK, Delivered(rec))
      BY <1>4, <2>1 DEF Fits
    <2>5. \A x \in flight' : x <= Greater(TICK, Delivered(rec))
      BY <1>4, <1>1 DEF Fits, TypeOK
    <2>6. QED
      BY <1>4, <2>2, <2>3, <2>4, <2>5 DEF Fits
  <1>5. FileOK'
    <2>1. CASE disk.file
      BY <1>4, <2>1 DEF FileOK, MeterInv, TypeOK, Claimed
    <2>2. CASE ~disk.file
      BY <2>2 DEF FileOK, MeterInv, Claimed, Later
    <2>3. QED
      BY <2>1, <2>2
  <1>6. EntryOK'
    <2> SUFFICES ASSUME Serving'
                 PROVE  /\ Fits(mem.entry, chain', flight')
                        /\ disk.file /\ Delivered(mem.entry) <= Delivered(disk)
                        /\ delivery.count + Held <= Delivered(mem.entry)
                        /\ \A r \in Requests :
                             Exclusive(r) => mem.entry.outstanding = req[r].grant /\ req[r].grant > 0
      BY DEF EntryOK, Held, Exclusive
    <2>1. mem.entry \in Record /\ Fits(mem.entry, chain, flight)
      BY <1>3 DEF MeterInv, EntryOK, TypeOK, Entry
    <2>2. Fits(mem.entry, chain', flight')
      BY <1>3, <1>4, <2>1 DEF Claimed
    <2>3. QED
      BY <1>3, <2>2 DEF MeterInv, EntryOK
  <1>7. Slots'
    <2>1. Sharing' = Sharing /\ \A r \in Requests : Exclusive(r)' <=> Exclusive(r)
      BY DEF Sharing, Exclusive
    <2>2. QED
      BY <2>1 DEF MeterInv, Slots
  <1>8. Unborn'
    BY DEF MeterInv, Unborn
  <1>9. Exhausting'
    BY <1>1 DEF MeterInv, Exhausting, Claimed, Later, TypeOK
  <1>10. ClaimsBacked'
    <2>1. CASE chain'.pending = chain.pending
      BY <2>1 DEF MeterInv, ClaimsBacked
    <2>2. CASE Claimed(chain'.pending)
      <3>1. Delivered(disk) <= served /\ Delivered(disk) \in Nat /\ served \in Nat
        BY <2>2 DEF Claimed, MeterInv, FileOK, TypeOK, Record, Delivered
      <3>2. QED
        BY <2>2, <3>1, Sizes DEF Claimed, ClaimsBacked, Greater
    <2>3. QED
      BY <2>1, <2>2
  <1>11. QED
    BY <1>1, <1>2, <1>5, <1>6, <1>7, <1>8, <1>9, <1>10 DEF MeterInv

\* The deal changes its state, its promoted claims or its week.
LEMMA LaterState ==
  ASSUME NEW c \in Deal, DealOK(c), NEW d \in Deal, d.sub = c.sub, d.probe = c.probe,
         d.pending = c.pending, d.base = c.base, d.week = c.week, d.final \in {c.final, c.pending},
         c.st = "gone" => d.st = "gone"
  PROVE  Later(c, d)
  <1>1. AuthoritativeCap(d) = AuthoritativeCap(c) /\ (TermEnded(d) <=> TermEnded(c))
    BY DEF AuthoritativeCap, TermEnded
  <1>2. AuthoritativeCap(c) \in Nat
    BY CapBounds
  <1>3. QED
    BY <1>1, <1>2 DEF Later, DealOK, Deal

LEMMA LaterWeek ==
  ASSUME NEW c \in Deal, DealOK(c), c.sub, c.probe, c.week < SubWeeks,
         NEW d \in Deal, d.sub = c.sub, d.probe = c.probe, d.pending = c.pending,
         d.base = Greater(c.final, c.pending), d.week = c.week + 1, d.final = c.final, d.st = c.st
  PROVE  Later(c, d)
  <1>1. /\ c.pending \in Nat /\ c.final \in Nat /\ c.base \in Nat /\ c.week \in Nat
        /\ SubWeeks \in Nat /\ TokensPerWeek \in Nat
    BY MeterAssumption DEF Deal
  <1>2. d.base = c.pending /\ ~TermEnded(c)
    BY <1>1 DEF DealOK, Greater, TermEnded
  <1>3. /\ AuthoritativeCap(c) = Lesser(c.base + TokensPerWeek, Funded)
        /\ AuthoritativeCap(d) = IF TermEnded(d) THEN c.pending ELSE Lesser(c.pending + TokensPerWeek, Funded)
    BY <1>1, <1>2 DEF AuthoritativeCap, TermEnded
  <1>4. DealOK(d)
    BY <1>1, <1>2, <1>3, Sizes DEF DealOK, Lesser
  <1>5. TermEnded(d) \/ AuthoritativeCap(c) <= AuthoritativeCap(d)
    BY <1>1, <1>3, Sizes DEF DealOK, Lesser
  <1>6. QED
    BY <1>1, <1>2, <1>4, <1>5 DEF Later

\* A claim lands.
LEMMA LaterClaim ==
  ASSUME NEW c \in Deal, DealOK(c), NEW n \in Nat, Claimable(c, n)
  PROVE  LET d == ClaimLands(c, n) IN Later(c, d) /\ d.pending = n /\ d.probe = c.probe
  <1> DEFINE d == ClaimLands(c, n)
  <1>1. c.pending \in Nat /\ c.final \in Nat /\ c.base \in Nat /\ c.probe /\ c.st = "open"
    BY DEF Deal, Claimable
  <1>2. /\ d \in Deal /\ d.sub = c.sub /\ d.probe = c.probe /\ d.pending = n /\ d.final = c.pending
        /\ d.base = c.base /\ d.week = c.week /\ d.st = c.st
    BY DEF ClaimLands, Deal
  <1> HIDE DEF d
  <1>3. ~TermEnded(c)
    BY <1>1 DEF Claimable, ClaimCap, TermEnded
  <1>4. ~TermEnded(d) /\ AuthoritativeCap(d) = AuthoritativeCap(c) /\ ClaimCap(c) = AuthoritativeCap(c)
    BY <1>1, <1>2, <1>3 DEF TermEnded, AuthoritativeCap, ClaimCap
  <1>5. AuthoritativeCap(c) \in Nat /\ AuthoritativeCap(c) <= Funded
    BY CapBounds
  <1>6. DealOK(d)
    BY <1>1, <1>2, <1>4, <1>5, Sizes DEF DealOK, Claimable
  <1>7. QED
    BY <1>1, <1>2, <1>3, <1>4, <1>5, <1>6 DEF Later, Claimable, d

\* The probe is accepted: the trial tick is paid.
LEMMA LaterProbe ==
  ASSUME NEW c \in Deal, DealOK(c), c.st = "open", ~c.probe
  PROVE  LET d == [c EXCEPT !.probe = TRUE, !.pending = TICK, !.final = TICK]
         IN  Later(c, d) /\ d.pending = TICK
  <1> DEFINE d == [c EXCEPT !.probe = TRUE, !.pending = TICK, !.final = TICK]
  <1>1. /\ c.pending = 0 /\ c.base = 0 /\ c.sub \in BOOLEAN /\ TokensPerWeek \in Nat
        /\ TokensPerWeek >= TICK
    BY MeterAssumption DEF Deal, DealOK
  <1>2. /\ d \in Deal /\ d.sub = c.sub /\ d.probe = TRUE /\ d.pending = TICK /\ d.final = TICK
        /\ d.base = c.base /\ d.week = c.week /\ d.st = c.st
    BY Sizes DEF Deal
  <1> HIDE DEF d
  <1>3. TermEnded(d) <=> TermEnded(c)
    BY <1>2 DEF TermEnded
  <1>4. /\ TermEnded(d) => AuthoritativeCap(d) = TICK
        /\ ~TermEnded(d) => /\ AuthoritativeCap(c) = Lesser(TICK, Funded)
                            /\ AuthoritativeCap(d) = IF d.sub THEN Lesser(TokensPerWeek, Funded) ELSE Funded
    BY <1>1, <1>2, <1>3 DEF TermEnded, AuthoritativeCap
  <1>5. DealOK(d)
    BY <1>1, <1>2, <1>4, Sizes DEF DealOK, Lesser
  <1>6. QED
    BY <1>1, <1>2, <1>3, <1>4, <1>5, Sizes DEF Later, Lesser, d

LEMMA DealStepKeeps ==
  ASSUME MeterInv, ChainFinalize \/ ChainSettleWeek \/ BuyerStops \/ BuyerDisputes
  PROVE  MeterInv'
  <1>1. chain \in Deal /\ DealOK(chain) /\ mem \in Entry
    BY DEF MeterInv, TypeOK
  <1>2. UNCHANGED <<disk, mem, delivery, req, drv, flight, served>>
    BY DEF ChainFinalize, ChainSettleWeek, BuyerStops, BuyerDisputes
  <1>3. ASSUME Later(chain, chain'), chain'.pending = chain.pending, chain'.probe = chain.probe
        PROVE  MeterInv'
    BY <1>1, <1>2, <1>3, ChainKeeps
  <1>4. CASE /\ chain' \in Deal /\ chain'.sub = chain.sub /\ chain'.probe = chain.probe
             /\ chain'.pending = chain.pending /\ chain'.base = chain.base
             /\ chain'.week = chain.week /\ chain'.final \in {chain.final, chain.pending}
             /\ (chain.st = "gone" => chain'.st = "gone")
    BY <1>1, <1>3, <1>4, LaterState
  <1>5. CASE ChainFinalize
    BY <1>1, <1>4, <1>5 DEF ChainFinalize, Live, Deal
  <1>6. CASE BuyerStops \/ BuyerDisputes
    BY <1>1, <1>4, <1>6 DEF BuyerStops, BuyerDisputes, Live, Deal
  <1>7. CASE ChainSettleWeek /\ chain.week < SubWeeks
    <2>1. /\ chain' \in Deal /\ chain'.sub = chain.sub /\ chain'.probe = chain.probe
          /\ chain'.pending = chain.pending /\ chain'.base = Greater(chain.final, chain.pending)
          /\ chain'.week = chain.week + 1 /\ chain'.final = chain.final /\ chain'.st = chain.st
          /\ chain.sub /\ chain.probe
      <3> DEFINE base == Greater(chain.final, chain.pending)
                 week == chain.week + 1
      <3>1. base \in Nat /\ week \in Nat
        BY <1>1 DEF Deal, Greater
      <3>2. chain' = [chain EXCEPT !.week = week, !.base = base] /\ chain.sub /\ chain.probe
        BY <1>7 DEF ChainSettleWeek
      <3> HIDE DEF base, week
      <3>3. /\ chain' \in Deal /\ chain'.sub = chain.sub /\ chain'.probe = chain.probe
            /\ chain'.pending = chain.pending /\ chain'.base = base
            /\ chain'.week = week /\ chain'.final = chain.final /\ chain'.st = chain.st
        BY <1>1, <3>1, <3>2 DEF Deal
      <3>4. QED
        BY <3>2, <3>3 DEF base, week
    <2>2. QED
      BY <1>1, <1>3, <1>7, <2>1, LaterWeek
  <1>8. CASE ChainSettleWeek /\ ~(chain.week < SubWeeks)
    BY <1>1, <1>4, <1>8 DEF ChainSettleWeek, Live, Deal
  <1>9. QED
    BY <1>5, <1>6, <1>7, <1>8

\* A claim the driver gave up on lands late.
LEMMA LateClaimKeeps ==
  ASSUME MeterInv, NEW n \in flight, LateClaim(n)
  PROVE  MeterInv'
  <1>1. chain \in Deal /\ DealOK(chain) /\ mem \in Entry /\ n \in Nat
    BY DEF MeterInv, TypeOK
  <1>2. UNCHANGED <<disk, mem, delivery, req, drv, served>> /\ flight' \subseteq flight
    BY DEF LateClaim
  <1>3. CASE Claimable(chain, n)
    <2>1. chain' = ClaimLands(chain, n) /\ chain.st # "gone"
      BY <1>3 DEF LateClaim, Claimable
    <2>2. Later(chain, chain') /\ chain'.pending = n /\ chain'.probe = chain.probe
      BY <1>1, <1>3, <2>1, LaterClaim
    <2>3. Claimed(n)
      BY <2>1, InFlightClaimed
    <2>4. QED
      BY <1>1, <1>2, <2>2, <2>3, ChainKeeps
  <1>4. CASE ~Claimable(chain, n)
    <2>1. chain' = chain
      BY <1>4 DEF LateClaim
    <2>2. Later(chain, chain')
      BY <1>1, <2>1, LaterState
    <2>3. QED
      BY <1>1, <1>2, <2>1, <2>2, ChainKeeps
  <1>5. QED
    BY <1>3, <1>4

LEMMA AcceptProbeKeeps ==
  ASSUME MeterInv, AcceptProbe
  PROVE  MeterInv'
  <1>1. Serving /\ mem.up
    BY DriverServes DEF AcceptProbe, MeterInv, DriverPlaces
  <1>2. chain \in Deal /\ DealOK(chain) /\ mem \in Entry /\ drv \in DriverState /\ disk.file
    BY <1>1 DEF MeterInv, TypeOK, EntryOK
  <1>3. /\ UNCHANGED <<disk, mem, delivery, req, flight, served>>
        /\ drv' \in DriverState /\ drv'.pc = "accepted"
    BY <1>2 DEF AcceptProbe, DriverState, Places, DriverPlaces
  <1>4. CASE Live /\ ~chain.probe
             /\ chain' = [chain EXCEPT !.probe = TRUE, !.pending = TICK, !.final = TICK]
    <2>1. Later(chain, chain') /\ chain'.pending = TICK
      BY <1>2, <1>4, LaterProbe DEF Live
    <2>2. Claimed(TICK)
      <3>1. Delivered(disk) \in Nat /\ Delivered(mem.entry) \in Nat
        BY <1>2 DEF MeterInv, TypeOK, Record, Entry, Delivered
      <3>2. QED
        BY <1>2, <3>1, Sizes DEF Claimed, Greater
    <2>3. QED
      BY <1>1, <1>2, <1>3, <2>1, <2>2, ChainKeeps
  <1>5. CASE UNCHANGED chain
    <2>1. Later(chain, chain')
      BY <1>2, <1>5, LaterState
    <2>2. QED
      BY <1>1, <1>2, <1>3, <1>5, <2>1, ChainKeeps
  <1>6. QED
    BY <1>4, <1>5 DEF AcceptProbe

\* What the driver asks for is accounted for.
LEMMA NextClaimed ==
  ASSUME MeterInv, Driver("claim"), NEW next \in Nat, next <= ClaimTarget(delivery.count),
         ~HoldsBack(next)
  PROVE  Claimed(next)
  <1>1. Serving
    BY DriverServes DEF MeterInv, DriverPlaces
  <1> DEFINE rec == mem.entry
  <1>2. /\ rec.cap \in Nat /\ rec.anchor \in Nat /\ rec.local \in Nat /\ rec.outstanding \in Nat
        /\ Delivered(disk) \in Nat /\ delivery.count \in Nat /\ Held \in Nat
    BY DEF MeterInv, TypeOK, Record, Entry, Delivered, Delivery, Held, Stream
  <1>3. /\ Fits(rec, chain, flight) /\ disk.file /\ Delivered(rec) <= Delivered(disk)
        /\ delivery.count + Held <= Delivered(rec)
    BY <1>1 DEF MeterInv, EntryOK
  <1>4. Delivered(rec) = rec.anchor + rec.local /\ Committed(rec) = rec.anchor + rec.local + rec.outstanding
    BY DEF Delivered, Committed
  <1>5. Committed(rec) <= rec.cap /\ rec.cap <= Funded
    BY <1>3 DEF Fits
  <1> HIDE DEF rec
  <1>6. next <= Greater(TICK, Delivered(rec)) /\ next <= Greater(TICK, Delivered(disk)) /\ next <= Funded
    BY <1>2, <1>3, <1>4, Sizes DEF ClaimTarget, Lesser, Greater
  <1>7. ASSUME next >= Funded, NEW r \in Requests, req[r].st = "open"
        PROVE  FALSE
    <2>1. next = Funded /\ rec.outstanding = 0
      BY <1>2, <1>3, <1>4, <1>5, <1>6, <1>7, Sizes DEF Greater
    <2>2. mem.active = 0
      BY <2>1 DEF HoldsBack, MeterInv, TypeOK, Entry
    <2>3. Sharing = {}
      BY <2>2, FS_EmptySet DEF MeterInv, Slots
    <2>4. Exclusive(r)
      BY <1>7, <2>3 DEF Sharing, Exclusive
    <2>5. req[r].grant > 0 /\ rec.outstanding = req[r].grant
      BY <1>1, <2>4 DEF MeterInv, EntryOK, rec
    <2>6. QED
      BY <2>1, <2>5
  <1>8. QED
    BY <1>3, <1>6, <1>7 DEF Claimed, rec

LEMMA ClaimKeeps ==
  ASSUME MeterInv, Claim
  PROVE  MeterInv'
  <1>1. Serving /\ mem.up /\ Driver("claim")
    BY DriverServes DEF Claim, MeterInv, DriverPlaces
  <1>2. /\ chain \in Deal /\ DealOK(chain) /\ mem \in Entry /\ drv \in DriverState /\ disk.file
        /\ delivery.count \in Nat /\ drv.claimed \in Nat
    BY <1>1 DEF MeterInv, TypeOK, EntryOK, Delivery, DriverState
  <1> DEFINE target == ClaimTarget(delivery.count)
             next == Lesser(target, drv.claimed + Allowance)
             sent == [drv EXCEPT !.pc = "confirm", !.target = target, !.next = next]
  <1>3. UNCHANGED <<disk, delivery, req, served>>
    BY DEF Claim
  <1>4. target \in Nat /\ next \in Nat /\ next <= target
    <2>1. target \in Nat
      BY <1>2, Sizes DEF ClaimTarget, Lesser, Greater
    <2>2. Allowance \in Nat
      BY MeterAssumption
    <2> HIDE DEF target
    <2>3. QED
      BY <1>2, <2>1, <2>2 DEF Lesser
  <1>5. sent \in DriverState /\ sent.pc = "confirm"
    BY <1>2, <1>4 DEF DriverState, Places, DriverPlaces
  <1>6. ASSUME NEW pc \in {"loop", "failed"}
        PROVE  [drv EXCEPT !.pc = pc] \in DriverState /\ [drv EXCEPT !.pc = pc].pc = pc
    BY <1>2 DEF DriverState, Places, DriverPlaces
  <1>7. Unregistered(mem) \in Entry /\ Unregistered(mem).entry = mem.entry
        /\ Unregistered(mem).up = mem.up /\ Unregistered(mem).active = mem.active
        /\ Unregistered(mem).terminal = mem.terminal /\ ~Unregistered(mem).reg
    BY <1>2 DEF Unregistered, Entry
  <1>8. Later(chain, chain)
    BY <1>2, LaterState
  <1>9. CASE next <= drv.claimed \/ HoldsBack(next)
    <2>1. UNCHANGED <<chain, mem, flight>> /\ drv' = [drv EXCEPT !.pc = "loop"]
      BY <1>9 DEF Claim
    <2>2. QED
      BY <1>1, <1>2, <1>3, <1>6, <1>8, <2>1, ChainKeeps
  <1>10. CASE ~(next <= drv.claimed \/ HoldsBack(next))
    <2>1. Claimed(next)
      BY <1>1, <1>4, <1>10, NextClaimed
    <2> HIDE DEF target, next, sent
    <2>2. CASE drv' = sent /\ UNCHANGED <<chain, mem, flight>>
      BY <1>1, <1>2, <1>3, <1>5, <1>8, <2>2, ChainKeeps
    <2>3. CASE Claimable(chain, next) /\ chain' = ClaimLands(chain, next) /\ drv' = sent
               /\ UNCHANGED <<mem, flight>>
      <3>1. Later(chain, chain') /\ chain'.pending = next /\ chain'.probe = chain.probe
        BY <1>2, <1>4, <2>3, LaterClaim
      <3>2. QED
        BY <1>1, <1>2, <1>3, <1>5, <2>1, <2>3, <3>1, ChainKeeps
    <2>4. CASE drv' = sent /\ flight' \in {flight, flight \cup {next}} /\ UNCHANGED <<chain, mem>>
      BY <1>1, <1>2, <1>3, <1>5, <1>8, <2>1, <2>4, ChainKeeps
    <2>5. CASE drv' = [drv EXCEPT !.pc = "failed"] /\ mem' = Unregistered(mem) /\ UNCHANGED <<chain, flight>>
      BY <1>1, <1>3, <1>6, <1>7, <1>8, <2>5, ChainKeeps DEF DriverPlaces
    <2>6. QED
      BY <1>10, <2>2, <2>3, <2>4, <2>5 DEF Claim, target, next, sent
  <1>11. QED
    BY <1>9, <1>10

\* The seller closes a deal whose billing ran out.
LEMMA CloseKeeps ==
  ASSUME MeterInv, mem.up, Ends, chain' = [chain EXCEPT !.st = "gone"],
         UNCHANGED <<delivery, req, flight, served>>
  PROVE  MeterInv'
  <1>1. chain \in Deal /\ DealOK(chain) /\ mem \in Entry /\ drv \in DriverState
    BY DEF MeterInv, TypeOK
  <1>2. /\ chain' \in Deal /\ chain'.st = "gone" /\ chain'.sub = chain.sub /\ chain'.probe = chain.probe
        /\ chain'.pending = chain.pending /\ chain'.final = chain.final /\ chain'.base = chain.base
        /\ chain'.week = chain.week
    BY <1>1 DEF Deal
  <1>3. Later(chain, chain')
    BY <1>1, <1>2, LaterState
  <1>4. drv' \in DriverState /\ drv'.pc = "ended"
    BY <1>1 DEF Ends, DriverState, Places
  <1>5. NoFile \in Record /\ ~NoFile.file
    BY DEF NoFile, Record
  <1>6. /\ mem' \in Entry /\ mem'.up = mem.up /\ mem'.active = mem.active /\ ~mem'.reg
        /\ mem'.terminal
    BY <1>1, <1>5 DEF Ends, Unregistered, Entry
  <1>7. TypeOK'
    BY <1>2, <1>4, <1>5, <1>6 DEF MeterInv, TypeOK, Ends
  <1>8. FileOK' /\ EntryOK' /\ Unborn'
    BY <1>2, <1>4, <1>5, <1>6 DEF FileOK, EntryOK, Serving, Unborn, Ends
  <1>9. Slots'
    <2>1. Sharing' = Sharing /\ \A r \in Requests : Exclusive(r)' <=> Exclusive(r)
      BY DEF Sharing, Exclusive
    <2>2. QED
      BY <1>6, <2>1 DEF MeterInv, Slots
  <1>10. Exhausting' /\ ClaimsBacked'
    BY <1>2 DEF MeterInv, Exhausting, ClaimsBacked
  <1>11. QED
    BY <1>3, <1>7, <1>8, <1>9, <1>10 DEF MeterInv, Later

LEMMA FinishDealKeeps ==
  ASSUME MeterInv, FinishDeal
  PROVE  MeterInv'
  <1>1. Serving /\ mem.up
    BY DriverServes DEF FinishDeal, MeterInv, DriverPlaces
  <1>2. /\ chain \in Deal /\ DealOK(chain) /\ mem \in Entry /\ drv \in DriverState
        /\ UNCHANGED <<delivery, req, flight, served, crashes, admitted>>
    BY DEF MeterInv, TypeOK, FinishDeal
  <1>3. ASSUME NEW pc \in {"keeping", "ended"}
        PROVE  [drv EXCEPT !.pc = pc] \in DriverState /\ [drv EXCEPT !.pc = pc].pc = pc
    BY <1>2 DEF DriverState, Places
  <1>4. CASE drv' = [drv EXCEPT !.pc = "keeping"] /\ UNCHANGED <<chain, mem, disk, faults>>
    BY <1>1, <1>2, <1>3, <1>4, DriverKeeps DEF Leaves, DriverFrame, DriverPlaces
  <1>5. CASE /\ Live /\ UNCHANGED <<drv, mem, disk, faults>>
             /\ chain' = [chain EXCEPT !.final = chain.pending,
                            !.st = IF chain.pending >= Funded THEN "gone" ELSE @]
    <2>1. /\ chain' \in Deal /\ chain'.sub = chain.sub /\ chain'.probe = chain.probe
          /\ chain'.pending = chain.pending /\ chain'.base = chain.base /\ chain'.week = chain.week
          /\ chain'.final = chain.pending /\ chain.st # "gone"
      BY <1>2, <1>5 DEF Deal, Live
    <2>2. Later(chain, chain')
      BY <1>2, <2>1, LaterState
    <2>3. QED
      BY <1>2, <1>5, <2>1, <2>2, ChainKeeps
  <1>6. CASE Fails /\ UNCHANGED chain
    BY <1>1, <1>2, <1>6, FailsKeeps DEF DriverFrame
  <1>7. CASE Ends /\ chain' = [chain EXCEPT !.st = "gone"]
    BY <1>1, <1>2, <1>7, CloseKeeps
  <1>8. CASE drv' = [drv EXCEPT !.pc = "ended"] /\ mem' = Unregistered(mem)
             /\ UNCHANGED <<chain, disk, faults>>
    <2>1. /\ mem' \in Entry /\ mem'.up = mem.up /\ mem'.active = mem.active /\ ~mem'.reg
          /\ mem'.terminal = mem.terminal /\ mem'.entry = mem.entry
      BY <1>2, <1>8 DEF Unregistered, Entry
    <2>2. QED
      BY <1>1, <1>2, <1>3, <1>8, <2>1, DriverKeeps DEF Leaves, DriverFrame, DriverPlaces
  <1>9. QED
    BY <1>4, <1>5, <1>6, <1>7, <1>8 DEF FinishDeal
-----------------------------------------------------------------------------
(***************************************************************************)
(* The life of the process.                                                *)
(***************************************************************************)
LEMMA CrashKeeps ==
  ASSUME MeterInv, Crash
  PROVE  MeterInv'
  <1>1. UNCHANGED <<chain, disk, flight, served>>
    BY DEF Crash
  <1>2. NoFile \in Record /\ NoRequest \in Stream /\ NoRequest.st = "idle"
    BY DEF NoFile, Record, NoRequest, Stream
  <1>3. /\ mem' \in Entry /\ ~mem'.up /\ ~mem'.reg /\ ~mem'.terminal /\ mem'.active = 0
        /\ delivery' \in Delivery /\ delivery'.lock = NoHolder
        /\ drv' \in DriverState /\ drv'.pc = "down"
    BY <1>2 DEF Crash, Entry, Delivery, DriverState, Places
  <1>4. req' \in [Requests -> Stream] /\ \A r \in Requests : req'[r].st = "idle"
    BY <1>2 DEF Crash
  <1>5. TypeOK'
    BY <1>1, <1>3, <1>4 DEF MeterInv, TypeOK
  <1>6. ~Serving'
    BY <1>3, <1>4 DEF Serving, DriverPlaces
  <1>7. Slots'
    <2>1. Sharing' = {}
      BY <1>4 DEF Sharing
    <2>2. QED
      BY <1>3, <1>4, <2>1, FS_EmptySet DEF Slots, Exclusive
  <1>8. FileOK' /\ EntryOK' /\ Unborn' /\ Exhausting'
    BY <1>1, <1>3, <1>4, <1>6 DEF MeterInv, FileOK, Fits, Delivered, Committed, TermEnded,
       AuthoritativeCap, EntryOK, Unborn, Exhausting
  <1>9. QED
    BY <1>1, <1>5, <1>7, <1>8 DEF MeterInv, DealOK, AuthoritativeCap, ClaimsBacked

LEMMA BootKeeps ==
  ASSUME MeterInv, Boot
  PROVE  MeterInv'
  <1>1. UNCHANGED <<chain, disk, delivery, req, flight, served>> /\ drv.pc = "down"
    BY DEF Boot, MeterInv, Unborn
  <1>2. /\ mem' \in Entry /\ mem'.up /\ mem'.reg = mem.reg /\ mem'.terminal = mem.terminal
        /\ mem'.active = mem.active /\ drv' \in DriverState /\ drv'.pc = "register"
    BY DEF Boot, MeterInv, TypeOK, Entry, DriverState, Places
  <1>3. TypeOK'
    BY <1>1, <1>2 DEF MeterInv, TypeOK
  <1>4. ~Serving'
    BY <1>1, <1>2 DEF MeterInv, Unborn, Serving, DriverPlaces
  <1>5. Slots'
    <2>1. Sharing' = Sharing /\ \A r \in Requests : Exclusive(r)' <=> Exclusive(r)
      BY <1>1 DEF Sharing, Exclusive
    <2>2. QED
      BY <1>2, <2>1 DEF MeterInv, Slots
  <1>6. FileOK' /\ EntryOK' /\ Unborn' /\ Exhausting'
    BY <1>1, <1>2, <1>4 DEF MeterInv, FileOK, Fits, Delivered, Committed, TermEnded,
       AuthoritativeCap, EntryOK, Unborn, Exhausting
  <1>7. QED
    BY <1>1, <1>3, <1>5, <1>6 DEF MeterInv, DealOK, AuthoritativeCap, ClaimsBacked

\* A registration that does not succeed serves nothing.
LEMMA RegisterFails ==
  ASSUME MeterInv, drv.pc = "register", UNCHANGED <<chain, delivery, req, flight, served>>,
         drv' \in DriverState, drv'.pc \in {"ended", "failed"},
         mem' \in Entry, ~mem'.reg, mem'.active = mem.active, mem'.up = mem.up,
         disk' \in Record, FileOK'
  PROVE  MeterInv'
  <1>1. TypeOK'
    BY DEF MeterInv, TypeOK
  <1>2. ~Serving'
    BY DEF MeterInv, Unborn, Serving, DriverPlaces
  <1>3. Slots'
    <2>1. Sharing' = Sharing /\ \A r \in Requests : Exclusive(r)' <=> Exclusive(r)
      BY DEF Sharing, Exclusive
    <2>2. QED
      BY <2>1 DEF MeterInv, Slots
  <1>4. EntryOK' /\ Unborn' /\ Exhausting'
    BY <1>2 DEF MeterInv, EntryOK, Unborn, Exhausting
  <1>5. QED
    BY <1>1, <1>3, <1>4 DEF MeterInv, DealOK, AuthoritativeCap, ClaimsBacked

LEMMA RegisterKeeps ==
  ASSUME MeterInv, Register
  PROVE  MeterInv'
  <1>1. /\ UNCHANGED <<chain, req, flight, served>> /\ drv.pc = "register"
        /\ chain \in Deal /\ DealOK(chain) /\ mem \in Entry /\ drv \in DriverState
        /\ delivery \in Delivery /\ disk \in Record /\ NoFile \in Record /\ ~NoFile.file
    BY DEF Register, MeterInv, TypeOK, NoFile, Record
  <1>2. ~mem.reg /\ ~mem.terminal /\ delivery.lock = NoHolder /\ \A r \in Requests : req[r].st = "idle"
    BY <1>1 DEF MeterInv, Unborn
  <1>3. mem.up
    BY <1>1 DEF MeterInv, Unborn
  <1>4. ASSUME NEW pc \in {"ended", "failed", "start"}
        PROVE  [drv EXCEPT !.pc = pc] \in DriverState /\ [drv EXCEPT !.pc = pc].pc = pc
    BY <1>1 DEF DriverState, Places, DriverPlaces
  <1> DEFINE old == Baseline(disk, chain)
             rec == Reconciled(old, chain)
  <1>5. CASE chain.st = "gone" /\ Terminal /\ drv' = [drv EXCEPT !.pc = "ended"] /\ UNCHANGED delivery
    <2>1. mem' \in Entry /\ mem'.reg = mem.reg /\ mem'.active = mem.active /\ mem'.up = mem.up
      BY <1>1, <1>5 DEF Terminal, Entry
    <2>2. disk' = NoFile /\ FileOK'
      BY <1>1, <1>5 DEF Terminal, FileOK
    <2>3. QED
      BY <1>1, <1>2, <1>4, <1>5, <2>1, <2>2, RegisterFails
  <1>6. CASE drv' = [drv EXCEPT !.pc = "failed"] /\ UNCHANGED <<disk, mem, delivery>>
    <2>1. FileOK'
      BY <1>1, <1>6 DEF MeterInv, FileOK, Fits, Delivered, Committed, TermEnded, AuthoritativeCap
    <2>2. QED
      BY <1>1, <1>2, <1>4, <1>6, <2>1, RegisterFails
  <1>7. CASE /\ chain.st # "gone"
             /\ \E o \in WriteOutcomes :
                  /\ Written(o, rec)
                  /\ IF o = "ok"
                     THEN /\ mem' = [mem EXCEPT !.entry = rec, !.reg = TRUE]
                          /\ delivery' = [delivery EXCEPT !.count = Delivered(rec)]
                          /\ drv' = [drv EXCEPT !.pc = "start"]
                     ELSE /\ mem' = [mem EXCEPT !.entry = old]
                          /\ drv' = [drv EXCEPT !.pc = "failed"]
                          /\ UNCHANGED delivery
    <2>1. /\ old \in Record /\ Fits(old, chain, flight) /\ Delivered(old) <= served
      BY <1>7, BaselineFits DEF MeterInv
    <2> HIDE DEF old
    <2>2. /\ rec \in Record /\ Fits(rec, chain, flight) /\ Delivered(rec) = Delivered(old)
      BY <1>1, <2>1, ReconciledFits
    <2> HIDE DEF rec
    <2>3. PICK o \in WriteOutcomes :
                  /\ Written(o, rec)
                  /\ IF o = "ok"
                     THEN /\ mem' = [mem EXCEPT !.entry = rec, !.reg = TRUE]
                          /\ delivery' = [delivery EXCEPT !.count = Delivered(rec)]
                          /\ drv' = [drv EXCEPT !.pc = "start"]
                     ELSE /\ mem' = [mem EXCEPT !.entry = old]
                          /\ drv' = [drv EXCEPT !.pc = "failed"]
                          /\ UNCHANGED delivery
      BY <1>7
    <2>4. disk' \in {disk, rec} /\ (o = "ok" => disk' = rec) /\ rec.file
      BY <2>2, <2>3, WrittenIs DEF Fits
    <2>5. disk' \in Record /\ FileOK'
      <3>1. CASE disk' = disk
        BY <1>1, <3>1 DEF MeterInv, FileOK
      <3>2. CASE disk' = rec
        BY <1>1, <2>1, <2>2, <2>4, <3>2 DEF FileOK
      <3>3. QED
        BY <2>4, <3>1, <3>2
    <2>6. CASE o # "ok"
      <3>1. mem' \in Entry /\ mem'.reg = mem.reg /\ mem'.active = mem.active /\ mem'.up = mem.up
        BY <1>1, <2>1, <2>3, <2>6 DEF Entry
      <3>2. QED
        BY <1>1, <1>2, <1>4, <2>3, <2>5, <2>6, <3>1, RegisterFails
    <2>7. CASE o = "ok"
      <3>1. Delivered(rec) \in Nat
        BY <2>2 DEF Record, Delivered
      <3>2. /\ mem' \in Entry /\ mem'.active = mem.active /\ mem'.up = mem.up /\ mem'.entry = rec
            /\ mem'.terminal = mem.terminal
        BY <1>1, <2>2, <2>3, <2>7 DEF Entry
      <3>3. delivery' \in Delivery /\ delivery'.count = Delivered(rec) /\ delivery'.lock = NoHolder
        BY <1>1, <1>2, <2>3, <2>7, <3>1 DEF Delivery
      <3>4. drv' \in DriverState /\ drv'.pc = "start"
        BY <1>4, <2>3, <2>7
      <3>5. TypeOK'
        BY <1>1, <2>5, <3>2, <3>3, <3>4 DEF MeterInv, TypeOK
      <3>6. EntryOK'
        <4>1. Held' = 0
          BY <3>3, HolderAssumption DEF Held
        <4>2. \A r \in Requests : ~Exclusive(r)'
          BY <1>1, <1>2 DEF Exclusive
        <4>3. QED
          BY <1>1, <2>2, <2>4, <2>7, <3>1, <3>2, <3>3, <4>1, <4>2 DEF EntryOK
      <3>7. Slots'
        <4>1. Sharing' = Sharing /\ \A r \in Requests : Exclusive(r)' <=> Exclusive(r)
          BY <1>1 DEF Sharing, Exclusive
        <4>2. QED
          BY <3>2, <4>1 DEF MeterInv, Slots
      <3>8. Unborn' /\ Exhausting'
        BY <1>1, <1>3, <3>2, <3>4 DEF MeterInv, Unborn, Exhausting
      <3>9. QED
        BY <1>1, <2>5, <3>5, <3>6, <3>7, <3>8 DEF MeterInv, DealOK, AuthoritativeCap, ClaimsBacked
    <2>8. QED
      BY <2>6, <2>7
  <1>8. QED
    BY <1>5, <1>6, <1>7 DEF Register, WriteOutcomes
-----------------------------------------------------------------------------
(***************************************************************************)
(* The gateway: a step of one request.                                     *)
(***************************************************************************)
\* How the set of live slots changes with the request x of r.
IsSharing(x) == x.st \in {"open", "ambiguous"} /\ x.shared
IsExclusive(x) == x.st \in {"open", "ambiguous"} /\ ~x.shared

\* The entry, the file and the count after a step of request r that leaves it x.
Booked(r, x) ==
  /\ Fits(mem'.entry, chain, flight)
  /\ disk'.file /\ Delivered(mem'.entry) <= Delivered(disk')
  /\ delivery'.count + Held' <= Delivered(mem'.entry)
  /\ IsExclusive(x) => mem'.entry.outstanding = x.grant /\ x.grant > 0
  /\ ~IsExclusive(req[r]) /\ ~IsExclusive(x) => mem'.entry.outstanding = mem.entry.outstanding

\* A step of request r that leaves it x: the request, the entry's slots and
\* flags, what an admission saw, the file.
StreamStep(r, x) ==
  /\ UNCHANGED <<chain, drv, flight>>
  /\ x \in Stream /\ req' = [req EXCEPT ![r] = x]
  /\ drv.pc \notin {"down", "register"}

SlotStep(r, x) ==
  /\ mem.up /\ mem' \in Entry /\ mem'.up = mem.up /\ mem'.reg = mem.reg
  /\ mem'.terminal = mem.terminal
  /\ mem'.active = mem.active + (IF IsSharing(x) THEN 1 ELSE 0) - (IF IsSharing(req[r]) THEN 1 ELSE 0)

Admitted(r, x) ==
  /\ x.st = "open" => req[r].st = "open" \/ (~mem.terminal /\ mem.reg /\ Available(mem.entry) > 0)
  /\ IsExclusive(x) => IsExclusive(req[r]) \/ (Serving /\ mem.entry.outstanding = 0)

FileStep ==
  /\ delivery' \in Delivery /\ served' \in Nat /\ served <= served'
  /\ disk' \in Record /\ FileOK'

BookStep(r, x) == Serving' => Serving /\ Booked(r, x)

GatewayStepOK(r, x) ==
  StreamStep(r, x) /\ SlotStep(r, x) /\ Admitted(r, x) /\ FileStep /\ BookStep(r, x)

LEMMA GatewayKeeps ==
  ASSUME MeterInv, NEW r \in Requests, NEW x, GatewayStepOK(r, x)
  PROVE  MeterInv'
  <1>1. /\ req'[r] = x /\ \A s \in Requests \ {r} : req'[s] = req[s]
        /\ req \in [Requests -> Stream] /\ req' \in [Requests -> Stream]
    BY DEF MeterInv, TypeOK, GatewayStepOK, StreamStep
  <1>2. UNCHANGED <<chain, drv, flight>>
    BY DEF GatewayStepOK, StreamStep
  <1>3. TypeOK'
    BY <1>1, <1>2 DEF MeterInv, TypeOK, GatewayStepOK, SlotStep, FileStep
  <1>4. \A s \in Requests : Exclusive(s)' <=> IsExclusive(req'[s])
    BY DEF Exclusive, IsExclusive
  <1>5. \A s \in Requests : Exclusive(s) <=> IsExclusive(req[s])
    BY DEF Exclusive, IsExclusive
  <1>6. \A s, t \in Requests : Exclusive(s)' /\ Exclusive(t)' => s = t
    <2> SUFFICES ASSUME NEW s \in Requests, IsExclusive(req'[s]), s # r, IsExclusive(x)
                 PROVE  FALSE
      BY <1>1, <1>4, <1>5 DEF MeterInv, Slots
    <2>1. Exclusive(s)
      BY <1>1, <1>5
    <2>2. CASE IsExclusive(req[r])
      BY <1>5, <2>1, <2>2 DEF MeterInv, Slots
    <2>3. CASE Serving /\ mem.entry.outstanding = 0
      <3>1. mem.entry.outstanding = req[s].grant /\ req[s].grant > 0
        BY <2>1, <2>3 DEF MeterInv, EntryOK
      <3>2. QED
        BY <2>3, <3>1
    <2>4. QED
      BY <2>2, <2>3 DEF GatewayStepOK, Admitted
  <1>7. IsFiniteSet(Sharing') /\ mem'.active = Cardinality(Sharing')
    <2>1. Sharing = {s \in Requests : IsSharing(req[s])} /\ Sharing' = {s \in Requests : IsSharing(req'[s])}
      BY DEF Sharing, IsSharing
    <2>2. IsFiniteSet(Sharing) /\ mem.active = Cardinality(Sharing) /\ mem.active \in Nat
      BY DEF MeterInv, Slots, TypeOK, Entry
    <2>3. mem'.active = mem.active + (IF IsSharing(x) THEN 1 ELSE 0) - (IF IsSharing(req[r]) THEN 1 ELSE 0)
      BY DEF GatewayStepOK, SlotStep
    <2>4. CASE IsSharing(x) <=> IsSharing(req[r])
      <3>1. Sharing' = Sharing
        BY <1>1, <2>1, <2>4
      <3>2. QED
        BY <2>2, <2>3, <2>4, <3>1
    <2>5. CASE IsSharing(x) /\ ~IsSharing(req[r])
      <3>1. Sharing' = Sharing \cup {r} /\ r \notin Sharing
        BY <1>1, <2>1, <2>5
      <3>2. IsFiniteSet(Sharing \cup {r}) /\ Cardinality(Sharing \cup {r}) = Cardinality(Sharing) + 1
        BY <2>2, <3>1, FS_AddElement
      <3>3. QED
        BY <2>2, <2>3, <2>5, <3>1, <3>2
    <2>6. CASE ~IsSharing(x) /\ IsSharing(req[r])
      <3>1. Sharing' = Sharing \ {r} /\ r \in Sharing
        BY <1>1, <2>1, <2>6
      <3>2. IsFiniteSet(Sharing \ {r}) /\ Cardinality(Sharing \ {r}) = Cardinality(Sharing) - 1
        BY <2>2, <3>1, FS_RemoveElement
      <3>3. QED
        BY <2>2, <2>3, <2>6, <3>1, <3>2
    <2>7. QED
      BY <2>4, <2>5, <2>6
  <1>8. EntryOK'
    <2> SUFFICES ASSUME Serving'
                 PROVE  /\ Fits(mem'.entry, chain, flight)
                        /\ disk'.file /\ Delivered(mem'.entry) <= Delivered(disk')
                        /\ delivery'.count + Held' <= Delivered(mem'.entry)
                        /\ \A s \in Requests : IsExclusive(req'[s]) =>
                             mem'.entry.outstanding = req'[s].grant /\ req'[s].grant > 0
      BY <1>2, <1>4 DEF EntryOK
    <2>1. ASSUME NEW s \in Requests, IsExclusive(req'[s])
          PROVE  mem'.entry.outstanding = req'[s].grant /\ req'[s].grant > 0
      <3>1. CASE s = r
        BY <1>1, <2>1, <3>1 DEF GatewayStepOK, BookStep, Booked
      <3>2. CASE s # r
        <4>1. Exclusive(s) /\ req'[s] = req[s]
          BY <1>1, <1>5, <2>1, <3>2
        <4>2. ~IsExclusive(x)
          BY <1>1, <1>4, <1>6, <2>1, <3>2
        <4>3. ~IsExclusive(req[r])
          BY <1>5, <3>2, <4>1 DEF MeterInv, Slots
        <4>4. QED
          BY <4>1, <4>2, <4>3 DEF GatewayStepOK, BookStep, Booked, MeterInv, EntryOK
      <3>3. QED
        BY <3>1, <3>2
    <2>2. QED
      BY <2>1 DEF GatewayStepOK, BookStep, Booked
  <1>9. Unborn'
    BY <1>2 DEF Unborn, GatewayStepOK, StreamStep, SlotStep
  <1>10. Exhausting'
    <2> SUFFICES ASSUME ~chain.sub, chain.pending >= Funded \/ \E n \in flight : n >= Funded, x.st = "open"
                 PROVE  FALSE
      BY <1>1, <1>2 DEF Exhausting, MeterInv
    <2>1. Serving /\ Available(mem.entry) > 0
      BY DEF GatewayStepOK, Admitted, MeterInv, Exhausting, Serving
    <2>2. /\ mem.entry.cap \in Nat /\ mem.entry.anchor \in Nat /\ mem.entry.local \in Nat
          /\ mem.entry.outstanding \in Nat /\ chain.pending \in Nat /\ flight \subseteq Nat
      BY DEF MeterInv, TypeOK, Entry, Record, Deal
    <2>3. Fits(mem.entry, chain, flight)
      BY <2>1 DEF MeterInv, EntryOK
    <2>4. Funded <= Greater(TICK, Delivered(mem.entry))
      <3>1. Delivered(mem.entry) \in Nat
        BY <2>2 DEF Delivered
      <3>2. PICK n \in Nat : n >= Funded /\ n <= Greater(TICK, Delivered(mem.entry))
        BY <2>2, <2>3 DEF Fits
      <3>3. QED
        BY <3>1, <3>2, Sizes DEF Greater
    <2>5. Delivered(mem.entry) >= Funded
      BY <2>2, <2>4, Sizes DEF Greater, Delivered
    <2>6. QED
      BY <2>1, <2>2, <2>3, <2>5, Sizes DEF Fits, Available, Committed, Delivered
  <1>11. ClaimsBacked'
    BY <1>2, Sizes DEF MeterInv, ClaimsBacked, Greater, TypeOK, GatewayStepOK, FileStep, Deal
  <1>12. QED
    BY <1>2, <1>3, <1>6, <1>7, <1>8, <1>9, <1>10, <1>11 DEF MeterInv, Slots, DealOK,
       AuthoritativeCap, GatewayStepOK, FileStep

\* The file after a write of the gateway, or without one.
LEMMA FileWritten ==
  ASSUME MeterInv, Serving, NEW rec \in Record, Fits(rec, chain, flight),
         Delivered(mem.entry) <= Delivered(rec), NEW o \in WriteOutcomes, Written(o, rec),
         UNCHANGED <<chain, flight>>, served' \in Nat, served <= served', Delivered(rec) <= served'
  PROVE  /\ disk' \in Record /\ disk'.file /\ FileOK' /\ Delivered(mem.entry) <= Delivered(disk')
         /\ o = "ok" => disk' = rec
  <1>1. disk' \in {disk, rec} /\ (o = "ok" => disk' = rec) /\ rec.file
    BY WrittenIs DEF Fits
  <1>2. /\ disk \in Record /\ disk.file /\ Delivered(mem.entry) <= Delivered(disk)
        /\ Fits(disk, chain, flight) /\ Delivered(disk) <= served /\ served \in Nat
    BY DEF MeterInv, TypeOK, EntryOK, FileOK
  <1>3. Delivered(disk) \in Nat
    BY <1>2 DEF Record, Delivered
  <1>4. QED
    BY <1>1, <1>2, <1>3 DEF FileOK

LEMMA FileStill ==
  ASSUME MeterInv, UNCHANGED <<chain, flight, disk>>, served' = served
  PROVE  disk' \in Record /\ FileOK'
  BY DEF MeterInv, TypeOK, FileOK

\* What is known of the entry in use.
InUse ==
  /\ mem.entry \in Record /\ Fits(mem.entry, chain, flight) /\ disk.file
  /\ Delivered(mem.entry) <= Delivered(disk) /\ Delivered(mem.entry) <= served
  /\ delivery.count + Held <= Delivered(mem.entry)
  /\ Delivered(mem.entry) \in Nat /\ Available(mem.entry) \in Nat
  /\ mem.entry.cap \in Nat /\ mem.entry.anchor \in Nat /\ mem.entry.local \in Nat
  /\ mem.entry.outstanding \in Nat

LEMMA EntryFacts ==
  ASSUME MeterInv, Serving
  PROVE  InUse
  <1>1. /\ mem.entry \in Record /\ Fits(mem.entry, chain, flight) /\ disk.file
        /\ Delivered(mem.entry) <= Delivered(disk) /\ Delivered(disk) <= served
        /\ delivery.count + Held <= Delivered(mem.entry) /\ served \in Nat /\ disk \in Record
    BY DEF MeterInv, TypeOK, Entry, EntryOK, FileOK
  <1>2. /\ mem.entry.cap \in Nat /\ mem.entry.anchor \in Nat /\ mem.entry.local \in Nat
        /\ mem.entry.outstanding \in Nat
    BY <1>1 DEF Record
  <1>3. Delivered(disk) \in Nat /\ Delivered(mem.entry) \in Nat
    BY <1>1 DEF Record, Delivered
  <1>4. Available(mem.entry) \in Nat
    BY <1>1, <1>2 DEF Fits, Available, Committed
  <1>5. QED
    BY <1>1, <1>2, <1>3, <1>4 DEF InUse

LEMMA SlotCounted ==
  ASSUME MeterInv, NEW r \in Requests, IsSharing(req[r])
  PROVE  mem.active \in Nat /\ mem.active >= 1
  <1>1. r \in Sharing /\ IsFiniteSet(Sharing) /\ mem.active = Cardinality(Sharing) /\ mem.active \in Nat
    BY DEF IsSharing, Sharing, MeterInv, Slots, TypeOK, Entry
  <1>2. mem.active # 0
    BY <1>1, FS_EmptySet
  <1>3. QED
    BY <1>1, <1>2

LEMMA SlotsStill ==
  ASSUME mem \in Entry, mem' = mem, mem.up, NEW r, NEW x, IsSharing(x) <=> IsSharing(req[r])
  PROVE  SlotStep(r, x)
  <1>1. /\ mem' \in Entry /\ mem'.up = mem.up /\ mem'.reg = mem.reg /\ mem'.terminal = mem.terminal
        /\ mem'.active = mem.active /\ mem.active \in Nat
    BY DEF Entry
  <1>2. mem'.active = mem.active + (IF IsSharing(x) THEN 1 ELSE 0) - (IF IsSharing(req[r]) THEN 1 ELSE 0)
    <2>1. CASE IsSharing(x)
      BY <1>1, <2>1
    <2>2. CASE ~IsSharing(x)
      BY <1>1, <2>2
    <2>3. QED
      BY <2>1, <2>2
  <1>3. QED
    BY <1>1, <1>2, Zenon DEF SlotStep

LEMMA SlotsCounted ==
  ASSUME NEW r, NEW x, mem.up, mem' \in Entry, mem'.up = mem.up, mem'.reg = mem.reg,
         mem'.terminal = mem.terminal, mem.active \in Nat,
         ~IsSharing(x), mem'.active = mem.active - (IF IsSharing(req[r]) THEN 1 ELSE 0)
  PROVE  SlotStep(r, x)
  BY DEF SlotStep

LEMMA AdmitSharedKeeps ==
  ASSUME MeterInv, NEW r \in Requests, NEW grant \in Grants, AdmitShared(r, grant)
  PROVE  MeterInv'
  <1>1. /\ mem.up /\ mem.reg /\ ~mem.terminal /\ delivery.lock = NoHolder
        /\ Available(mem.entry) > 0 /\ req[r].st = "idle" /\ Serving
    BY DEF AdmitShared, Admissible, Serving
  <1>2. InUse
    BY <1>1, EntryFacts
  <1> DEFINE g == Lesser(Available(mem.entry), grant)
             x == [NoRequest EXCEPT !.st = "open", !.shared = TRUE, !.grant = g]
  <1>3. g \in Nat
    BY <1>2, MeterAssumption DEF Lesser, InUse
  <1> HIDE DEF g
  <1>4. x \in Stream /\ x.st = "open" /\ x.shared
    BY <1>3 DEF NoRequest, Stream
  <1>5. UNCHANGED <<chain, disk, delivery, drv, flight, served>> /\ req' = [req EXCEPT ![r] = x]
    BY DEF AdmitShared, g
  <1> HIDE DEF x
  <1>6. mem \in Entry /\ mem' = [mem EXCEPT !.active = @ + 1] /\ mem.active \in Nat
    BY DEF AdmitShared, MeterInv, TypeOK, Entry
  <1>7. /\ mem' \in Entry /\ mem'.up = mem.up /\ mem'.reg = mem.reg /\ mem'.terminal = mem.terminal
        /\ mem'.active = mem.active + 1 /\ mem'.entry = mem.entry /\ mem.active \in Nat
    BY <1>6 DEF Entry
  <1>8. IsSharing(x) /\ ~IsExclusive(x) /\ ~IsSharing(req[r]) /\ ~IsExclusive(req[r])
    BY <1>1, <1>4 DEF IsSharing, IsExclusive
  <1>9. Held = 0 /\ Held' = 0
    BY <1>1, <1>5, HolderAssumption DEF Held
  <1>10. /\ disk' \in Record /\ FileOK' /\ delivery \in Delivery /\ served \in Nat
         /\ drv.pc \notin {"down", "register"}
    BY <1>1, <1>5, FileStill DEF MeterInv, TypeOK, Unborn
  <1>11. Booked(r, x)
    BY <1>2, <1>5, <1>7, <1>8, <1>9 DEF Booked, InUse
  <1>12. GatewayStepOK(r, x)
    <2>1. StreamStep(r, x)
      BY <1>4, <1>5, <1>10 DEF StreamStep
    <2>2. SlotStep(r, x)
      BY <1>1, <1>7, <1>8 DEF SlotStep
    <2>3. Admitted(r, x)
      BY <1>1, <1>8 DEF Admitted
    <2>4. FileStep
      BY <1>5, <1>10 DEF FileStep
    <2>5. BookStep(r, x)
      BY <1>1, <1>11 DEF BookStep
    <2>6. QED
      BY <2>1, <2>2, <2>3, <2>4, <2>5 DEF GatewayStepOK
  <1>13. QED
    BY <1>12, GatewayKeeps

LEMMA AdmitExclusiveKeeps ==
  ASSUME MeterInv, NEW r \in Requests, NEW grant \in Grants, AdmitExclusive(r, grant)
  PROVE  MeterInv'
  <1>1. /\ mem.up /\ mem.reg /\ ~mem.terminal /\ delivery.lock = NoHolder
        /\ Available(mem.entry) > 0 /\ mem.entry.outstanding = 0 /\ req[r].st = "idle" /\ Serving
    BY DEF AdmitExclusive, Admissible, Serving
  <1>2. InUse
    BY <1>1, EntryFacts
  <1> DEFINE amount == Lesser(Available(mem.entry), grant)
             rec == [mem.entry EXCEPT !.outstanding = @ + amount]
             x == [NoRequest EXCEPT !.st = "open", !.grant = amount]
  <1>3. amount \in Nat /\ amount > 0 /\ amount <= Available(mem.entry)
    BY <1>1, <1>2, MeterAssumption DEF Lesser, InUse
  <1> HIDE DEF amount
  <1>4. /\ rec \in Record /\ rec.cap = mem.entry.cap /\ rec.anchor = mem.entry.anchor
        /\ rec.local = mem.entry.local /\ rec.outstanding = mem.entry.outstanding + amount
        /\ rec.file = mem.entry.file
    <2>1. mem.entry.outstanding + amount \in Nat
      BY <1>2, <1>3 DEF InUse
    <2>2. QED
      BY <1>2, <2>1 DEF InUse, Record
  <1>5. x \in Stream /\ x.st = "open" /\ ~x.shared /\ x.grant = amount
    BY <1>3 DEF NoRequest, Stream
  <1>6. PICK o \in WriteOutcomes :
           /\ Written(o, rec)
           /\ IF o = "ok" THEN mem' = [mem EXCEPT !.entry = rec] /\ req' = [req EXCEPT ![r] = x]
              ELSE UNCHANGED <<mem, req>>
    BY DEF AdmitExclusive, amount
  <1> HIDE DEF rec, x
  <1>7. /\ UNCHANGED <<chain, delivery, drv, flight, served>> /\ mem \in Entry /\ req \in [Requests -> Stream]
        /\ delivery \in Delivery /\ served \in Nat /\ drv.pc \notin {"down", "register"}
    BY <1>1 DEF AdmitExclusive, MeterInv, TypeOK, Unborn
  <1>8. Fits(rec, chain, flight) /\ Delivered(rec) = Delivered(mem.entry)
    BY <1>2, <1>3, <1>4 DEF InUse, Fits, Delivered, Committed, Available
  <1>9. /\ disk' \in Record /\ disk'.file /\ FileOK' /\ Delivered(mem.entry) <= Delivered(disk')
        /\ o = "ok" => disk' = rec
    BY <1>1, <1>2, <1>4, <1>6, <1>7, <1>8, FileWritten DEF InUse
  <1>10. Held = 0 /\ Held' = 0
    BY <1>1, <1>7, HolderAssumption DEF Held
  <1>11. ~IsSharing(req[r]) /\ ~IsExclusive(req[r]) /\ ~IsSharing(x) /\ IsExclusive(x)
    BY <1>1, <1>5 DEF IsSharing, IsExclusive
  <1>12. CASE o = "ok"
    <2>1. /\ mem' \in Entry /\ mem'.up = mem.up /\ mem'.reg = mem.reg /\ mem'.terminal = mem.terminal
          /\ mem'.active = mem.active /\ mem'.entry = rec /\ mem.active \in Nat
      BY <1>4, <1>6, <1>7, <1>12 DEF Entry
    <2>2. Booked(r, x)
      BY <1>1, <1>2, <1>3, <1>4, <1>5, <1>7, <1>8, <1>9, <1>10, <1>11, <1>12, <2>1 DEF InUse, Booked
    <2>3. GatewayStepOK(r, x)
      <3>1. StreamStep(r, x)
        BY <1>5, <1>6, <1>7, <1>12 DEF StreamStep
      <3>2. SlotStep(r, x)
        BY <1>1, <1>11, <2>1 DEF SlotStep
      <3>3. Admitted(r, x)
        BY <1>1, <1>11 DEF Admitted
      <3>4. FileStep
        BY <1>7, <1>9 DEF FileStep
      <3>5. BookStep(r, x)
        BY <1>1, <2>2 DEF BookStep
      <3>6. QED
        BY <3>1, <3>2, <3>3, <3>4, <3>5 DEF GatewayStepOK
    <2>4. QED
      BY <2>3, GatewayKeeps
  <1>13. CASE o # "ok"
    <2>1. UNCHANGED <<mem, req>> /\ req' = [req EXCEPT ![r] = req[r]] /\ req[r] \in Stream /\ mem.active \in Nat
      BY <1>6, <1>7, <1>13 DEF Entry
    <2>2. Booked(r, req[r])
      BY <1>2, <1>7, <1>9, <1>10, <1>11, <2>1 DEF Booked, InUse
    <2>3. GatewayStepOK(r, req[r])
      <3>1. StreamStep(r, req[r])
        BY <1>7, <2>1 DEF StreamStep
      <3>2. SlotStep(r, req[r])
        BY <1>1, <1>7, <2>1, SlotsStill
      <3>3. Admitted(r, req[r])
        BY <1>1, <1>11 DEF Admitted
      <3>4. FileStep
        BY <1>7, <1>9 DEF FileStep
      <3>5. BookStep(r, req[r])
        BY <1>1, <2>2 DEF BookStep
      <3>6. QED
        BY <3>1, <3>2, <3>3, <3>4, <3>5 DEF GatewayStepOK
    <2>4. QED
      BY <2>3, GatewayKeeps
  <1>14. QED
    BY <1>12, <1>13

\* The rest of complete_billing counts the bill.
LEMMA PublishBillKeeps ==
  ASSUME MeterInv, NEW r \in Requests, PublishBill(r)
  PROVE  MeterInv'
  <1>1. mem.up /\ req[r].st = "billed" /\ delivery.lock = r /\ (mem.terminal \/ Serving)
    BY DEF PublishBill, Holds, Serving
  <1>2. /\ mem \in Entry /\ req \in [Requests -> Stream] /\ delivery \in Delivery /\ served \in Nat
        /\ req[r].charged \in Nat /\ delivery.count \in Nat /\ mem.active \in Nat
        /\ drv.pc \notin {"down", "register"}
    BY <1>1 DEF MeterInv, TypeOK, Stream, Delivery, Entry, Unborn
  <1>3. NoRequest \in Stream /\ NoRequest.st = "idle"
    BY DEF NoRequest, Stream
  <1>4. /\ UNCHANGED <<chain, disk, mem, drv, flight, served>> /\ req' = [req EXCEPT ![r] = NoRequest]
        /\ delivery' \in Delivery /\ delivery'.count = delivery.count + req[r].charged
        /\ delivery'.lock = NoHolder
    <2> DEFINE over == delivery.exhausted \/ req[r].over
               last == delivery.done \/ (over /\ mem.active = 0)
    <2>1. over \in BOOLEAN /\ last \in BOOLEAN /\ delivery.count + req[r].charged \in Nat
      BY <1>2
    <2>2. delivery' = [count |-> delivery.count + req[r].charged, exhausted |-> over, done |-> last,
                       lock |-> NoHolder]
      BY DEF PublishBill
    <2> HIDE DEF over, last
    <2>3. QED
      BY <2>1, <2>2 DEF PublishBill, Delivery
  <1>5. Held' = 0 /\ Held = req[r].charged
    BY <1>1, <1>4, HolderAssumption DEF Held
  <1>6. /\ ~IsSharing(req[r]) /\ ~IsExclusive(req[r]) /\ ~IsSharing(NoRequest) /\ ~IsExclusive(NoRequest)
    BY <1>1, <1>3 DEF IsSharing, IsExclusive
  <1>7. disk' \in Record /\ FileOK'
    BY <1>4, FileStill
  <1>8. Serving' => Serving
    BY <1>1, <1>4 DEF Serving
  <1>9. Serving => Booked(r, NoRequest)
    <2> SUFFICES ASSUME Serving
                 PROVE  Booked(r, NoRequest)
      OBVIOUS
    <2>1. InUse
      BY EntryFacts
    <2>2. QED
      BY <1>2, <1>4, <1>5, <1>6, <2>1 DEF Booked, InUse
  <1>10. GatewayStepOK(r, NoRequest)
    <2>1. StreamStep(r, NoRequest)
      BY <1>2, <1>3, <1>4 DEF StreamStep
    <2>2. SlotStep(r, NoRequest)
      BY <1>1, <1>2, <1>4, <1>6, SlotsStill
    <2>3. Admitted(r, NoRequest)
      BY <1>3, <1>6 DEF Admitted
    <2>4. FileStep
      BY <1>2, <1>4, <1>7 DEF FileStep
    <2>5. BookStep(r, NoRequest)
      BY <1>8, <1>9 DEF BookStep
    <2>6. QED
      BY <2>1, <2>2, <2>3, <2>4, <2>5 DEF GatewayStepOK
  <1>11. QED
    BY <1>10, GatewayKeeps

\* A bill is within the grant, and within what is left of the purchase.
LEMMA ChargeFits ==
  ASSUME MeterInv, Serving, NEW r \in Requests, req[r].st = "open", NEW usage \in Usages
  PROVE  LET charged == Charged(r, Lesser(usage, req[r].grant))
             rec == BilledRecord(r, charged)
         IN  /\ charged \in Nat /\ rec \in Record /\ Fits(rec, chain, flight)
             /\ Delivered(rec) = Delivered(mem.entry) + charged
             /\ req[r].shared => rec.outstanding = mem.entry.outstanding
  <1> DEFINE charged == Charged(r, Lesser(usage, req[r].grant))
             back == IF req[r].shared THEN 0 ELSE req[r].grant
             left == mem.entry.outstanding - back
             total == mem.entry.local + charged
             rec == BilledRecord(r, charged)
  <1>1. InUse /\ usage \in Nat /\ req[r] \in Stream
    BY EntryFacts, MeterAssumption DEF MeterInv, TypeOK
  <1>2. req[r].grant \in Nat /\ req[r].shared \in BOOLEAN
    BY <1>1 DEF Stream
  <1>3. ~req[r].shared => mem.entry.outstanding = req[r].grant
    BY DEF MeterInv, EntryOK, Exclusive
  <1>4. charged \in Nat /\ left \in Nat /\ charged + left <= Available(mem.entry) + mem.entry.outstanding
    <2>1. CASE req[r].shared
      BY <1>1, <1>2, <2>1 DEF Charged, Lesser, InUse
    <2>2. CASE ~req[r].shared
      BY <1>1, <1>2, <1>3, <2>2 DEF Charged, Lesser, InUse
    <2>3. QED
      BY <2>1, <2>2
  <1>5. total \in Nat
    BY <1>1, <1>4 DEF InUse
  <1>6. rec = [mem.entry EXCEPT !.local = total, !.outstanding = left]
    BY DEF BilledRecord
  <1>7. req[r].shared => left = mem.entry.outstanding
    BY <1>1 DEF InUse
  <1>8. total = mem.entry.local + charged
    OBVIOUS
  <1> HIDE DEF rec, total, left, charged
  <1>9. /\ rec \in Record /\ rec.cap = mem.entry.cap /\ rec.anchor = mem.entry.anchor
        /\ rec.local = total /\ rec.outstanding = left /\ rec.file = mem.entry.file
    BY <1>1, <1>4, <1>5, <1>6 DEF InUse, Record
  <1>10. Delivered(rec) = Delivered(mem.entry) + charged
    BY <1>1, <1>4, <1>8, <1>9 DEF InUse, Delivered
  <1>11. Committed(rec) <= rec.cap
    BY <1>1, <1>4, <1>8, <1>9 DEF InUse, Committed, Available
  <1>12. Fits(rec, chain, flight)
    <2>1. \A n \in Nat : n <= Greater(TICK, Delivered(mem.entry)) => n <= Greater(TICK, Delivered(rec))
      BY <1>1, <1>4, <1>10, Sizes DEF Greater, InUse
    <2>2. chain.pending \in Nat /\ flight \subseteq Nat
      BY DEF MeterInv, TypeOK, Deal
    <2>3. Fits(mem.entry, chain, flight)
      BY <1>1 DEF InUse
    <2>4. rec.file /\ rec.cap <= Funded /\ rec.anchor <= chain.pending
          /\ (TermEnded(chain) \/ rec.cap <= AuthoritativeCap(chain))
      BY <1>9, <2>3 DEF Fits
    <2>5. chain.pending <= Greater(TICK, Delivered(rec)) /\ \A n \in flight : n <= Greater(TICK, Delivered(rec))
      BY <2>1, <2>2, <2>3 DEF Fits
    <2>6. QED
      BY <1>11, <2>4, <2>5 DEF Fits
  <1>13. QED
    BY <1>4, <1>7, <1>9, <1>10, <1>12 DEF rec, charged

LEMMA CommitBillKeeps ==
  ASSUME MeterInv, NEW r \in Requests, NEW usage \in Usages, CommitBill(r, usage)
  PROVE  MeterInv'
  <1> DEFINE tokens == Lesser(usage, req[r].grant)
             charged == Charged(r, tokens)
             rec == BilledRecord(r, charged)
             over == usage > req[r].grant \/ charged < tokens
  <1>1. mem.up /\ req[r].st = "open" /\ delivery.lock = NoHolder /\ ~mem.terminal /\ Serving
    BY DEF CommitBill, Serving
  <1>2. InUse
    BY <1>1, EntryFacts
  <1>3. PICK o \in WriteOutcomes :
          /\ Written(o, rec) /\ served' = served + charged
          /\ IF o = "ok"
             THEN /\ mem' = [mem EXCEPT !.entry = rec, !.active = @ - Slot(r)]
                  /\ req' = [req EXCEPT ![r].st = "billed", ![r].charged = charged, ![r].over = over]
                  /\ delivery' = [delivery EXCEPT !.lock = r]
             ELSE req' = [req EXCEPT ![r].st = "ambiguous"] /\ UNCHANGED <<mem, delivery>>
    BY DEF CommitBill
  <1>4. /\ charged \in Nat /\ rec \in Record /\ Fits(rec, chain, flight)
        /\ Delivered(rec) = Delivered(mem.entry) + charged
        /\ req[r].shared => rec.outstanding = mem.entry.outstanding
    BY <1>1, ChargeFits
  <1>5. over \in BOOLEAN
    OBVIOUS
  <1> HIDE DEF tokens, charged, rec, over
  <1>6. /\ UNCHANGED <<chain, drv, flight>> /\ mem \in Entry /\ req \in [Requests -> Stream]
        /\ req[r] \in Stream /\ delivery \in Delivery /\ served \in Nat
        /\ drv.pc \notin {"down", "register"}
    BY <1>1 DEF CommitBill, MeterInv, TypeOK, Unborn
  <1>7. served' \in Nat /\ served <= served' /\ Delivered(rec) <= served' /\ Delivered(mem.entry) <= Delivered(rec)
    BY <1>2, <1>3, <1>4, <1>6 DEF InUse
  <1>8. /\ disk' \in Record /\ disk'.file /\ FileOK' /\ Delivered(mem.entry) <= Delivered(disk')
        /\ o = "ok" => disk' = rec
    BY <1>1, <1>3, <1>4, <1>6, <1>7, FileWritten
  <1>9. Held = 0
    BY <1>1, HolderAssumption DEF Held
  <1>10. CASE o = "ok"
    <2> DEFINE x == [req[r] EXCEPT !.st = "billed", !.charged = charged, !.over = over]
    <2>1. /\ x \in Stream /\ x.st = "billed" /\ x.charged = charged
      BY <1>4, <1>5, <1>6 DEF Stream
    <2>2. req' = [req EXCEPT ![r] = x]
      BY <1>3, <1>6, <1>10
    <2> HIDE DEF x
    <2>3. ~IsSharing(x) /\ ~IsExclusive(x) /\ (IsSharing(req[r]) <=> req[r].shared)
          /\ (~IsExclusive(req[r]) => req[r].shared)
      BY <1>1, <2>1 DEF IsSharing, IsExclusive
    <2>4. mem.active \in Nat /\ Slot(r) \in {0, 1} /\ mem.active - Slot(r) \in Nat
          /\ Slot(r) = IF IsSharing(req[r]) THEN 1 ELSE 0
      <3>1. mem.active \in Nat /\ Slot(r) = IF IsSharing(req[r]) THEN 1 ELSE 0
        BY <1>6, <2>3 DEF Slot, Entry
      <3>2. IsSharing(req[r]) => mem.active >= 1
        BY SlotCounted
      <3>3. QED
        BY <3>1, <3>2
    <2> DEFINE left == mem.active - Slot(r)
    <2>5. mem' = [mem EXCEPT !.entry = rec, !.active = left] /\ left \in Nat
      BY <1>3, <1>10, <2>4
    <2>6. left = mem.active - (IF IsSharing(req[r]) THEN 1 ELSE 0)
      BY <2>4
    <2> HIDE DEF left
    <2>7. /\ mem' \in Entry /\ mem'.up = mem.up /\ mem'.reg = mem.reg /\ mem'.terminal = mem.terminal
          /\ mem'.active = left /\ mem'.entry = rec
      BY <1>4, <1>6, <2>5 DEF Entry
    <2>8. delivery' \in Delivery /\ delivery'.lock = r /\ delivery'.count = delivery.count /\ delivery.count \in Nat
      BY <1>3, <1>6, <1>10 DEF Delivery
    <2>9. req'[r] = x
      BY <1>6, <2>2
    <2>10. Held' = charged
      BY <2>1, <2>8, <2>9 DEF Held
    <2>11. Booked(r, x)
      <3>1. delivery'.count + Held' <= Delivered(mem'.entry)
        BY <1>2, <1>4, <1>9, <2>7, <2>8, <2>10 DEF InUse
      <3>2. Delivered(mem'.entry) <= Delivered(disk')
        <4>1. Delivered(rec) \in Nat
          BY <1>2, <1>4 DEF InUse
        <4>2. QED
          BY <1>8, <1>10, <2>7, <4>1
      <3>3. QED
        BY <1>4, <1>8, <2>3, <2>7, <3>1, <3>2 DEF Booked
    <2>12. GatewayStepOK(r, x)
      <3>1. StreamStep(r, x)
        BY <1>6, <2>1, <2>2 DEF StreamStep
      <3>2. SlotStep(r, x)
        BY <1>1, <2>3, <2>4, <2>6, <2>7 DEF SlotStep
      <3>3. Admitted(r, x)
        BY <2>1, <2>3 DEF Admitted
      <3>4. FileStep
        BY <1>7, <1>8, <2>8 DEF FileStep
      <3>5. BookStep(r, x)
        BY <1>1, <2>11 DEF BookStep
      <3>6. QED
        BY <3>1, <3>2, <3>3, <3>4, <3>5 DEF GatewayStepOK
    <2>13. QED
      BY <2>12, GatewayKeeps
  <1>11. CASE o # "ok"
    <2> DEFINE x == [req[r] EXCEPT !.st = "ambiguous"]
    <2>1. x \in Stream /\ x.st = "ambiguous" /\ x.grant = req[r].grant /\ (x.shared <=> req[r].shared)
      BY <1>6 DEF Stream
    <2>2. req' = [req EXCEPT ![r] = x] /\ mem' = mem /\ delivery' = delivery
      BY <1>3, <1>6, <1>11
    <2> HIDE DEF x
    <2>3. (IsSharing(x) <=> IsSharing(req[r])) /\ (IsExclusive(x) <=> IsExclusive(req[r]))
      BY <1>1, <2>1 DEF IsSharing, IsExclusive
    <2>4. Held' = 0
      BY <1>1, <2>2, HolderAssumption DEF Held
    <2>5. IsExclusive(req[r]) => mem.entry.outstanding = req[r].grant /\ req[r].grant > 0
      BY <1>1 DEF IsExclusive, Exclusive, MeterInv, EntryOK
    <2>6. Booked(r, x)
      BY <1>2, <1>8, <1>9, <2>1, <2>2, <2>3, <2>4, <2>5 DEF Booked, InUse
    <2>7. GatewayStepOK(r, x)
      <3>1. StreamStep(r, x)
        BY <1>6, <2>1, <2>2 DEF StreamStep
      <3>2. SlotStep(r, x)
        BY <1>1, <1>6, <2>2, <2>3, SlotsStill
      <3>3. Admitted(r, x)
        BY <2>1, <2>3 DEF Admitted
      <3>4. FileStep
        BY <1>6, <1>7, <1>8, <2>2 DEF FileStep
      <3>5. BookStep(r, x)
        BY <1>1, <2>6 DEF BookStep
      <3>6. QED
        BY <3>1, <3>2, <3>3, <3>4, <3>5 DEF GatewayStepOK
    <2>8. QED
      BY <2>7, GatewayKeeps
  <1>12. QED
    BY <1>10, <1>11

\* What finish_exact writes: the reservation of an exclusive request is released.
Released(r, exact) ==
  IF exact /\ ~req[r].shared THEN [mem.entry EXCEPT !.outstanding = @ - req[r].grant] ELSE mem.entry

LEMMA ReleasedFits ==
  ASSUME MeterInv, Serving, NEW r \in Requests, req[r].st \in {"open", "ambiguous"}, NEW exact \in BOOLEAN
  PROVE  LET rec == Released(r, exact)
         IN  /\ rec \in Record /\ Fits(rec, chain, flight) /\ Delivered(rec) = Delivered(mem.entry)
             /\ req[r].shared => rec.outstanding = mem.entry.outstanding
  <1>1. InUse
    BY EntryFacts
  <1>2. CASE exact /\ ~req[r].shared
    <2> DEFINE left == mem.entry.outstanding - req[r].grant
               rec == [mem.entry EXCEPT !.outstanding = left]
    <2>1. left = 0
      BY <1>1, <1>2 DEF MeterInv, EntryOK, Exclusive, InUse
    <2>2. Released(r, exact) = rec
      BY <1>2 DEF Released
    <2> HIDE DEF left
    <2>3. /\ rec \in Record /\ rec.cap = mem.entry.cap /\ rec.anchor = mem.entry.anchor
          /\ rec.local = mem.entry.local /\ rec.outstanding = 0 /\ rec.file = mem.entry.file
      BY <1>1, <2>1 DEF InUse, Record
    <2> HIDE DEF rec
    <2>4. Delivered(rec) = Delivered(mem.entry) /\ Fits(rec, chain, flight)
      BY <1>1, <2>3 DEF Delivered, Fits, Committed, InUse
    <2>5. QED
      BY <1>2, <2>2, <2>3, <2>4
  <1>3. CASE ~(exact /\ ~req[r].shared)
    <2>1. Released(r, exact) = mem.entry
      BY <1>3 DEF Released
    <2>2. QED
      BY <1>1, <2>1 DEF InUse
  <1>4. QED
    BY <1>2, <1>3

\* A request that ends without a bill gives its slot back.
LEMMA LeavesKeeps ==
  ASSUME MeterInv, NEW r \in Requests, req[r].st \in {"open", "ambiguous"}, mem.up,
         delivery.lock = NoHolder, NEW e \in Record, NEW last \in BOOLEAN,
         mem' = [mem EXCEPT !.active = mem.active - Slot(r), !.entry = e],
         delivery' = [delivery EXCEPT !.done = last],
         req' = [req EXCEPT ![r] = NoRequest],
         UNCHANGED <<chain, drv, flight, served>>, disk' \in Record, FileOK',
         Serving => /\ Fits(e, chain, flight) /\ Delivered(e) = Delivered(mem.entry) /\ disk'.file
                    /\ Delivered(mem.entry) <= Delivered(disk')
                    /\ req[r].shared => e.outstanding = mem.entry.outstanding
  PROVE  MeterInv'
  <1>1. /\ mem \in Entry /\ req \in [Requests -> Stream] /\ delivery \in Delivery /\ served \in Nat
        /\ drv.pc \notin {"down", "register"}
    BY DEF MeterInv, TypeOK, Unborn
  <1>2. NoRequest \in Stream /\ NoRequest.st = "idle"
    BY DEF NoRequest, Stream
  <1>3. /\ ~IsSharing(NoRequest) /\ ~IsExclusive(NoRequest) /\ (IsSharing(req[r]) <=> req[r].shared)
        /\ (~IsExclusive(req[r]) => req[r].shared)
    BY <1>2 DEF IsSharing, IsExclusive
  <1> DEFINE left == mem.active - Slot(r)
  <1>4. mem.active \in Nat /\ left \in Nat /\ left = mem.active - (IF IsSharing(req[r]) THEN 1 ELSE 0)
    <2>1. mem.active \in Nat /\ Slot(r) = IF IsSharing(req[r]) THEN 1 ELSE 0
      BY <1>1, <1>3 DEF Slot, Entry
    <2>2. IsSharing(req[r]) => mem.active >= 1
      BY SlotCounted
    <2>3. QED
      BY <2>1, <2>2
  <1>5. mem' = [mem EXCEPT !.active = left, !.entry = e]
    OBVIOUS
  <1> HIDE DEF left
  <1>6. /\ mem' \in Entry /\ mem'.up = mem.up /\ mem'.reg = mem.reg /\ mem'.terminal = mem.terminal
        /\ mem'.active = left /\ mem'.entry = e
    BY <1>1, <1>4, <1>5 DEF Entry
  <1>7. delivery' \in Delivery /\ delivery'.lock = NoHolder /\ delivery'.count = delivery.count
    BY <1>1 DEF Delivery
  <1>8. Held = 0 /\ Held' = 0
    BY <1>7, HolderAssumption DEF Held
  <1>9. Serving' => Serving
    BY <1>6 DEF Serving
  <1>10. ASSUME Serving
         PROVE  Booked(r, NoRequest)
    <2>1. InUse
      BY <1>10, EntryFacts
    <2>2. delivery.count \in Nat
      BY <1>1 DEF Delivery
    <2>3. QED
      BY <1>3, <1>6, <1>7, <1>8, <1>10, <2>1, <2>2 DEF Booked, InUse
  <1>11. GatewayStepOK(r, NoRequest)
    <2>1. StreamStep(r, NoRequest)
      BY <1>1, <1>2 DEF StreamStep
    <2>2. SlotStep(r, NoRequest)
      BY <1>3, <1>4, <1>6, SlotsCounted
    <2>3. Admitted(r, NoRequest)
      BY <1>2, <1>3 DEF Admitted
    <2>4. FileStep
      BY <1>1, <1>7 DEF FileStep
    <2>5. BookStep(r, NoRequest)
      BY <1>9, <1>10 DEF BookStep
    <2>6. QED
      BY <2>1, <2>2, <2>3, <2>4, <2>5 DEF GatewayStepOK
  <1>12. QED
    BY <1>11, GatewayKeeps

LEMMA FinishUnbilledKeeps ==
  ASSUME MeterInv, NEW r \in Requests, FinishUnbilled(r)
  PROVE  MeterInv'
  <1> DEFINE rec(exact) == Released(r, exact)
             writes(exact) == ~mem.terminal /\ (exact \/ req[r].shared)
             left == mem.active - Slot(r)
             finished(exact, ok) ==
               /\ mem' = [mem EXCEPT !.active = left,
                                     !.entry = IF ok /\ writes(exact) THEN rec(exact) ELSE @]
               /\ delivery' = [delivery EXCEPT
                                 !.done = @ \/ (ok /\ delivery.exhausted /\ left = 0)]
  <1>1. /\ mem.up /\ delivery.lock = NoHolder /\ UNCHANGED <<chain, drv, flight, served>>
        /\ mem \in Entry /\ mem.entry \in Record /\ delivery \in Delivery /\ served \in Nat
    BY DEF FinishUnbilled, MeterInv, TypeOK, Entry
  <1>2. PICK exact \in BOOLEAN :
          /\ req[r].st \in {"open", "ambiguous"}
          /\ IF writes(exact)
             THEN \E o \in WriteOutcomes : Written(o, rec(exact)) /\ finished(exact, o = "ok")
             ELSE finished(exact, ~(mem.terminal /\ req[r].shared)) /\ UNCHANGED <<disk, faults>>
          /\ req' = [req EXCEPT ![r] = NoRequest]
    BY DEF FinishUnbilled, Released
  <1>3. \A ok \in BOOLEAN : finished(exact, ok) =>
          \E last \in BOOLEAN :
            /\ mem' = [mem EXCEPT !.active = mem.active - Slot(r),
                                  !.entry = IF ok /\ writes(exact) THEN rec(exact) ELSE mem.entry]
            /\ delivery' = [delivery EXCEPT !.done = last]
    <2> SUFFICES ASSUME NEW ok \in BOOLEAN, finished(exact, ok)
                 PROVE  \E last \in BOOLEAN :
            /\ mem' = [mem EXCEPT !.active = mem.active - Slot(r),
                                  !.entry = IF ok /\ writes(exact) THEN rec(exact) ELSE mem.entry]
            /\ delivery' = [delivery EXCEPT !.done = last]
      OBVIOUS
    <2> DEFINE last == delivery.done \/ (ok /\ delivery.exhausted /\ left = 0)
    <2>1. last \in BOOLEAN /\ delivery' = [delivery EXCEPT !.done = last]
      BY <1>1 DEF Delivery
    <2>2. mem' = [mem EXCEPT !.active = mem.active - Slot(r),
                             !.entry = IF ok /\ writes(exact) THEN rec(exact) ELSE mem.entry]
      OBVIOUS
    <2> HIDE DEF last
    <2>3. QED
      BY <2>1, <2>2
  <1>4. CASE writes(exact)
    <2>1. PICK o \in WriteOutcomes : Written(o, rec(exact)) /\ finished(exact, o = "ok")
      BY <1>2, <1>4
    <2>2. Serving /\ writes(exact)
      BY <1>2, <1>4 DEF Serving
    <2>3. /\ rec(exact) \in Record /\ Fits(rec(exact), chain, flight)
          /\ Delivered(rec(exact)) = Delivered(mem.entry)
          /\ req[r].shared => rec(exact).outstanding = mem.entry.outstanding
      BY <1>2, <2>2, ReleasedFits
    <2> DEFINE ok == o = "ok"
               e == IF ok /\ writes(exact) THEN rec(exact) ELSE mem.entry
    <2>4. ok \in BOOLEAN /\ finished(exact, ok)
      BY <2>1
    <2>5. PICK last \in BOOLEAN :
            /\ mem' = [mem EXCEPT !.active = mem.active - Slot(r), !.entry = e]
            /\ delivery' = [delivery EXCEPT !.done = last]
      BY <1>3, <2>4
    <2>6. e \in {rec(exact), mem.entry}
      OBVIOUS
    <2> HIDE DEF e, ok, finished, rec, writes
    <2>7. InUse
      BY <2>2, EntryFacts
    <2>8. disk' \in Record /\ disk'.file /\ FileOK' /\ Delivered(mem.entry) <= Delivered(disk')
      <3>1. Delivered(mem.entry) <= Delivered(rec(exact)) /\ Delivered(rec(exact)) <= served'
            /\ served' \in Nat /\ served <= served'
        BY <1>1, <2>3, <2>7 DEF InUse
      <3>2. QED
        BY <1>1, <2>1, <2>2, <2>3, <3>1, FileWritten
    <2>9. /\ e \in Record /\ Fits(e, chain, flight) /\ Delivered(e) = Delivered(mem.entry)
          /\ req[r].shared => e.outstanding = mem.entry.outstanding
      BY <2>3, <2>6, <2>7 DEF InUse
    <2>10. QED
      BY <1>1, <1>2, <2>5, <2>8, <2>9, LeavesKeeps
  <1>5. CASE ~writes(exact)
    <2> DEFINE ok == ~(mem.terminal /\ req[r].shared)
    <2>1. ok \in BOOLEAN /\ finished(exact, ok) /\ disk' = disk
      BY <1>2, <1>5
    <2>2. PICK last \in BOOLEAN :
            /\ mem' = [mem EXCEPT !.active = mem.active - Slot(r), !.entry = mem.entry]
            /\ delivery' = [delivery EXCEPT !.done = last]
      BY <1>3, <1>5, <2>1
    <2>3. disk' \in Record /\ FileOK'
      BY <1>1, <2>1, FileStill
    <2>4. Serving => /\ Fits(mem.entry, chain, flight) /\ disk'.file
                     /\ Delivered(mem.entry) <= Delivered(disk')
      BY <2>1 DEF MeterInv, EntryOK
    <2>5. QED
      BY <1>1, <1>2, <2>2, <2>3, <2>4, LeavesKeeps
  <1>6. QED
    BY <1>4, <1>5
-----------------------------------------------------------------------------
(***************************************************************************)
(* The specification.                                                      *)
(***************************************************************************)
LEMMA InitMeter ==
  ASSUME Init
  PROVE  MeterInv
  <1>1. PICK s \in Shapes : chain = [st |-> "open", sub |-> s, probe |-> FALSE, pending |-> 0,
                                     final |-> 0, base |-> 0, week |-> 0]
    BY DEF Init
  <1>2. /\ chain \in Deal /\ chain.st = "open" /\ ~chain.probe /\ chain.pending = 0 /\ chain.final = 0
        /\ chain.base = 0 /\ chain.week = 0
    BY <1>1, MeterAssumption DEF Deal
  <1>3. /\ disk = NoFile /\ disk \in Record /\ ~disk.file
    BY DEF Init, NoFile, Record
  <1>4. /\ mem \in Entry /\ ~mem.up /\ ~mem.reg /\ ~mem.terminal /\ mem.active = 0
    BY DEF Init, NoFile, Record, Entry
  <1>5. /\ delivery \in Delivery /\ delivery.lock = NoHolder
    BY DEF Init, Delivery
  <1>6. /\ req \in [Requests -> Stream] /\ \A r \in Requests : req[r].st = "idle"
    BY DEF Init, NoRequest, Stream
  <1>7. drv \in DriverState /\ drv.pc = "down"
    BY DEF Init, DriverState, Places
  <1>8. flight = {} /\ served = 0
    BY DEF Init
  <1>9. TypeOK
    BY <1>2, <1>3, <1>4, <1>5, <1>6, <1>7, <1>8 DEF TypeOK
  <1>10. DealOK(chain)
    BY <1>2, Sizes, MeterAssumption DEF DealOK, AuthoritativeCap, Lesser
  <1>11. FileOK
    BY <1>2, <1>3, <1>8 DEF FileOK
  <1>12. EntryOK
    BY <1>4, <1>6, <1>7 DEF EntryOK, Serving, DriverPlaces
  <1>13. Slots
    <2>1. Sharing = {}
      BY <1>6 DEF Sharing
    <2>2. QED
      BY <1>4, <1>6, <2>1, FS_EmptySet DEF Slots, Exclusive
  <1>14. Unborn /\ Exhausting
    BY <1>4, <1>5, <1>6, <1>7 DEF Unborn, Exhausting
  <1>15. ClaimsBacked
    BY <1>2, <1>8, Sizes DEF ClaimsBacked, Greater
  <1>16. QED
    BY <1>9, <1>10, <1>11, <1>12, <1>13, <1>14, <1>15 DEF MeterInv

LEMMA StutterMeter ==
  ASSUME MeterInv, UNCHANGED vars
  PROVE  MeterInv'
  <1>1. UNCHANGED <<chain, disk, mem, delivery, req, drv, flight, served>>
    BY DEF vars
  <1>2. TypeOK' /\ DealOK(chain)' /\ FileOK' /\ Unborn' /\ Exhausting' /\ ClaimsBacked'
    BY <1>1 DEF MeterInv, TypeOK, DealOK, AuthoritativeCap, FileOK, Unborn, Exhausting, ClaimsBacked
  <1>3. (Serving' <=> Serving) /\ Held' = Held /\ Sharing' = Sharing
        /\ \A r \in Requests : Exclusive(r)' <=> Exclusive(r)
    BY <1>1 DEF Serving, Held, Sharing, Exclusive
  <1>4. EntryOK' /\ Slots'
    BY <1>1, <1>3 DEF MeterInv, EntryOK, Slots
  <1>5. QED
    BY <1>2, <1>4 DEF MeterInv

LEMMA NextMeter ==
  ASSUME MeterInv, Next
  PROVE  MeterInv'
  <1>1. CASE DriverStep
    BY <1>1, RegisterKeeps, StartKeeps, MovesKeeps, PrepareProbeKeeps, AcceptProbeKeeps,
       ProbeReadbackKeeps, SeedKeeps, ClaimKeeps, FinishDealKeeps, ClosedKeeps DEF DriverStep
  <1>2. CASE KeeperObserves \/ Boot \/ Crash
    BY <1>2, KeeperKeeps, BootKeeps, CrashKeeps
  <1>3. CASE ChainFinalize \/ ChainSettleWeek \/ BuyerStops \/ BuyerDisputes
    BY <1>3, DealStepKeeps
  <1>4. CASE \E c \in flight : LateClaim(c)
    BY <1>4, LateClaimKeeps
  <1>5. CASE \E r \in Requests : GatewayStep(r)
    BY <1>5, CommitBillKeeps, PublishBillKeeps, FinishUnbilledKeeps DEF GatewayStep
  <1>6. CASE \E r \in Requests : \E g \in Grants : AdmitShared(r, g) \/ AdmitExclusive(r, g)
    BY <1>6, AdmitSharedKeeps, AdmitExclusiveKeeps
  <1>7. QED
    BY <1>1, <1>2, <1>3, <1>4, <1>5, <1>6 DEF Next

\* Every reachable state of the metering: the deal's own bounds, a file and an
\* entry that reconcile_deal accepts whatever claim still lands, a count never
\* ahead of the entry and an entry never ahead of the file, one reservation at
\* a time and every live slot counted.
THEOREM MeterInvariant == Spec => []MeterInv
  <1>1. Init => MeterInv
    BY InitMeter
  <1>2. MeterInv /\ [Next]_vars => MeterInv'
    BY NextMeter, StutterMeter
  <1>3. QED
    BY <1>1, <1>2, PTL DEF Spec

\* The cumulative claim the contract holds is covered by the trial tick or by
\* usage of streams that ended cleanly, whatever write failed, process crashed
\* or claim landed late (advance.rs claims only what complete_billing counted).
THEOREM ClaimsAreBacked == Spec => []ClaimsBacked
  <1>1. MeterInv => ClaimsBacked
    BY DEF MeterInv
  <1>2. QED
    BY <1>1, MeterInvariant, PTL

\* While the deal is live, the file on disk, or its absence, is one that
\* reconcile_deal accepts: a crash at any moment is recoverable.
THEOREM RestartAlwaysReconciles == Spec => []RestartReconciles
  <1>1. MeterInv => RestartReconciles
    <2> SUFFICES ASSUME MeterInv, chain.st = "open"
                 PROVE  Accepts(Baseline(disk, chain), chain)
      BY DEF RestartReconciles
    <2>1. TypeOK /\ DealOK(chain) /\ FileOK /\ chain \in Deal
      BY DEF MeterInv, TypeOK
    <2>2. Baseline(disk, chain) \in Record /\ Fits(Baseline(disk, chain), chain, flight)
      BY <2>1, BaselineFits
    <2>3. QED
      BY <2>1, <2>2, FitsAccepted
  <1>2. QED
    BY <1>1, MeterInvariant, PTL

\* Once the whole purchase of an ordinary deal is claimed, no request is being
\* served (the claim that uses it up waits for the last request).
THEOREM PurchaseOutlived == Spec => []NoRequestOutlivesPurchase
  <1>1. MeterInv => NoRequestOutlivesPurchase
    BY DEF MeterInv, Exhausting, NoRequestOutlivesPurchase
  <1>2. QED
    BY <1>1, MeterInvariant, PTL
=============================================================================
