---------------------------- MODULE BuyerSubmit ----------------------------
(***************************************************************************)
(* A buyer's money submission (cli/buyer.rs): one buy or subscription      *)
(* order of a note at a time is signed, recorded in the note's durable     *)
(* journal under the note's money lock, and posted once.  What became of   *)
(* it is decided from facts only: the fills the note confirms and the      *)
(* outcomes the order book announces for it.  The journal is removed when  *)
(* a fact accounts for the money, and a later command submits only when    *)
(* there is none.                                                          *)
(*                                                                         *)
(* The commands are buy, buy --resume, the journal command, the shutdown   *)
(* of a running buyer (which cancels its resting order), subscription      *)
(* place and status, and the adoption of a matched deal.  Each holds the   *)
(* money lock while it runs (the lock is ExclusiveLock's; see PoolLock), so *)
(* one command runs at a time, interleaved with the chain, and a crash     *)
(* leaves the lock behind for the two recovery commands to take over.      *)
(* A refusal that changes nothing is not an action.  Waiting for a fact is *)
(* not taking the next step yet; giving up is an action.                   *)
(*                                                                         *)
(* Orders are all-or-nothing, so a fill is whole, at the order's price or  *)
(* below it.  The book's facts carry the chain's time and are readable Lag *)
(* later; the record carries the client's, which is off by what the        *)
(* preflight admits, behind the chain or ahead of it.                      *)
(***************************************************************************)
EXTENDS Integers, FiniteSets

CONSTANTS
  BuyTerms, SubTerms,    \* volumes and limits of ordinary buys and subscriptions
  Skews,                 \* how far the client's clock may be ahead (below 0: behind)
  Lag,
  MaxSubmits,            \* bound: messages signed over the run
  MaxTime,               \* bound: chain time
  MaxCrashes             \* bound: processes killed

ASSUME SubmitAssumption ==
  /\ BuyTerms \cup SubTerms \subseteq [ticks : Nat, price : Nat]
  /\ Skews \subseteq Int /\ Lag \in Nat
  /\ MaxSubmits \in Nat /\ MaxTime \in Nat /\ MaxCrashes \in Nat

VARIABLES
  now,
  book,      \* what became of each submission
  facts,     \* outcomes the book announced, each with its chain time
  fills,     \* fills the note confirmed
  lock,      \* the money lock: free, held, or left behind by a dead process
  journal,   \* the durable record of the submission under way
  pool,      \* deals recorded in the note pool
  told,      \* deals the journal command named to the operator when it closed
  subs,      \* durable subscription records: submission -> phase
  owed,      \* submissions whose caller has a deal to adopt
  run,       \* the command that holds the lock
  crashes,
  blurred    \* history: something of another order could pass for a record's own
vars == <<now, book, facts, fills, lock, journal, pool, told, subs, owed, run, crashes, blurred>>
chainVars == <<now, book, facts, fills>>

Submit == 1..MaxSubmits
NoJournal == [s |-> 0]
NoTerms == [ticks |-> 0, price |-> 0]
Idle == [pc |-> "idle"]
Kinds == {"buy", "sub"}
Terms(kind) == IF kind = "buy" THEN BuyTerms ELSE SubTerms
Fresh == {s \in Submit : book[s].st = "unsent"}
Pending == journal # NoJournal

Init ==
  /\ now = 0
  /\ book = [s \in Submit |-> [st |-> "unsent", kind |-> "buy", terms |-> NoTerms]]
  /\ facts = {} /\ fills = {} /\ lock = "free" /\ journal = NoJournal
  /\ pool = {} /\ told = {} /\ subs = [s \in Submit |-> "none"] /\ owed = {}
  /\ run = Idle /\ crashes = 0 /\ blurred = FALSE
-----------------------------------------------------------------------------
(***************************************************************************)
(* The chain: what the order book does with a submission.                  *)
(***************************************************************************)
Room == now + Lag <= MaxTime
\* A rejection names no order (of is not in the message).
Fact(what, s) == [what |-> what, of |-> s, id |-> IF what = "rejected" THEN 0 ELSE s,
                  kind |-> book[s].kind, terms |-> book[s].terms, at |-> now]
Becomes(s, st) == book' = [book EXCEPT ![s].st = st]
ClientUnchanged == UNCHANGED <<lock, journal, pool, told, subs, owed, run, crashes>>
Quietly == UNCHANGED blurred /\ ClientUnchanged

\* What the client has to tell apart: another order of the note placed or refused
\* no earlier than the time the record gives, or filled since within its terms.
Blur ==
  /\ Pending
  /\ \/ \E f \in facts : f.what \in {"placed", "rejected"} /\ f.of # journal.s /\ f.at >= journal.created
     \/ /\ journal.kind = "buy"
        /\ \E f \in fills : /\ f.id \notin journal.cursor \cup {journal.s}
                            /\ f.ticks = journal.terms.ticks /\ f.price <= journal.terms.price

Land(s) ==
  /\ book[s].st = "flight" /\ Room
  /\ \E end \in {"resting", "rejected"} :
       /\ Becomes(s, end)
       /\ facts' = facts \cup {Fact(IF end = "resting" THEN "placed" ELSE "rejected", s)}
  /\ UNCHANGED <<now, fills>> /\ Quietly
Lose(s) ==
  /\ book[s].st = "flight" /\ Becomes(s, "lost")
  /\ UNCHANGED <<now, facts, fills>> /\ Quietly
Fill(s) ==
  /\ book[s].st = "resting" /\ Room /\ Becomes(s, "filled")
  /\ \E p \in 1..book[s].terms.price :
       fills' = fills \cup {[id |-> s, ticks |-> book[s].terms.ticks, price |-> p, at |-> now]}
  /\ UNCHANGED <<now, facts>> /\ ClientUnchanged
  /\ blurred' = (blurred \/ Blur')
\* The operator's orders cancel, or the one a stopping buyer sends.
Cancelled(s) ==
  /\ book[s].st = "resting" /\ Room /\ Becomes(s, "cancelled")
  /\ facts' = facts \cup {Fact("cancelled", s)}
  /\ UNCHANGED <<now, fills>> /\ Quietly
Swept(s) ==
  /\ book[s].st = "resting" /\ Room /\ Becomes(s, "swept")
  /\ facts' = facts \cup {Fact("expired", s), Fact("refunded", s)}
  /\ UNCHANGED <<now, fills>> /\ Quietly
\* An order that is still being matched lapses: its money comes back and nothing
\* else is announced.
Lapsed(s) ==
  /\ book[s].st = "resting" /\ Room /\ Becomes(s, "lapsed")
  /\ facts' = facts \cup {Fact("refunded", s)}
  /\ UNCHANGED <<now, fills>> /\ Quietly
Tick ==
  /\ now < MaxTime /\ now' = now + 1
  /\ UNCHANGED <<book, facts, fills>> /\ Quietly
-----------------------------------------------------------------------------
(***************************************************************************)
(* Reading the facts.                                                      *)
(***************************************************************************)
\* The preflight admits a clock up to 30 s behind and 250 s ahead.
LocalClock == {now + d : d \in Skews}
Read == {f \in facts : f.at + Lag <= now}
\* poll_inference_filled_tcs past the record's cursor.
NewFills(j) == {f \in fills : f.at + Lag <= now /\ f.id \notin j.cursor}
\* correlated_buy_token_contract, of a record that expects no particular deal.
Correlates(f, j) == f.ticks = j.terms.ticks /\ f.price <= j.terms.price
Matching(fs, j) == {f.id : f \in {g \in fs : Correlates(g, j)}}

\* classify_buyer_submit_standing
\* Slip: every fact of the note is taken to be about the record.
MineAnyTime(f, j) == TRUE
Mine(f, j) == f.at >= j.created
Placements(j) == {f.id : f \in {g \in Read : g.what = "placed" /\ Mine(g, j) /\ g.terms = j.terms}}
OrderId(j) ==
  IF j.oid # 0 THEN j.oid
  ELSE IF Cardinality(Placements(j)) = 1 THEN CHOOSE i \in Placements(j) : TRUE ELSE 0
Announced(what, id) == \E f \in Read : f.what = what /\ f.id = id
Standing(j) ==
  IF OrderId(j) = 0
    THEN IF \E f \in Read : f.what = "rejected" /\ Mine(f, j) THEN "rejected" ELSE "unresolved"
  ELSE IF Announced("cancelled", OrderId(j)) THEN "cancelled"
  ELSE IF Announced("expired", OrderId(j))
    THEN IF Announced("refunded", OrderId(j)) THEN "expired" ELSE "unpaid"
  ELSE IF Announced("placed", OrderId(j)) THEN "resting" ELSE "unresolved"
\* Slip: a swept order is left out of the list of outcomes that close.
ClosesListed(standing) == standing \in {"cancelled", "rejected"}
\* EscrowRelease::ProvenByChain
Closes(standing) == standing \in {"cancelled", "rejected", "expired"}
-----------------------------------------------------------------------------
(***************************************************************************)
(* The commands.                                                           *)
(***************************************************************************)
Goes(step) == run' = [run EXCEPT !.pc = step]
\* The command returns, with or without an error, and the lock is dropped.
Exits == run' = Idle /\ lock' = "free"
ChainUnchanged == UNCHANGED <<chainVars, crashes, blurred>>
Command(cmd, kind, terms, step) ==
  [pc |-> step, cmd |-> cmd, kind |-> kind, terms |-> terms, s |-> 0, created |-> 0,
   amb |-> FALSE, got |-> {}, standing |-> "none"]
Begins(cmd, kind, terms, step) ==
  run' = Command(cmd, kind, terms, step) /\ lock' = "held"

\* execute_buyer_quote_submit with nothing pending.
BuyFresh ==
  /\ run = Idle /\ lock = "free" /\ ~Pending
  /\ \E t \in BuyTerms : Begins("buy", "buy", t, "prepare")
  /\ UNCHANGED <<journal, pool, told, subs, owed>> /\ ChainUnchanged
\* start_durable_buyer_submit: a pending record must be of this very invocation.
SameInvocation(t) == journal.kind = "buy" /\ journal.terms = t
BuyAgain ==
  /\ run = Idle /\ lock = "free" /\ Pending
  /\ \E t \in BuyTerms : SameInvocation(t) /\ Begins("buy", "buy", t, "poll")
  /\ UNCHANGED <<journal, pool, told, subs, owed>> /\ ChainUnchanged
\* try_acquire_for_recovery, with nothing to do for the command that asked: the
\* lock of a dead process is taken over and dropped.
FreeLock ==
  /\ run = Idle /\ lock = "left" /\ lock' = "free"
  /\ UNCHANGED <<journal, pool, told, subs, owed, run>> /\ ChainUnchanged
\* buy --resume: raise_pending_buyer_money_before_fresh_reads, or the replay of
\* a subscription's record.
ResumeBuy ==
  /\ run = Idle /\ lock \in {"free", "left"} /\ Pending /\ journal.kind = "buy"
  /\ Begins("resume", "buy", journal.terms, "poll")
  /\ UNCHANGED <<journal, pool, told, subs, owed>> /\ ChainUnchanged
ResumeSubscription ==
  /\ run = Idle /\ lock \in {"free", "left"} /\ Pending /\ journal.kind = "sub"
  /\ Begins("resume", "sub", journal.terms, "subplaced")
  /\ UNCHANGED <<journal, pool, told, subs, owed>> /\ ChainUnchanged
\* run_buyer_submit_journal
StartJournal ==
  /\ run = Idle /\ lock \in {"free", "left"} /\ Pending /\ journal.kind = "buy"
  /\ Begins("journal", "buy", journal.terms, "judge")
  /\ UNCHANGED <<journal, pool, told, subs, owed>> /\ ChainUnchanged
\* cancel_resting_buyer_order
StartStop ==
  /\ run = Idle /\ lock = "free" /\ Pending /\ journal.kind = "buy"
  /\ Begins("stop", "buy", journal.terms, "stopfacts")
  /\ UNCHANGED <<journal, pool, told, subs, owed>> /\ ChainUnchanged
\* subscription place
StartSubscription ==
  /\ run = Idle /\ lock = "free"
  /\ \E t \in SubTerms :
       IF Pending THEN journal.kind = "sub" /\ Begins("place", "sub", journal.terms, "subplaced")
       ELSE Begins("place", "sub", t, "prepare")
  /\ UNCHANGED <<journal, pool, told, subs, owed>> /\ ChainUnchanged

\* place_inference_buy_with_submit_identity up to the POST: the reads that
\* anchor the cursor, the signed message, the record.
Prepare ==
  /\ run.pc = "prepare" /\ Fresh # {}
  /\ \E c \in LocalClock :
       run' = [run EXCEPT !.pc = "record", !.created = c,
                          !.got = {f.id : f \in {g \in fills : g.at + Lag <= now}},
                          !.s = CHOOSE s \in Fresh : \A u \in Fresh : s <= u]
  /\ UNCHANGED <<lock, journal, pool, told, subs, owed>> /\ ChainUnchanged
Record ==
  /\ run.pc = "record" /\ run' = [run EXCEPT !.pc = "post", !.got = {}]
  /\ journal' = [s |-> run.s, kind |-> run.kind, terms |-> run.terms, created |-> run.created,
                 oid |-> 0, cursor |-> run.got, resolved |-> {}]
  /\ UNCHANGED <<chainVars, crashes, lock, pool, told, subs, owed>>
  /\ blurred' = (blurred \/ Blur')
\* A read fails before the POST.
PrepareFails ==
  /\ run.pc = "prepare" /\ Exits
  /\ UNCHANGED <<journal, pool, told, subs, owed>> /\ ChainUnchanged

\* Slip: an answer that is no acceptance clears the record.
PostUncertainClears ==
  /\ run.pc = "post"
  /\ \E end \in {"flight", "lost", "refused"}, amb \in BOOLEAN :
       /\ (end = "lost" => amb) /\ (end = "refused" => ~amb)
       /\ book' = [book EXCEPT ![run.s] = [st |-> end, kind |-> run.kind, terms |-> run.terms]]
       /\ run' = [run EXCEPT !.amb = amb,
                    !.pc = IF end = "refused" \/ amb THEN "clear"
                           ELSE IF run.kind = "buy" THEN "await" ELSE "subplaced"]
  /\ UNCHANGED <<now, facts, fills, crashes, blurred, lock, journal, pool, told, subs, owed>>

\* send_message_routed_money_once: accepted, ambiguous (it may have landed or
\* not), or refused before or by the endpoint, which alone clears the record.  The
\* same message is posted again (retry_buyer_money_submit) after a refusal that
\* says it was not taken: the outcome is that of the last try.
Post ==
  /\ run.pc = "post"
  /\ \E end \in {"flight", "lost", "refused"}, amb \in BOOLEAN :
       /\ (end = "lost" => amb) /\ (end = "refused" => ~amb)
       /\ book' = [book EXCEPT ![run.s] = [st |-> end, kind |-> run.kind, terms |-> run.terms]]
       /\ run' = [run EXCEPT !.amb = amb,
                    !.pc = IF end = "refused" THEN "clear"
                           ELSE IF run.kind = "buy" THEN "await" ELSE "subplaced"]
  /\ UNCHANGED <<now, facts, fills, crashes, blurred, lock, journal, pool, told, subs, owed>>

\* complete_buyer_submit_with_journal: the last new fill must be this order's.
Await ==
  /\ run.pc = "await" /\ NewFills(journal) # {}
  /\ \E f \in NewFills(journal) :
       /\ \A g \in NewFills(journal) : g.at <= f.at
       /\ IF Correlates(f, journal)
            THEN run' = [run EXCEPT !.pc = "resolve", !.got = {f.id}] /\ UNCHANGED lock
            ELSE Exits
  /\ UNCHANGED <<journal, pool, told, subs, owed>> /\ ChainUnchanged
GiveUp ==
  /\ run.pc \in {"await", "subplaced", "stopfills2"} /\ Exits
  /\ UNCHANGED <<journal, pool, told, subs, owed>> /\ ChainUnchanged

\* reconcile_pending_buyer_submit
Poll ==
  /\ run.pc = "poll"
  /\ IF journal.resolved # {} THEN run' = [run EXCEPT !.pc = "resolve", !.got = journal.resolved] /\ UNCHANGED lock
     ELSE IF NewFills(journal) = {} THEN Goes("facts") /\ UNCHANGED lock
     ELSE IF Matching(NewFills(journal), journal) = {} THEN Exits
     ELSE run' = [run EXCEPT !.pc = "resolve", !.got = Matching(NewFills(journal), journal)] /\ UNCHANGED lock
  /\ UNCHANGED <<journal, pool, told, subs, owed>> /\ ChainUnchanged
\* persist_resolved_buyer_submits: the record first, the pool after it.
Resolve ==
  /\ run.pc = "resolve" /\ Goes("pool")
  /\ journal' = [journal EXCEPT !.resolved = run.got]
  /\ UNCHANGED <<lock, pool, told, subs, owed>> /\ ChainUnchanged
WritePool ==
  /\ run.pc = "pool"
  /\ pool' = pool \cup run.got
  /\ IF Cardinality(run.got) = 1 /\ run.cmd = "buy" /\ run.s # 0 /\ ~run.amb
       THEN Goes("clear") /\ UNCHANGED <<lock, owed>>
       ELSE /\ Exits
            /\ owed' = IF run.cmd # "stop" /\ Cardinality(run.got) = 1
                         THEN owed \cup {journal.s} ELSE owed
  /\ UNCHANGED <<journal, told, subs>> /\ ChainUnchanged

\* resolve_unfilled_buyer_submit, and the second half of the journal command.
ReadFacts ==
  /\ run.pc = "facts"
  /\ journal' = [journal EXCEPT !.oid = OrderId(journal)]
  /\ IF Closes(Standing(journal)) THEN Goes("clear") /\ UNCHANGED lock ELSE Exits
  /\ UNCHANGED <<pool, told, subs, owed>> /\ ChainUnchanged
\* clear_buyer_submit_journal.  A buy that closed an earlier record goes on to
\* place its own order.
Clear ==
  /\ run.pc = "clear" /\ journal' = NoJournal
  /\ IF run.cmd = "buy" /\ run.s = 0 THEN Goes("prepare") /\ UNCHANGED lock ELSE Exits
  /\ UNCHANGED <<pool, told, subs, owed>> /\ ChainUnchanged
\* The journal command: exactly one fill with the record's terms closes it.
Judge ==
  /\ run.pc = "judge"
  /\ LET m == Matching(NewFills(journal), journal) IN
       \/ m = {} /\ Goes("facts") /\ UNCHANGED <<lock, told>>
       \/ Cardinality(m) = 1 /\ Goes("clear") /\ told' = told \cup m /\ UNCHANGED lock
       \/ Cardinality(m) > 1 /\ Exits /\ UNCHANGED told
  /\ UNCHANGED <<journal, pool, subs, owed>> /\ ChainUnchanged

\* The stopping buyer reads the facts and then the fills, before its cancel and
\* after it; only after it does a fill count before a fact.
StopFacts ==
  /\ run.pc \in {"stopfacts", "stopfacts2"}
  /\ IF run.pc = "stopfacts" /\ Closes(Standing(journal)) THEN Goes("clear")
     ELSE run' = [run EXCEPT !.standing = Standing(journal),
                             !.pc = IF run.pc = "stopfacts" THEN "stopfills" ELSE "stopfills2"]
  /\ UNCHANGED <<lock, journal, pool, told, subs, owed>> /\ ChainUnchanged
StopFills ==
  /\ run.pc \in {"stopfills", "stopfills2"}
  /\ LET new == NewFills(journal)  m == Matching(new, journal) IN
       \/ /\ new # {} /\ Cardinality(m) = 1
          /\ run' = [run EXCEPT !.pc = "resolve", !.got = m] /\ UNCHANGED <<lock, journal>>
       \/ new # {} /\ Cardinality(m) # 1 /\ Exits /\ UNCHANGED journal
       \/ /\ new = {} /\ run.pc = "stopfills" /\ run.standing = "resting"
          /\ journal' = [journal EXCEPT !.oid = OrderId(journal)]
          /\ Goes("stopfacts2") /\ UNCHANGED lock
       \/ new = {} /\ run.pc = "stopfills" /\ run.standing # "resting" /\ Exits /\ UNCHANGED journal
       \/ new = {} /\ run.pc = "stopfills2" /\ Closes(run.standing) /\ Goes("clear") /\ UNCHANGED <<lock, journal>>
  /\ UNCHANGED <<pool, told, subs, owed>> /\ ChainUnchanged
-----------------------------------------------------------------------------
(***************************************************************************)
(* Subscriptions: reconcile_subscription_submit and what follows it.       *)
(***************************************************************************)
\* The placement above the recorded id floor with the exact terms.
OwnPlacement(j) == {f \in Read : f.what = "placed" /\ f.kind = "sub" /\ f.id >= j.s /\ f.terms = j.terms}
Matched(s) == \E f \in fills : f.id = s /\ f.at + Lag <= now
SubPlaced ==
  /\ run.pc = "subplaced"
  /\ \E f \in OwnPlacement(journal) :
       /\ OwnPlacement(journal) = {f}
       /\ subs' = [subs EXCEPT ![f.id] = IF Matched(f.id) THEN "matched"
                                         ELSE IF @ = "none" THEN "resting" ELSE @]
  /\ Goes("subactive")
  /\ UNCHANGED <<lock, journal, pool, told, owed>> /\ ChainUnchanged
\* subscription_order_active: resting or matched, never both or neither.
SubActive ==
  /\ run.pc = "subactive"
  /\ IF (book[journal.s].st = "resting") # (subs[journal.s] = "matched")
       THEN Goes("clear") /\ UNCHANGED lock
       ELSE Exits
  /\ UNCHANGED <<journal, pool, told, subs, owed>> /\ ChainUnchanged
\* subscription status: sync_subscription_match_once.
SubStatus(s) ==
  /\ run = Idle /\ lock = "free" /\ ~Pending /\ subs[s] = "resting" /\ Matched(s)
  /\ subs' = [subs EXCEPT ![s] = "matched"]
  /\ UNCHANGED <<lock, journal, pool, told, owed, run>> /\ ChainUnchanged
\* mark_cancelled_subscription_order_terminal, after a confirmed cancel.
SubCancelled(s) ==
  /\ run = Idle /\ lock = "free" /\ subs[s] = "resting" /\ Announced("cancelled", s)
  /\ subs' = [subs EXCEPT ![s] = "terminal"]
  /\ UNCHANGED <<lock, journal, pool, told, owed, run>> /\ ChainUnchanged

\* clear_adopted_buyer_money_journal, once the service has its deal handle.
Adopt(s) ==
  /\ run = Idle /\ lock = "free" /\ s \in owed
  /\ owed' = owed \ {s}
  /\ journal' = IF Pending /\ journal.s = s /\ journal.kind = "buy" /\ journal.resolved # {}
                  THEN NoJournal ELSE journal
  /\ UNCHANGED <<lock, pool, told, subs, run>> /\ ChainUnchanged

\* The process dies: the files and the lock stay, its plans do not.
Crash ==
  /\ run # Idle /\ crashes < MaxCrashes
  /\ crashes' = crashes + 1 /\ run' = Idle /\ lock' = "left" /\ owed' = {}
  /\ UNCHANGED <<chainVars, journal, pool, told, subs, blurred>>

Step ==
  /\ run # Idle
  /\ \/ Prepare \/ PrepareFails \/ Record \/ Post \/ Await \/ GiveUp \/ Poll \/ Resolve
     \/ WritePool \/ ReadFacts \/ Clear \/ Judge \/ StopFacts \/ StopFills
     \/ SubPlaced \/ SubActive
Start ==
  \/ BuyFresh \/ BuyAgain \/ FreeLock \/ ResumeBuy \/ ResumeSubscription \/ StartJournal
  \/ StartStop \/ StartSubscription
Book == \E s \in Submit : Land(s) \/ Lose(s) \/ Fill(s) \/ Cancelled(s) \/ Swept(s) \/ Lapsed(s)
Next ==
  \/ Start \/ Step \/ Book \/ Tick \/ Crash
  \/ \E s \in Submit : SubStatus(s) \/ SubCancelled(s) \/ Adopt(s)
Spec == Init /\ [][Next]_vars
\* A command that runs comes to its end, time passes, and the operator runs the
\* journal command again and again.
FairSpec == Spec /\ WF_vars(Step) /\ WF_vars(Tick) /\ SF_vars(StartJournal)
-----------------------------------------------------------------------------

\* What is out is on the record, in the pool, told, or a subscription's.
Recorded(s) == Pending /\ journal.s = s
MoneyOnRecord ==
  \A s \in Submit :
    /\ book[s].st = "flight" => Recorded(s)
    /\ book[s].st = "resting" => Recorded(s) \/ subs[s] = "resting"
    /\ book[s].st = "filled" => Recorded(s) \/ s \in pool \cup told \/ subs[s] \in {"resting", "matched"}
\* Money that is out and not accounted for is always recorded: a submission in
\* flight or at rest, and a fill nobody was told of, is the one the journal
\* names, so that no second submission can be made beside it.  (As long as no other
\* order of the note could pass for the one on record: attribution is by time and
\* terms, and a clock behind the chain or equal terms can defeat it.)
MoneyRecorded == ~blurred => MoneyOnRecord

\* What the record says of the order is true of its own order, unless another one
\* could pass for it: the id the book gave it and the deal it was matched to.
RecordIsItsOwn ==
  ~blurred /\ Pending /\ journal.kind = "buy" =>
    journal.oid \in {0, journal.s} /\ journal.resolved \subseteq {journal.s}

\* The book has told how the order on record ended, in facts no older than the record:
\* a clock ahead of the chain dates the record after its own order's facts, and the
\* refund of a lapsed order tells no end.
Dated(what) == \E f \in facts : f.what = what /\ f.of = journal.s /\ f.at >= journal.created
ToldEnd ==
  \/ book[journal.s].st = "filled"
  \/ book[journal.s].st = "rejected" /\ Dated("rejected")
  \/ book[journal.s].st \in {"cancelled", "swept"} /\ Dated("placed")

\* A buy whose end the book has told does not block its note for good, whatever
\* crashed meanwhile, provided no other order could pass for it.
Ended == ~blurred /\ Pending /\ journal.kind = "buy" /\ ToldEnd
EndedRecordsClose == \A s \in Submit : (Ended /\ journal.s = s) ~> ~(Ended /\ journal.s = s)
=============================================================================
