---------------------------- MODULE QuotaJournal ----------------------------
(***************************************************************************)
(* The record of the purchase a buyer is being served from                 *)
(* (buyer/usage_quota_journal.rs, the quota part of buyer/usage.rs,        *)
(* buyer/api/usage.rs): a journal file written ahead of one SQLite row.    *)
(* Every HTTP handler synchronises the record with the serving route       *)
(* before it answers; route swaps, the settlement of the serving deal, the *)
(* background reconciliation, the close command, failing writes and        *)
(* crashes come in between.                                                *)
(*                                                                         *)
(* The store's methods hold its mutex, so each is one step; the reads of   *)
(* the chain between them are steps of their own.  A deal's terms never    *)
(* change on the chain, so a record only says whether it has them.         *)
(***************************************************************************)
EXTENDS Naturals, FiniteSetsExt

CONSTANTS
  Deals,       \* the deals of the buyer, one of them perhaps an old purchase
  Handlers,    \* concurrent HTTP handlers
  Swapper,     \* the task that installs a new route
  MaxRoutes,   \* bound: routes installed in the whole history
  MaxFaults    \* bound: failing writes and crashes

NoDeal == "no deal"

ASSUME QuotaAssumption ==
  /\ NoDeal \notin Deals
  /\ Swapper \notin Handlers
  /\ MaxRoutes \in Nat /\ MaxFaults \in Nat

VARIABLES
  journal,   \* the journal file
  row,       \* the deal_quota row
  facts,     \* deals with a settlement fact in money_facts
  chain,     \* each deal's contract: "funded", "open", "disputed", "gone"
  proc,      \* the serving process: its route and the route's session
  task,      \* each handler's place in its code
  faults,    \* failures so far
  rank,      \* when each deal last became the route (0: never)
  seen,      \* the deal last found opened, or used by a paid request
  stopped,   \* deals whose end is recorded, as far as the store promises it
  answer     \* the last answer of a handler

vars == <<journal, row, facts, chain, proc, task, faults, rank, seen, stopped, answer>>

Tasks == Handlers \cup {Swapper}

NoJournal == [deal |-> NoDeal]
NoRow     == [deal |-> NoDeal]
Records   == [deal : Deals, terms : BOOLEAN, closed : BOOLEAN, pending : SUBSET Deals]
Rows      == [deal : Deals, closed : BOOLEAN]

Down == [up |-> FALSE, route |-> NoDeal, bound |-> FALSE, cached |-> FALSE,
         delivered |-> FALSE, phase |-> "live", known |-> FALSE, closing |-> NoDeal]
Idle == [pc |-> "idle", deal |-> NoDeal, want |-> "answer",
         known |-> 0, wasSettled |-> FALSE]
None == [deal |-> NoDeal, closed |-> TRUE, since |-> 0, known |-> 0, ended |-> FALSE]

-----------------------------------------------------------------------------
(* The store                                                               *)

\* What the journal file says: an early file without terms was an unresolved
\* route.
ReadJournal ==
  IF journal # NoJournal /\ ~journal.terms /\ journal.pending = {}
  THEN [journal EXCEPT !.pending = {journal.deal}] ELSE journal

\* The purchase a change starts from: the journal's, or an older version's row.
Previous ==
  IF journal # NoJournal \/ row = NoRow THEN ReadJournal
  ELSE [deal |-> row.deal, terms |-> TRUE, closed |-> row.closed, pending |-> {}]

Outcome(j, r, ok) == [journal |-> j, row |-> r, ok |-> ok]

\* A write that replaces the file can fail before the rename, or after it,
\* when only the directory could not be synchronised.
Written(j) ==
  {Outcome(j, row, TRUE)}
  \cup (IF faults < MaxFaults THEN {Outcome(journal, row, FALSE), Outcome(j, row, FALSE)} ELSE {})

Restored(j) ==
  IF row # NoRow /\ row.deal = j.deal /\ (row.closed \/ ~j.closed)
  THEN row ELSE [deal |-> j.deal, closed |-> j.closed \/ j.deal \in facts]

Restore(j, requireTerms) ==
  IF j = NoJournal THEN {Outcome(j, row, TRUE)}
  ELSE IF j.pending # {} \/ ~j.terms THEN {Outcome(j, row, ~requireTerms)}
  ELSE {Outcome(j, Restored(j), TRUE)}
       \cup (IF faults < MaxFaults THEN {Outcome(j, row, FALSE)} ELSE {})

\* Slip: nothing is recorded before the first read of the chain.
BeginLater(d) == {Outcome(journal, row, TRUE)}

Begin(d) ==
  LET j == IF journal = NoJournal
           THEN [deal |-> d, terms |-> FALSE, closed |-> FALSE, pending |-> {}] ELSE ReadJournal
  IN  IF d \in j.pending THEN {Outcome(journal, row, TRUE)}
      ELSE Written([j EXCEPT !.pending = @ \cup {d}])

Discard(d) ==
  LET j == ReadJournal
      left == [j EXCEPT !.pending = @ \ {d}]
  IN  IF j = NoJournal THEN {Outcome(j, row, TRUE)}
      ELSE IF d \notin j.pending THEN {Outcome(journal, row, TRUE)}
      ELSE Written(IF left.terms \/ left.pending # {} THEN left ELSE NoJournal)

HasQuota(d) ==
  IF journal # NoJournal
  THEN LET j == ReadJournal IN j.pending = {} /\ j.deal = d /\ j.terms
  ELSE row # NoRow /\ row.deal = d

\* Slip: a purchase that is bound again starts open.
OpenForgets(d) ==
  UNION {IF w.ok THEN Restore(w.journal, TRUE) ELSE {w} :
           w \in Written([deal |-> d, terms |-> TRUE, closed |-> FALSE, pending |-> {}])}

Open(d) ==
  LET was == Previous
      j == [deal |-> d, terms |-> TRUE, pending |-> {},
            closed |-> IF was # NoJournal /\ was.deal = d THEN was.closed ELSE FALSE]
  IN  UNION {IF w.ok THEN Restore(w.journal, TRUE) ELSE {w} : w \in Written(j)}

Close(d) ==
  LET was == Previous
      marked == IF row # NoRow /\ row.deal = d THEN [row EXCEPT !.closed = TRUE] ELSE row
      first == IF was # NoJournal /\ was.deal = d /\ ~was.closed
               THEN Written([was EXCEPT !.closed = TRUE]) ELSE {Outcome(journal, row, TRUE)}
  IN  UNION {IF w.ok
             THEN {Outcome(w.journal, marked, TRUE)}
                  \cup (IF faults < MaxFaults THEN {Outcome(w.journal, row, FALSE)} ELSE {})
             ELSE {w} : w \in first}

\* A store method ends with one of its outcomes.
Does(outcomes, o) ==
  /\ o \in outcomes
  /\ journal' = o.journal /\ row' = o.row
  /\ faults' = IF o.ok \/ faults = MaxFaults THEN faults ELSE faults + 1

-----------------------------------------------------------------------------
(* A handler synchronises the record, then serves or answers               *)

Kept == UNCHANGED <<facts, chain, rank, seen, stopped>>
StoreKept == UNCHANGED <<journal, row, faults>>
\* An answer is looked at in the step that gives it.
Silent == answer' = None
At(t, pc) == proc.up /\ task[t].pc = pc
Go(t, pc) == task' = [task EXCEPT ![t].pc = pc]

\* The session of the route knows that the deal has ended, or is disputed.
Settled == proc.phase = "settled"
KnownTerminal == proc.known \/ Settled

\* The local API takes no request for the route any more.
Closed == proc.known \/ proc.phase # "live"

\* A contract that has ended or is in dispute serves no purchase any more; one
\* that waits for its seller or is open may be resumed.
Over(d) == chain[d] \in {"disputed", "gone"}

\* The route is read-locked from the check to the end of the synchronisation
\* and write-locked by a swap.
Syncing(t) == task[t].pc \in {"check", "begin", "state", "terms", "open", "tail", "discard"}

Request(t, want) ==
  /\ proc.up /\ task[t].pc = "idle" /\ ~Syncing(Swapper)
  /\ want = "serve" => proc.route # NoDeal /\ ~Closed
  /\ task' = [task EXCEPT ![t] =
       [Idle EXCEPT !.pc = IF proc.route = NoDeal THEN "answer" ELSE "check",
                    !.deal = proc.route, !.want = want,
                    !.known = IF seen = NoDeal THEN 0 ELSE rank[seen],
                    !.wasSettled = Settled]]
  /\ Kept /\ StoreKept /\ UNCHANGED proc /\ Silent

Fails(t, notOpened) ==
  IF task[t].want = "answer" /\ notOpened THEN Go(t, "answer")
  ELSE task' = [task EXCEPT ![t] = Idle]

Check(t) ==
  /\ At(t, "check")
  /\ \E saved \in {HasQuota(task[t].deal)} \cup (IF faults < MaxFaults THEN {FALSE} ELSE {}) :
       Go(t, IF saved THEN "tail" ELSE IF proc.cached THEN "open" ELSE "begin")
  /\ Kept /\ StoreKept /\ UNCHANGED proc /\ Silent

\* One handler at a time runs the initialiser of the session's terms; the
\* others wait for it and take its value.
BeginQuota(t) ==
  /\ At(t, "begin")
  /\ \A u \in Tasks \ {t} : task[u].pc \notin {"state", "terms", "discard"}
  /\ IF proc.cached THEN Go(t, "open") /\ StoreKept
     ELSE \E o \in Begin(task[t].deal) :
            Does({o}, o) /\ (IF o.ok THEN Go(t, "state") ELSE Fails(t, FALSE))
  /\ Kept /\ UNCHANGED proc /\ Silent

ReadState(t) ==
  /\ At(t, "state")
  /\ \/ chain[task[t].deal] = "funded" /\ Go(t, "discard") /\ UNCHANGED proc
     \/ /\ chain[task[t].deal] \in {"open", "disputed"} /\ Go(t, "terms")
        /\ proc' = [proc EXCEPT !.bound = TRUE]
     \/ Fails(t, FALSE) /\ UNCHANGED proc
  /\ seen' = IF task'[t].pc = "terms" THEN task[t].deal ELSE seen
  /\ StoreKept /\ UNCHANGED <<facts, chain, rank, stopped>> /\ Silent

DiscardQuota(t) ==
  /\ At(t, "discard")
  /\ \E o \in Discard(task[t].deal) : Does({o}, o) /\ Fails(t, o.ok)
  /\ Kept /\ UNCHANGED proc /\ Silent

ReadTerms(t) ==
  /\ At(t, "terms")
  /\ \/ /\ chain[task[t].deal] \in {"open", "disputed"} /\ Go(t, "open")
        /\ proc' = [proc EXCEPT !.cached = TRUE]
     \/ Fails(t, FALSE) /\ UNCHANGED proc
  /\ Kept /\ StoreKept /\ Silent

\* The record names one purchase.  When another takes its place, what it said
\* about a deal that can still be resumed is lost.
OpenQuota(t) ==
  /\ At(t, "open")
  /\ \E o \in Open(task[t].deal) :
       /\ Does({o}, o) /\ (IF o.ok THEN Go(t, "tail") ELSE Fails(t, FALSE))
       /\ stopped' = {d \in stopped : Over(d) \/ d = task[t].deal \/ o.journal = journal}
  /\ UNCHANGED <<facts, chain, rank, seen, proc>> /\ Silent

Tail(t) ==
  /\ At(t, "tail")
  /\ proc' = [proc EXCEPT !.bound = TRUE]
  /\ LET done == IF task[t].want = "swap" THEN task' = [task EXCEPT ![t] = Idle]
                 ELSE Go(t, task[t].want)
     IN  IF ~KnownTerminal THEN done /\ StoreKept /\ UNCHANGED stopped
         ELSE \E o \in Close(task[t].deal) :
                /\ Does({o}, o)
                /\ IF o.ok THEN done /\ stopped' = stopped \cup {task[t].deal}
                   ELSE Fails(t, FALSE) /\ UNCHANGED stopped
  /\ UNCHANGED <<facts, chain, rank, seen>> /\ Silent

\* A synchronised request is carried by the deal it was given, unless that
\* session has been closed or replaced since.
Serve(t) ==
  /\ At(t, "serve")
  /\ task' = [task EXCEPT ![t] = Idle]
  /\ IF proc.route = task[t].deal /\ ~Closed
     THEN seen' = task[t].deal /\ proc' = [proc EXCEPT !.delivered = TRUE]
     ELSE UNCHANGED <<seen, proc>>
  /\ StoreKept /\ UNCHANGED <<facts, chain, rank, stopped>> /\ Silent

Answer(t) ==
  /\ At(t, "answer")
  /\ \E o \in Restore(ReadJournal, TRUE) :
       /\ Does({[o EXCEPT !.journal = journal]}, [o EXCEPT !.journal = journal])
       /\ answer' = IF ~o.ok \/ o.row = NoRow THEN None
                    ELSE [deal |-> o.row.deal, closed |-> o.row.closed,
                          since |-> rank[o.row.deal], known |-> task[t].known,
                          ended |-> \/ o.row.deal \in stopped
                                    \/ (task[t].wasSettled /\ task[t].deal = o.row.deal)]
  /\ task' = [task EXCEPT ![t] = Idle]
  /\ Kept /\ UNCHANGED proc

-----------------------------------------------------------------------------
(* Routes, settlement, reconciliation, the close command, faults           *)

Routes == Max({rank[d] : d \in Deals})

\* A new purchase becomes the route once the old one has ended or delivered
\* nothing; after a restart the process may also resume an earlier one.
Install(d) ==
  /\ proc.up /\ task[Swapper].pc = "idle" /\ Routes < MaxRoutes
  /\ chain[d] \in {"funded", "open"}
  /\ proc.route = NoDeal \/ rank[d] = 0
  /\ proc.route = NoDeal \/ Settled \/ ~proc.delivered
  /\ proc' = [Down EXCEPT !.up = TRUE, !.route = d, !.closing = proc.closing]
  /\ rank' = [rank EXCEPT ![d] = Routes + 1]
  /\ task' = [task EXCEPT ![Swapper] =
       [Idle EXCEPT !.pc = "check", !.deal = d, !.want = "swap"]]
  /\ StoreKept /\ UNCHANGED <<facts, chain, seen, stopped>> /\ Silent

Swap(d) == Install(d) /\ \A t \in Handlers : ~Syncing(t)

\* A closure is recorded when the record it met was of that deal.
Ends(d, o) ==
  stopped' = IF o.ok /\ (o.journal.deal = d \/ (o.journal = NoJournal /\ o.row.deal = d))
             THEN stopped \cup {d} ELSE stopped

\* Closing the record of the route, when a store is bound to its session.  A
\* failure is logged and ignored.
CloseUsageQuota ==
  IF ~proc.bound THEN StoreKept /\ UNCHANGED stopped
  ELSE \E o \in Close(proc.route) : Does({o}, o) /\ Ends(proc.route, o)

\* An explicit STOP closes the record and the local API before it asks the
\* chain.
Stop ==
  /\ proc.up /\ proc.route # NoDeal /\ proc.phase \in {"live", "shut"}
  /\ CloseUsageQuota
  /\ proc' = [proc EXCEPT !.phase = "stopping"]
  /\ UNCHANGED <<facts, chain, task, rank, seen>> /\ Silent

\* The explicit STOP returned an error, landed or not: the session stays
\* recoverable.
StopFails ==
  /\ proc.up /\ proc.phase = "stopping"
  /\ proc' = [proc EXCEPT !.phase = "shut"]
  /\ StoreKept /\ UNCHANGED <<facts, chain, task, rank, seen, stopped>> /\ Silent

\* A guarded STOP returned an error: it closes the record and the local API all
\* the same.
GuardedStopFails ==
  /\ proc.up /\ proc.route # NoDeal /\ proc.phase \in {"live", "shut"}
  /\ CloseUsageQuota
  /\ proc' = [proc EXCEPT !.phase = "shut"]
  /\ UNCHANGED <<facts, chain, task, rank, seen>> /\ Silent

\* A settlement learns that the contract is over: its STOP landed, it was closed
\* before, a deal never opened was cleaned up, or a dispute is open.
RecordTerminalAction ==
  /\ proc.up /\ proc.route # NoDeal /\ proc.phase \in {"live", "stopping", "shut"}
  /\ Over(proc.route)
  /\ CloseUsageQuota
  /\ proc' = [proc EXCEPT !.phase = "recorded"]
  /\ UNCHANGED <<facts, chain, task, rank, seen>> /\ Silent

\* The diagnostics, then the settled flag.
Note ==
  /\ proc.up /\ proc.phase \in {"recorded", "noted"}
  /\ proc' = [proc EXCEPT !.phase = IF @ = "recorded" THEN "noted" ELSE "settled",
                          !.known = TRUE]
  /\ StoreKept /\ UNCHANGED <<facts, chain, task, rank, seen, stopped>> /\ Silent

\* The background observer reads that the deal is over: it notes it, closes the
\* record when the contract is gone, and closes the local API.
Observe ==
  /\ proc.up /\ proc.route # NoDeal /\ Over(proc.route)
  /\ \/ StoreKept /\ UNCHANGED stopped
     \/ chain[proc.route] = "gone" /\ CloseUsageQuota
  /\ proc' = [proc EXCEPT !.known = TRUE]
  /\ UNCHANGED <<facts, chain, task, rank, seen>> /\ Silent

\* Reconciliation finds the settlement of a deal that ended: one transaction
\* for the fact and the row, then the journal.
Reconcile(d) ==
  /\ proc.up /\ proc.closing = NoDeal /\ chain[d] = "gone" /\ rank[d] > 0
  /\ facts' = facts \cup {d}
  /\ row' = IF row # NoRow /\ row.deal = d THEN [row EXCEPT !.closed = TRUE] ELSE row
  /\ proc' = [proc EXCEPT !.closing = d]
  /\ stopped' = IF row # NoRow /\ row.deal = d THEN stopped \cup {d} ELSE stopped
  /\ UNCHANGED <<journal, faults, chain, task, rank, seen>> /\ Silent

ReconcileCloses ==
  /\ proc.up /\ proc.closing # NoDeal
  /\ \E o \in Close(proc.closing) : Does({o}, o) /\ Ends(proc.closing, o)
  /\ proc' = [proc EXCEPT !.closing = NoDeal]
  /\ UNCHANGED <<facts, chain, task, rank, seen>> /\ Silent

\* Opening the store restores the row from the journal.
OpenStore == {[o EXCEPT !.journal = journal] : o \in Restore(ReadJournal, FALSE)}

Restart ==
  /\ ~proc.up
  /\ \E o \in OpenStore :
       Does({o}, o) /\ proc' = [Down EXCEPT !.up = o.ok]
  /\ Kept /\ UNCHANGED task /\ Silent

\* The close command takes the serving buyer's instance lock, so it meets no
\* running buyer.  A failure of the row after the journal is written is not
\* told apart from a crash of the command.
CliClose(d) ==
  /\ ~proc.up /\ chain[d] = "gone"
  /\ \E o \in Close(d) : Does({o}, o) /\ Ends(d, o)
  /\ UNCHANGED <<facts, chain, proc, task, rank, seen>> /\ Silent

Crash ==
  /\ proc.up /\ faults < MaxFaults
  /\ faults' = faults + 1
  /\ proc' = Down /\ task' = [t \in Tasks |-> Idle]
  /\ UNCHANGED <<journal, row, facts, chain, rank, seen, stopped>> /\ Silent

\* The contract, whoever calls it, a settlement of the buyer included: a purchase
\* is funded, then opened by its seller or cleaned up; an open one ends, or is
\* disputed first.
ChainMoves(d, to) ==
  /\ \/ chain[d] = "funded" /\ to \in {"open", "gone"}
     \/ chain[d] = "open" /\ to \in {"disputed", "gone"}
     \/ chain[d] = "disputed" /\ to = "gone"
  /\ chain' = [chain EXCEPT ![d] = to]
  /\ StoreKept /\ UNCHANGED <<facts, proc, task, rank, seen, stopped>> /\ Silent

-----------------------------------------------------------------------------

\* A new data directory, or one an earlier version left: a row without a
\* journal, or a journal of an unresolved route.
Init ==
  /\ \/ /\ journal = NoJournal /\ row = NoRow /\ seen = NoDeal
        /\ chain = [d \in Deals |-> "funded"] /\ rank = [d \in Deals |-> 0]
        /\ stopped = {}
     \/ \E old \in Deals :
          /\ rank = [d \in Deals |-> IF d = old THEN 1 ELSE 0]
          /\ \E at \in {"open", "disputed", "gone"} :
               chain = [d \in Deals |-> IF d = old THEN at ELSE "funded"]
          /\ seen = old
          /\ \/ /\ journal = [deal |-> old, terms |-> FALSE, closed |-> FALSE, pending |-> {}]
                /\ row = NoRow /\ stopped = {}
             \/ /\ journal = NoJournal
                /\ row \in [deal : {old}, closed : BOOLEAN]
                /\ stopped = IF row.closed THEN {old} ELSE {}
  /\ facts = {} /\ faults = 0 /\ proc = Down /\ answer = None
  /\ task = [t \in Tasks |-> Idle]

Step(t) ==
  \/ Check(t) \/ BeginQuota(t) \/ ReadState(t) \/ DiscardQuota(t) \/ ReadTerms(t)
  \/ OpenQuota(t) \/ Tail(t)

Next ==
  \/ \E t \in Tasks : Step(t)
  \/ \E t \in Handlers : Serve(t) \/ Answer(t)
  \/ \E t \in Handlers, want \in {"serve", "answer"} : Request(t, want)
  \/ \E d \in Deals : Swap(d) \/ Reconcile(d) \/ CliClose(d)
  \/ \E d \in Deals, to \in {"open", "disputed", "gone"} : ChainMoves(d, to)
  \/ Stop \/ StopFails \/ GuardedStopFails \/ RecordTerminalAction \/ Note
  \/ Observe \/ ReconcileCloses \/ Restart \/ Crash

Spec == Init /\ [][Next]_vars

-----------------------------------------------------------------------------

\* What /v1/usage reports as the current quota is never an older purchase than
\* the one that had been opened or used when the request came in, whatever
\* writes failed and whatever crashed since: a purchase that could not be
\* recorded makes the report unavailable, it does not bring the last one back
\* (persist_deal_quota, begin_deal_quota).
NoOlderQuota == answer.deal # NoDeal => answer.since >= answer.known

\* A deal whose end was recorded, or whose session had settled when the
\* request came in, is never reported with quota left: not by binding it
\* again, not by restoring the row from the journal, not by a handler that
\* raced the settlement (open_deal_quota, restore_quota, persist_deal_quota).
\* For a deal that is over this holds for good.  A STOP that failed leaves a
\* recorded end on a contract that is still open: that record stands until
\* another purchase replaces it in the journal and in the row.
EndedHasNoQuota == answer.ended => answer.closed
=============================================================================
