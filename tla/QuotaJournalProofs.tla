------------------------- MODULE QuotaJournalProofs -------------------------
(***************************************************************************)
(* What /v1/usage reports about the purchase in service (QuotaJournal) is  *)
(* never older than the purchase last seen open or used, and never shows   *)
(* quota of a deal whose end was recorded, for any number of deals,        *)
(* handlers, routes, failing writes and crashes.                           *)
(*                                                                         *)
(* The key is what the record says about the purchase last seen: it is of  *)
(* that purchase, or names it as unresolved and then answers nothing.      *)
(***************************************************************************)
EXTENDS QuotaJournal, TLAPS

Steps == {"idle", "check", "begin", "state", "terms", "open", "tail", "discard",
          "serve", "answer"}

ProcType ==
  [up : BOOLEAN, route : Deals \cup {NoDeal}, bound : BOOLEAN, cached : BOOLEAN,
   delivered : BOOLEAN, known : BOOLEAN, closing : Deals \cup {NoDeal},
   phase : {"live", "stopping", "shut", "recorded", "noted", "settled"}]

ChainStates == {"funded", "open", "disputed", "gone"}

TaskType ==
  [pc : Steps, deal : Deals \cup {NoDeal}, want : {"answer", "serve", "swap"},
   known : Nat, wasSettled : BOOLEAN]

TypeOK ==
  /\ journal \in Records \cup {NoJournal}
  /\ row \in Rows \cup {NoRow}
  /\ facts \subseteq Deals /\ stopped \subseteq Deals
  /\ chain \in [Deals -> ChainStates]
  /\ proc \in ProcType /\ task \in [Tasks -> TaskType]
  /\ faults \in Nat /\ rank \in [Deals -> Nat]
  /\ seen \in Deals \cup {NoDeal}

-----------------------------------------------------------------------------
(***************************************************************************)
(* What the store says.                                                    *)
(***************************************************************************)

\* The journal holds the terms of a purchase; without one the row speaks.
HoldsTerms == journal # NoJournal /\ journal.terms

\* The purchases the journal names as unresolved.
Unresolved == IF journal = NoJournal THEN {} ELSE ReadJournal.pending

\* The record is of deal d.
Bound(d) ==
  \/ HoldsTerms /\ journal.deal = d
  \/ ~HoldsTerms /\ row.deal = d

\* Deal d was never seen open, nor recorded with its terms.
Unopened(d) ==
  seen # d /\ row.deal # d /\ ~(HoldsTerms /\ journal.deal = d)

-----------------------------------------------------------------------------
(***************************************************************************)
(* The inductive invariant.                                                *)
(***************************************************************************)

\* The serving process: one that is not running has no route; cached terms are
\* of the purchase last seen; its phase and its reconciliation follow the chain;
\* the route is the latest of the deals.
Process ==
  /\ ~proc.up => proc = Down
  /\ proc.cached => proc.route # NoDeal /\ seen = proc.route
  /\ proc.phase # "live" => proc.route # NoDeal
  /\ proc.phase \in {"recorded", "noted", "settled"} => Over(proc.route)
  /\ proc.known => proc.route # NoDeal /\ Over(proc.route)
  /\ proc.closing # NoDeal => chain[proc.closing] = "gone"
  /\ proc.route # NoDeal =>
       rank[proc.route] > 0 /\ \A d \in Deals : rank[d] <= rank[proc.route]
  /\ Deals # {} => \E m \in Deals : \A d \in Deals : rank[d] <= rank[m]

\* A deal that waits for its seller was never seen open or recorded.
ChainSeen == \A d \in Deals : chain[d] = "funded" => Unopened(d)

\* A session binds the store to a deal that was seen open or is on record.
Binds ==
  proc.bound => /\ proc.route # NoDeal /\ chain[proc.route] # "funded"
                /\ Bound(proc.route) \/ proc.route \in Unresolved

\* The record is of the purchase last seen, or names it as unresolved.
Recorded ==
  seen # NoDeal => \/ Bound(seen) \/ seen \in Unresolved
                   \/ ~HoldsTerms /\ row = NoRow

Initialising(t) == task[t].pc \in {"state", "terms", "discard"}

\* One handler at a time runs the initialiser of the session's terms.
OneInitialiser ==
  \A t, u \in Tasks : Initialising(t) /\ Initialising(u) => t = u

\* A handler that synchronises works on the route, and nobody initialises terms
\* that are cached.
Follows(t) ==
  /\ Syncing(t) => task[t].deal = proc.route /\ proc.route # NoDeal
  /\ proc.route = NoDeal => task[t].deal = NoDeal
  /\ task[t].pc = "serve" => task[t].deal # NoDeal
  /\ task[t].deal # NoDeal => rank[task[t].deal] > 0
  /\ Initialising(t) => ~proc.cached
  /\ task[t].pc = "open" => proc.cached

\* What a handler knows is no news; what it has put on record is still there.
Synced(t) ==
  /\ task[t].known <= IF seen = NoDeal THEN 0 ELSE rank[seen]
  /\ task[t].pc = "discard" =>
       /\ Unopened(task[t].deal) /\ ~proc.bound
       /\ task[t].deal \in stopped => chain[task[t].deal] = "gone"
  /\ task[t].pc \in {"state", "terms"} => task[t].deal \in Unresolved
  /\ task[t].pc = "terms" => seen = task[t].deal
  /\ task[t].pc \in {"tail", "serve"} /\ task[t].deal = proc.route => Bound(task[t].deal)

\* A handler of a settled session records the end before it answers.
Settles(t) ==
  task[t].wasSettled =>
    /\ task[t].deal # NoDeal /\ Over(task[t].deal)
    /\ Syncing(t) => Settled /\ task[t].pc # "discard"
    /\ task[t].pc = "answer" => task[t].deal \in stopped

HandlerOK(t) == Follows(t) /\ Synced(t) /\ Settles(t)

\* The store says that deal d has ended, and would say so if it were resumed.
Standing(d) ==
  \/ /\ journal # NoJournal /\ journal.deal = d /\ journal.closed
     /\ journal.terms \/ d \in Unresolved
  \/ row.deal = d /\ row.closed /\ (~HoldsTerms \/ journal.deal = d)

\* So it does of a deal that may be resumed or whose terms may yet be read.
Stands(d) ==
  /\ chain[d] # "funded"
  /\ chain[d] = "open" \/ (chain[d] = "disputed" /\ proc.route = d) => Standing(d)

\* A recorded end is not forgotten: the row says so; a journal that would
\* bring back the row says so, or the settlement is on file; so it is for a
\* session that may bind the deal again; and a deal that may be resumed is still
\* on record.
EndKept(d) ==
  /\ Stands(d)
  /\ row.deal = d => row.closed
  /\ row.deal # d /\ HoldsTerms /\ journal.deal = d => journal.closed \/ d \in facts
  /\ row.deal # d /\ proc.cached /\ proc.route = d =>
       d \in facts \/ (journal # NoJournal /\ journal.deal = d /\ journal.closed)

EndsKept == \A d \in stopped : EndKept(d)

QuotaInv ==
  /\ TypeOK /\ Process /\ ChainSeen /\ Binds /\ Recorded /\ OneInitialiser /\ EndsKept
  /\ \A t \in Tasks : HandlerOK(t)
  /\ NoOlderQuota /\ EndedHasNoQuota

-----------------------------------------------------------------------------
(***************************************************************************)
(* What the methods of the store may leave behind.                         *)
(***************************************************************************)
StoreOK == journal \in Records \cup {NoJournal} /\ row \in Rows \cup {NoRow}

LEMMA NoRecordEmpty ==
  /\ NoJournal \notin Records /\ NoRow \notin Rows
  /\ NoRow.deal = NoDeal /\ NoJournal.deal = NoDeal
  BY QuotaAssumption DEF NoJournal, NoRow, Records, Rows

\* Reading the journal keeps everything but the mark of an early file.
LEMMA Reading ==
  ASSUME StoreOK, journal # NoJournal
  PROVE  /\ journal \in Records /\ ReadJournal \in Records
         /\ ReadJournal.deal = journal.deal /\ ReadJournal.terms = journal.terms
         /\ ReadJournal.closed = journal.closed
         /\ journal.pending \subseteq ReadJournal.pending
         /\ journal.terms => ReadJournal = journal
         /\ ReadJournal.pending = Unresolved
         /\ ~journal.terms => Unresolved # {}
  BY DEF StoreOK, ReadJournal, Unresolved, Records

LEMMA NotRead == ASSUME journal = NoJournal PROVE ReadJournal = NoJournal /\ Unresolved = {}
  BY DEF ReadJournal, Unresolved

LEMMA WrittenOut ==
  ASSUME NEW j, NEW o \in Written(j)
  PROVE  o.row = row /\ (o.journal = j \/ (o.journal = journal /\ ~o.ok))
  <1>1. CASE o = [journal |-> j, row |-> row, ok |-> TRUE]
    BY <1>1
  <1>2. CASE o = [journal |-> journal, row |-> row, ok |-> FALSE]
    BY <1>2
  <1>3. CASE o = [journal |-> j, row |-> row, ok |-> FALSE]
    BY <1>3
  <1>4. QED
    BY <1>1, <1>2, <1>3 DEF Written, Outcome

\* The journal a method leaves says of every purchase what it said, but that
\* more, or fewer, of them are unresolved.
Remarked(j, pending) ==
  /\ j \in Records
  /\ journal # NoJournal
  /\ j.deal = journal.deal /\ j.terms = journal.terms /\ j.closed = journal.closed
  /\ j.pending = pending

\* The journal of a new data directory, or of a first row without one.
Started(j, d) ==
  j \in Records /\ j.deal = d /\ ~j.terms /\ ~j.closed /\ j.pending = {d}

\* begin_quota
LEMMA BeginOut ==
  ASSUME StoreOK, NEW d \in Deals, NEW o \in Begin(d)
  PROVE  /\ o.row = row
         /\ \/ o.journal = journal /\ (o.ok => d \in Unresolved)
            \/ Remarked(o.journal, Unresolved \cup {d})
            \/ journal = NoJournal /\ Started(o.journal, d)
  <1> DEFINE j == IF journal = NoJournal
                  THEN [deal |-> d, terms |-> FALSE, closed |-> FALSE, pending |-> {}]
                  ELSE ReadJournal
             k == [j EXCEPT !.pending = @ \cup {d}]
  <1>1. j \in Records /\ j.pending = Unresolved
    BY Reading, NotRead DEF Records, StoreOK
  <1>2. /\ k \in Records /\ k.deal = j.deal /\ k.terms = j.terms /\ k.closed = j.closed
        /\ k.pending = Unresolved \cup {d}
    BY <1>1 DEF Records
  <1>3. \/ d \in j.pending /\ o = Outcome(journal, row, TRUE)
        \/ o \in Written(k)
    BY DEF Begin
  <1>4. CASE journal = NoJournal
    <2>1. j = [deal |-> d, terms |-> FALSE, closed |-> FALSE, pending |-> {}]
      BY <1>4
    <2>2. Started(k, d)
      BY <1>2, <1>4, <2>1, NotRead DEF Started
    <2> HIDE DEF j, k
    <2>3. QED
      BY <1>1, <1>3, <1>4, <2>2, WrittenOut, NotRead DEF Outcome
  <1>5. CASE journal # NoJournal
    <2>1. j.deal = journal.deal /\ j.terms = journal.terms /\ j.closed = journal.closed
      BY <1>5, Reading
    <2> HIDE DEF j, k
    <2>2. Remarked(k, Unresolved \cup {d})
      BY <1>2, <1>5, <2>1 DEF Remarked
    <2>3. QED
      BY <1>1, <1>3, <2>2, WrittenOut DEF Outcome
  <1>6. QED
    BY <1>4, <1>5

\* discard_quota
LEMMA DiscardOut ==
  ASSUME StoreOK, NEW d \in Deals, NEW o \in Discard(d)
  PROVE  /\ o.row = row
         /\ \/ o.journal = journal
            \/ /\ Remarked(o.journal, Unresolved \ {d})
               /\ journal.terms \/ Unresolved \ {d} # {}
            \/ /\ o.journal = NoJournal /\ journal # NoJournal
               /\ ~journal.terms /\ Unresolved \ {d} = {}
  <1>1. CASE journal = NoJournal
    <2>1. o = Outcome(journal, row, TRUE)
      BY <1>1, NotRead DEF Discard
    <2>2. QED
      BY <2>1 DEF Outcome
  <1>2. CASE journal # NoJournal
    <2> DEFINE j == ReadJournal
               left == [j EXCEPT !.pending = @ \ {d}]
    <2>1. /\ j \in Records /\ j.deal = journal.deal /\ j.terms = journal.terms
          /\ j.closed = journal.closed /\ j.pending = Unresolved
      BY <1>2, Reading
    <2>2. /\ left \in Records /\ left.deal = journal.deal /\ left.terms = journal.terms
          /\ left.closed = journal.closed /\ left.pending = Unresolved \ {d}
      BY <2>1 DEF Records
    <2>3. \/ o = Outcome(journal, row, TRUE)
          \/ o \in Written(IF left.terms \/ left.pending # {} THEN left ELSE NoJournal)
      BY <2>1, NoRecordEmpty DEF Discard
    <2> HIDE DEF j, left
    <2>4. Remarked(left, Unresolved \ {d})
      BY <1>2, <2>2 DEF Remarked
    <2>5. CASE left.terms \/ left.pending # {}
      BY <2>2, <2>3, <2>4, <2>5, WrittenOut DEF Outcome
    <2>6. CASE ~(left.terms \/ left.pending # {})
      BY <1>2, <2>2, <2>3, <2>6, WrittenOut DEF Outcome
    <2>7. QED
      BY <2>5, <2>6
  <1>3. QED
    BY <1>1, <1>2

\* restore_quota on a journal with terms and nothing unresolved: the row is of
\* the journal's deal, and closed when either says so or, where there was no
\* row of it, the settlement is on file.
Rebuilt(j, r) ==
  /\ r \in Rows /\ r.deal = j.deal
  /\ row.deal = j.deal /\ row.closed => r.closed
  /\ j.closed => r.closed
  /\ row.deal # j.deal /\ j.deal \in facts => r.closed

LEMMA RestoredIs ==
  ASSUME StoreOK, NEW j \in Records
  PROVE  Rebuilt(j, Restored(j))
  <1>1. CASE row # NoRow /\ row.deal = j.deal /\ (row.closed \/ ~j.closed)
    <2>1. Restored(j) = row
      BY <1>1 DEF Restored
    <2>2. QED
      BY <1>1, <2>1 DEF Rebuilt, StoreOK
  <1>2. CASE ~(row # NoRow /\ row.deal = j.deal /\ (row.closed \/ ~j.closed))
    <2> DEFINE c == j.closed \/ j.deal \in facts
    <2>1. Restored(j) = [deal |-> j.deal, closed |-> c]
      BY <1>2 DEF Restored
    <2>2. c \in BOOLEAN /\ j.deal \in Deals
      BY DEF Records
    <2>3. c <=> j.closed \/ j.deal \in facts
      OBVIOUS
    <2> HIDE DEF c
    <2>4. Restored(j) \in Rows /\ Restored(j).deal = j.deal /\ (Restored(j).closed <=> c)
      BY <2>1, <2>2 DEF Rows
    <2>5. ~(row.deal = j.deal /\ row.closed)
      BY <1>2, <2>2, NoRecordEmpty, QuotaAssumption DEF StoreOK
    <2>6. QED
      BY <2>3, <2>4, <2>5 DEF Rebuilt
  <1>3. QED
    BY <1>1, <1>2

LEMMA RestoreOut ==
  ASSUME StoreOK, NEW j \in Records, NEW r \in BOOLEAN, NEW o \in Restore(j, r)
  PROVE  /\ o.journal = j
         /\ \/ o.row = row /\ (o.ok => (j.pending # {} \/ ~j.terms) /\ ~r)
            \/ j.terms /\ j.pending = {} /\ Rebuilt(j, o.row)
  <1>1. j # NoJournal
    BY NoRecordEmpty
  <1>2. CASE j.pending # {} \/ ~j.terms
    <2>1. o = [journal |-> j, row |-> row, ok |-> ~r]
      BY <1>1, <1>2 DEF Restore, Outcome
    <2>2. QED
      BY <1>2, <2>1
  <1>3. CASE ~(j.pending # {} \/ ~j.terms)
    <2>1. \/ o = [journal |-> j, row |-> Restored(j), ok |-> TRUE]
          \/ o = [journal |-> j, row |-> row, ok |-> FALSE]
      BY <1>1, <1>3 DEF Restore, Outcome
    <2>2. QED
      BY <1>3, <2>1, RestoredIs
  <1>4. QED
    BY <1>2, <1>3

LEMMA RestoreNone ==
  ASSUME NEW r \in BOOLEAN, NEW o \in Restore(NoJournal, r)
  PROVE  o.journal = NoJournal /\ o.row = row /\ o.ok
  BY DEF Restore, Outcome

\* The purchase of a journal or, without one, of the row.
LEMMA PreviousIs ==
  ASSUME StoreOK
  PROVE  /\ journal # NoJournal => Previous = ReadJournal /\ Previous \in Records
         /\ journal = NoJournal /\ row = NoRow => Previous = NoJournal
         /\ journal = NoJournal /\ row # NoRow =>
              /\ Previous \in Records /\ Previous.deal = row.deal /\ Previous.terms
              /\ (Previous.closed <=> row.closed) /\ Previous.pending = {}
  BY Reading, NotRead DEF Previous, StoreOK, Records, Rows

\* The record of deal d says that it has ended.
Marked(d) ==
  \/ journal # NoJournal /\ journal.deal = d /\ journal.closed
  \/ journal = NoJournal /\ row.deal = d /\ row.closed

\* open_quota
LEMMA OpenOut ==
  ASSUME StoreOK, NEW d \in Deals, NEW o \in Open(d)
  PROVE  \/ o.journal = journal /\ o.row = row /\ ~o.ok
         \/ /\ o.journal \in Records /\ o.journal.deal = d /\ o.journal.terms
            /\ o.journal.pending = {}
            /\ Marked(d) => o.journal.closed
            /\ (o.row = row /\ ~o.ok) \/ Rebuilt(o.journal, o.row)
  <1> DEFINE was == Previous
             c == IF was # NoJournal /\ was.deal = d THEN was.closed ELSE FALSE
             j == [deal |-> d, terms |-> TRUE, pending |-> {}, closed |-> c]
  <1>1. c \in BOOLEAN
    BY PreviousIs DEF Records, StoreOK
  <1>2. Marked(d) => c
    <2>1. CASE journal # NoJournal
      BY <2>1, PreviousIs, Reading, NoRecordEmpty DEF Marked
    <2>2. CASE journal = NoJournal /\ row # NoRow
      BY <2>2, PreviousIs, NoRecordEmpty DEF Marked
    <2>3. CASE journal = NoJournal /\ row = NoRow
      BY <2>3, NoRecordEmpty, QuotaAssumption DEF Marked
    <2>4. QED
      BY <2>1, <2>2, <2>3
  <1>3. PICK w \in Written(j) : o \in (IF w.ok THEN Restore(w.journal, TRUE) ELSE {w})
    BY DEF Open
  <1> HIDE DEF c, was
  <1>4. /\ j \in Records /\ j.deal = d /\ j.terms /\ j.pending = {} /\ (j.closed <=> c)
    BY <1>1 DEF Records
  <1> HIDE DEF j
  <1>5. w.row = row /\ (w.journal = j \/ (w.journal = journal /\ ~w.ok))
    BY <1>3, WrittenOut
  <1>6. CASE w.ok
    <2>1. o \in Restore(j, TRUE)
      BY <1>3, <1>5, <1>6
    <2>2. o.journal = j /\ ((o.row = row /\ ~o.ok) \/ Rebuilt(j, o.row))
      BY <1>4, <2>1, RestoreOut
    <2>3. QED
      BY <1>2, <1>4, <2>2
  <1>7. CASE ~w.ok
    <2>1. o = w
      BY <1>3, <1>7
    <2>2. QED
      BY <1>2, <1>4, <1>5, <1>7, <2>1
  <1>8. QED
    BY <1>6, <1>7
\* The journal close_quota leaves.
Shut(j, d) ==
  /\ j \in Records /\ j.deal = d /\ j.closed
  /\ IF journal = NoJournal THEN row.deal = d /\ j.terms /\ j.pending = {}
     ELSE journal.deal = d /\ j.terms = journal.terms /\ j.pending = Unresolved

\* close_quota
LEMMA CloseOut ==
  ASSUME StoreOK, NEW d \in Deals, NEW o \in Close(d)
  PROVE  /\ o.journal = journal \/ Shut(o.journal, d)
         /\ o.row = row \/ (row.deal = d /\ o.row \in Rows /\ o.row.deal = d /\ o.row.closed)
         /\ o.ok => /\ row.deal = d => o.row.closed
                    /\ o.journal # NoJournal /\ o.journal.deal = d => o.journal.closed
  <1> DEFINE was == Previous
             marked == IF row # NoRow /\ row.deal = d THEN [row EXCEPT !.closed = TRUE] ELSE row
             j == [was EXCEPT !.closed = TRUE]
             first == IF was # NoJournal /\ was.deal = d /\ ~was.closed
                      THEN Written(j) ELSE {Outcome(journal, row, TRUE)}
  <1>1. /\ marked = row \/ (row.deal = d /\ marked \in Rows /\ marked.deal = d /\ marked.closed)
        /\ row.deal = d => marked.closed
    <2>1. CASE row # NoRow /\ row.deal = d
      BY <2>1 DEF StoreOK, Rows
    <2>2. CASE ~(row # NoRow /\ row.deal = d)
      BY <2>2, NoRecordEmpty, QuotaAssumption
    <2>3. QED
      BY <2>1, <2>2
  <1>2. was # NoJournal /\ was.deal = d => Shut(j, d)
    <2>1. CASE journal # NoJournal
      <3>1. was \in Records /\ was = ReadJournal
        BY <2>1, PreviousIs
      <3>2. j \in Records /\ j.deal = was.deal /\ j.terms = was.terms /\ j.closed
            /\ j.pending = was.pending
        BY <3>1 DEF Records
      <3> HIDE DEF j
      <3>3. QED
        BY <2>1, <3>1, <3>2, Reading DEF Shut
    <2>2. CASE journal = NoJournal /\ row # NoRow
      <3>1. was \in Records /\ was.deal = row.deal /\ was.terms /\ was.pending = {}
        BY <2>2, PreviousIs
      <3>2. j \in Records /\ j.deal = was.deal /\ j.terms /\ j.closed
            /\ j.pending = was.pending
        BY <3>1 DEF Records
      <3> HIDE DEF j
      <3>3. QED
        BY <2>2, <3>1, <3>2 DEF Shut
    <2>3. CASE journal = NoJournal /\ row = NoRow
      BY <2>3, PreviousIs
    <2>4. QED
      BY <2>1, <2>2, <2>3
  <1>3. journal # NoJournal /\ journal.deal = d =>
          was # NoJournal /\ was.deal = d /\ (was.closed <=> journal.closed)
    BY PreviousIs, Reading, NoRecordEmpty
  <1>4. PICK w \in first :
          o \in (IF w.ok THEN {Outcome(w.journal, marked, TRUE)}
                              \cup (IF faults < MaxFaults THEN {Outcome(w.journal, row, FALSE)} ELSE {})
                 ELSE {w})
    BY DEF Close
  <1> HIDE DEF marked, j
  <1>5. /\ w.row = row /\ (w.journal = journal \/ Shut(w.journal, d))
        /\ w.ok /\ w.journal # NoJournal /\ w.journal.deal = d => w.journal.closed
    <2>1. CASE was # NoJournal /\ was.deal = d /\ ~was.closed
      <3>1. w \in Written(j)
        BY <1>4, <2>1
      <3>2. w.row = row /\ (w.journal = j \/ (w.journal = journal /\ ~w.ok))
        BY <3>1, WrittenOut
      <3>3. QED
        BY <1>2, <2>1, <3>2 DEF Shut
    <2>2. CASE ~(was # NoJournal /\ was.deal = d /\ ~was.closed)
      <3>1. w = [journal |-> journal, row |-> row, ok |-> TRUE]
        BY <1>4, <2>2 DEF Outcome
      <3>2. QED
        BY <1>3, <2>2, <3>1
    <2>3. QED
      BY <2>1, <2>2
  <1> HIDE DEF first, was
  <1>6. CASE ~w.ok
    BY <1>4, <1>5, <1>6
  <1>7. CASE w.ok /\ o = [journal |-> w.journal, row |-> marked, ok |-> TRUE]
    BY <1>1, <1>5, <1>7
  <1>8. CASE w.ok /\ o = [journal |-> w.journal, row |-> row, ok |-> FALSE]
    BY <1>5, <1>8
  <1>9. QED
    BY <1>4, <1>6, <1>7, <1>8 DEF Outcome
-----------------------------------------------------------------------------
(***************************************************************************)
(* What the store says after each of its methods.                          *)
(***************************************************************************)

\* The route and what was seen stay, and so do the settlements on file.
Steady ==
  proc'.route = proc.route /\ (proc'.cached <=> proc.cached) /\ seen' = seen

\* A contract only moves on.
Onward ==
  \A d \in Deals : /\ Over(d) => Over(d)'
                   /\ chain[d] = "gone" => chain'[d] = "gone"
                   /\ chain'[d] = "funded" => chain[d] = "funded"
                   /\ chain'[d] = "open" => chain[d] \in {"funded", "open"}
                   /\ chain'[d] = "disputed" => chain[d] \in {"open", "disputed"}

SameRoute == Steady /\ facts' = facts /\ Onward

LEMMA StandsOn ==
  ASSUME SameRoute, NEW d \in Deals, Stands(d), Standing(d) => Standing(d)'
  PROVE  Stands(d)'
  BY DEF SameRoute, Steady, Onward, Stands

LEMMA GoneStands ==
  ASSUME Onward, NEW d \in Deals, chain[d] = "gone"
  PROVE  Stands(d)'
  BY DEF Onward, Stands

Takes(o) == journal' = o.journal /\ row' = o.row

\* The journal is there and says what it said, but for its unresolved marks.
Remains ==
  /\ journal' # NoJournal /\ journal'.deal = journal.deal
  /\ (journal'.terms <=> journal.terms) /\ (journal'.closed <=> journal.closed)

\* What unresolved marks may come and go without.
Pends(d) ==
  /\ StoreOK' /\ row' = row
  /\ HoldsTerms' <=> HoldsTerms
  /\ HoldsTerms => journal'.deal = journal.deal /\ (journal'.closed <=> journal.closed)
  /\ Unresolved \ {d} \subseteq Unresolved'
  /\ journal # NoJournal /\ (journal.terms \/ Unresolved \ {d} # {}) => Remains

LEMMA RemarkedPends ==
  ASSUME StoreOK, NEW d \in Deals, NEW S, Remarked(journal', S), row' = row,
         Unresolved \ {d} \subseteq S, journal.terms \/ S # {}
  PROVE  Pends(d) /\ S = Unresolved' /\ Remains
  <1>1. journal' # NoJournal /\ journal # NoJournal /\ journal' \in Records
    BY NoRecordEmpty DEF Remarked
  <1>2. ReadJournal' = journal'
    BY <1>1 DEF Remarked, ReadJournal
  <1>3. Unresolved' = S
    BY <1>1, <1>2 DEF Unresolved, Remarked
  <1>4. QED
    BY <1>1, <1>3 DEF Pends, StoreOK, HoldsTerms, Remarked, Remains

LEMMA BeginPends ==
  ASSUME StoreOK, NEW d \in Deals, NEW o \in Begin(d), Takes(o)
  PROVE  Pends(d) /\ Unresolved \subseteq Unresolved' /\ (o.ok => d \in Unresolved')
         /\ (journal # NoJournal => Remains)
  <1>1. CASE o.journal = journal /\ (o.ok => d \in Unresolved)
    <2>1. journal' = journal /\ row' = row
      BY <1>1, BeginOut DEF Takes
    <2>2. Unresolved' = Unresolved /\ (HoldsTerms' <=> HoldsTerms)
      BY <2>1 DEF Unresolved, ReadJournal, HoldsTerms
    <2>3. QED
      BY <1>1, <2>1, <2>2 DEF Pends, StoreOK, Remains
  <1>2. CASE Remarked(o.journal, Unresolved \cup {d})
    <2>1. Remarked(journal', Unresolved \cup {d}) /\ row' = row
      BY <1>2, BeginOut DEF Takes
    <2>2. Pends(d) /\ Unresolved' = Unresolved \cup {d} /\ Remains
      BY <2>1, RemarkedPends
    <2>3. QED
      BY <2>2
  <1>3. CASE journal = NoJournal /\ Started(o.journal, d)
    <2>1. row' = row /\ journal = NoJournal /\ Started(journal', d)
      BY <1>3, BeginOut DEF Takes
    <2>2. journal' # NoJournal /\ ReadJournal' = journal'
      BY <2>1, NoRecordEmpty DEF Started, ReadJournal
    <2>3. Unresolved' = {d} /\ Unresolved = {}
      BY <2>1, <2>2 DEF Unresolved, Started
    <2>4. QED
      BY <2>1, <2>3 DEF Pends, StoreOK, HoldsTerms, Started
  <1>4. QED
    BY <1>1, <1>2, <1>3, BeginOut

LEMMA DiscardPends ==
  ASSUME StoreOK, NEW d \in Deals, NEW o \in Discard(d), Takes(o)
  PROVE  Pends(d)
  <1>1. CASE o.journal = journal
    <2>1. journal' = journal /\ row' = row
      BY <1>1, DiscardOut DEF Takes
    <2>2. Unresolved' = Unresolved /\ (HoldsTerms' <=> HoldsTerms)
      BY <2>1 DEF Unresolved, ReadJournal, HoldsTerms
    <2>3. QED
      BY <2>1, <2>2 DEF Pends, StoreOK, Remains
  <1>2. CASE /\ Remarked(o.journal, Unresolved \ {d})
             /\ journal.terms \/ Unresolved \ {d} # {}
    <2>1. Remarked(journal', Unresolved \ {d}) /\ row' = row
      BY <1>2, DiscardOut DEF Takes
    <2>2. QED
      BY <1>2, <2>1, RemarkedPends
  <1>3. CASE /\ o.journal = NoJournal /\ journal # NoJournal
             /\ ~journal.terms /\ Unresolved \ {d} = {}
    <2>1. journal' = NoJournal /\ row' = row
      BY <1>3, DiscardOut DEF Takes
    <2>2. QED
      BY <1>3, <2>1 DEF Pends, StoreOK, HoldsTerms
  <1>4. QED
    BY <1>1, <1>2, <1>3, DiscardOut

\* A journal marked or unmarked while no session may bind again.
LEMMA PendsKeeps ==
  ASSUME StoreOK, SameRoute, NEW d \in Deals, Pends(d), ~proc.cached,
         Recorded, EndsKept, seen = d => Unresolved \subseteq Unresolved',
         stopped \subseteq Deals,
         \/ Unresolved \subseteq Unresolved' /\ (journal # NoJournal => Remains)
         \/ d \in stopped => chain[d] = "gone"
  PROVE  /\ \A e \in Deals : Unopened(e) => Unopened(e)'
         /\ \A e \in Deals : Bound(e) => Bound(e)'
         /\ Recorded' /\ \A e \in stopped : EndKept(e)'
  <1>1. \A e \in Deals : (Unopened(e) => Unopened(e)') /\ (Bound(e) => Bound(e)')
    BY DEF Pends, Unopened, Bound, HoldsTerms, SameRoute, Steady
  <1>2. Recorded'
    BY <1>1 DEF Pends, Recorded, Bound, HoldsTerms, SameRoute, Steady
  <1>3. ASSUME NEW e \in stopped PROVE EndKept(e)'
    <2>1. EndKept(e) /\ e \in Deals
      BY <1>3 DEF EndsKept
    <2>2. Stands(e)'
      <3>1. CASE chain[e] = "gone"
        BY <2>1, <3>1, GoneStands DEF SameRoute
      <3>2. CASE chain[e] # "gone"
        <4>1. Stands(e)
          BY <2>1 DEF EndKept
        <4>2. e # d \/ (Unresolved \subseteq Unresolved' /\ (journal # NoJournal => Remains))
          BY <3>2, <1>3
        <4>3. CASE /\ journal # NoJournal /\ journal.deal = e /\ journal.closed
                   /\ journal.terms \/ e \in Unresolved
          <5>1. Remains /\ (e \in Unresolved => e \in Unresolved')
            BY <4>2, <4>3 DEF Pends
          <5>2. QED
            BY <2>1, <4>1, <4>3, <5>1, StandsOn DEF Standing, Remains
        <4>4. CASE row.deal = e /\ row.closed /\ (~HoldsTerms \/ journal.deal = e)
          <5>1. Standing(e)'
            BY <4>4 DEF Pends, Standing, HoldsTerms
          <5>2. QED
            BY <2>1, <4>1, <5>1, StandsOn
        <4>5. CASE ~Standing(e)
          BY <2>1, <4>1, <4>5, StandsOn
        <4>6. QED
          BY <4>3, <4>4, <4>5 DEF Standing
      <3>3. QED
        BY <3>1, <3>2
    <2>3. QED
      BY <2>1, <2>2 DEF Pends, EndKept, HoldsTerms, SameRoute, Steady
  <1>4. QED
    BY <1>1, <1>2, <1>3

LEMMA OpenKeeps ==
  ASSUME StoreOK, SameRoute, NEW d \in Deals, NEW o \in Open(d), Takes(o),
         proc.cached, proc.route = d, seen = d, Recorded, EndsKept, stopped \subseteq Deals,
         stopped' = {e \in stopped : Over(e) \/ e = d \/ o.journal = journal}
  PROVE  /\ StoreOK'
         /\ \A e \in Deals : Unopened(e) => Unopened(e)'
         /\ (Bound(d) => Bound(d)') /\ (o.ok => Bound(d)')
         /\ Unresolved \subseteq Unresolved' \/ Bound(d)'
         /\ Recorded' /\ \A e \in stopped' : EndKept(e)'
  <1>1. CASE o.journal = journal /\ o.row = row /\ ~o.ok
    <2>1. journal' = journal /\ row' = row
      BY <1>1 DEF Takes
    <2>2. Unresolved' = Unresolved /\ (HoldsTerms' <=> HoldsTerms)
      BY <2>1 DEF Unresolved, ReadJournal, HoldsTerms
    <2>3. ASSUME NEW e \in stopped' PROVE Stands(e)'
      <3>1. e \in Deals /\ Stands(e)
        BY <2>3 DEF EndsKept, EndKept
      <3>2. QED
        BY <2>1, <2>2, <3>1, StandsOn DEF Standing
    <2>4. QED
      BY <1>1, <2>1, <2>2, <2>3
      DEF StoreOK, Unopened, Bound, Recorded, EndsKept, EndKept, SameRoute, Steady
  <1>2. CASE /\ o.journal \in Records /\ o.journal.deal = d /\ o.journal.terms
             /\ o.journal.pending = {}
             /\ Marked(d) => o.journal.closed
             /\ (o.row = row /\ ~o.ok) \/ Rebuilt(o.journal, o.row)
    <2>1. /\ journal' \in Records /\ journal'.deal = d /\ journal'.terms
          /\ Marked(d) => journal'.closed
          /\ row' = row \/ Rebuilt(journal', row')
      BY <1>2 DEF Takes
    <2>2. journal' # NoJournal /\ HoldsTerms'
      BY <2>1, NoRecordEmpty DEF HoldsTerms
    <2>3. StoreOK'
      BY <2>1 DEF StoreOK, Rebuilt
    <2>4. \A e \in Deals : Unopened(e) => Unopened(e)'
      BY <2>1 DEF Unopened, Rebuilt, SameRoute, Steady
    <2>5. Bound(d)'
      BY <2>1, <2>2 DEF Bound
    <2>6. Recorded'
      BY <2>5 DEF Recorded, SameRoute, Steady
    <2>7. ASSUME NEW e \in stopped' PROVE EndKept(e)'
      <3>1. EndKept(e) /\ e \in Deals
        BY <2>7 DEF EndsKept
      <3>0. Stands(e)'
        <4>1. Stands(e)
          BY <3>1 DEF EndKept
        <4>2. CASE e # d
          <5>1. CASE Over(e)
            BY <3>1, <4>2, <5>1 DEF Stands, SameRoute, Steady, Onward, Over
          <5>2. CASE o.journal = journal
            <6>1. HoldsTerms /\ journal.deal = d
              BY <2>1, <2>2, <5>2 DEF Takes, HoldsTerms
            <6>2. ~Standing(e)
              BY <4>2, <6>1 DEF Standing, HoldsTerms
            <6>3. QED
              BY <3>1, <4>1, <6>2, StandsOn
          <5>3. QED
            BY <2>7, <4>2, <5>1, <5>2
        <4>3. CASE e = d
          <5>1. Standing(d) => Standing(d)'
            <6>1. Marked(d) => Standing(d)'
              BY <2>1, <2>2 DEF Standing
            <6>2. Standing(d) /\ ~Marked(d) => row.deal = d /\ row.closed
              BY DEF Standing, Marked
            <6>3. row.deal = d /\ row.closed => row'.deal = d /\ row'.closed
              BY <2>1 DEF Rebuilt
            <6>4. QED
              BY <2>1, <6>1, <6>2, <6>3 DEF Standing
          <5>2. QED
            BY <4>1, <4>3, <5>1, StandsOn
        <4>4. QED
          BY <4>2, <4>3
      <3>2. CASE e # d
        <4>1. row'.deal = e => row' = row
          BY <2>1, <3>2 DEF Rebuilt
        <4>2. QED
          BY <2>1, <3>0, <3>1, <3>2, <4>1 DEF EndKept, SameRoute, Steady
      <3>3. CASE e = d
        <4>1. row.deal # d => d \in facts \/ journal'.closed
          BY <2>1, <3>1, <3>3 DEF EndKept, Marked
        <4>2. row'.deal = d => row'.closed
          BY <2>1, <3>1, <3>3, <4>1 DEF EndKept, Rebuilt
        <4>3. row'.deal # d => row.deal # d
          BY <2>1 DEF Rebuilt
        <4>4. QED
          BY <2>1, <2>2, <3>0, <3>3, <4>1, <4>2, <4>3 DEF EndKept, SameRoute, Steady
      <3>4. QED
        BY <3>2, <3>3
    <2>8. QED
      BY <2>3, <2>4, <2>5, <2>6, <2>7
  <1>3. QED
    BY <1>1, <1>2, OpenOut

LEMMA CloseKeeps ==
  ASSUME StoreOK, SameRoute, NEW d \in Deals, NEW o \in Close(d), Takes(o),
         Recorded, EndsKept, stopped \subseteq Deals
  PROVE  /\ StoreOK'
         /\ \A e \in Deals : Unopened(e) => Unopened(e)'
         /\ \A e \in Deals : Bound(e) => Bound(e)'
         /\ Unresolved \subseteq Unresolved' /\ Recorded'
         /\ \A e \in stopped : EndKept(e)'
         /\ /\ o.ok /\ (journal'.deal = d \/ (~HoldsTerms' /\ row'.deal = d))
            /\ chain[d] = "gone" \/ (chain[d] # "funded" /\ (Bound(d) \/ d \in Unresolved))
            => EndKept(d)'
  <1>1. /\ journal' = journal \/ Shut(journal', d)
        /\ row' = row \/ (row.deal = d /\ row' \in Rows /\ row'.deal = d /\ row'.closed)
        /\ o.ok => /\ row.deal = d => row'.closed
                   /\ journal' # NoJournal /\ journal'.deal = d => journal'.closed
    BY CloseOut DEF Takes
  <1>2. StoreOK' /\ row'.deal = row.deal
    BY <1>1 DEF StoreOK, Shut
  <1>3. /\ Unresolved \subseteq Unresolved'
        /\ HoldsTerms => HoldsTerms' /\ journal'.deal = journal.deal
                         /\ (journal.closed => journal'.closed)
        /\ HoldsTerms' => HoldsTerms \/ (journal'.deal = row.deal /\ row.deal # NoDeal)
        /\ journal # NoJournal => journal' # NoJournal /\ journal'.deal = journal.deal
                                  /\ (journal.closed => journal'.closed)
    <2>1. CASE journal' = journal
      BY <2>1 DEF Unresolved, HoldsTerms, ReadJournal
    <2>2. CASE Shut(journal', d) /\ journal # NoJournal
      <3>1. journal' # NoJournal /\ journal' \in Records
        BY <2>2, NoRecordEmpty DEF Shut
      <3>2. Unresolved' = Unresolved
        <4>1. journal'.terms = journal.terms /\ journal'.pending = Unresolved
          BY <2>2 DEF Shut
        <4>2. ~journal.terms => Unresolved # {}
          BY <2>2, Reading
        <4>3. ReadJournal' = journal'
          BY <4>1, <4>2 DEF ReadJournal
        <4>4. QED
          BY <3>1, <4>1, <4>3 DEF Unresolved
      <3>3. QED
        BY <2>2, <3>1, <3>2 DEF Shut, HoldsTerms
    <2>3. CASE Shut(journal', d) /\ journal = NoJournal
      <3>1. journal'.deal = row.deal /\ row.deal # NoDeal
        BY <2>3, QuotaAssumption DEF Shut
      <3>2. QED
        BY <2>3, <3>1, NotRead DEF HoldsTerms
    <2>4. QED
      BY <1>1, <2>1, <2>2, <2>3
  <1>4. \A e \in Deals : (Unopened(e) => Unopened(e)') /\ (Bound(e) => Bound(e)')
    <2> SUFFICES ASSUME NEW e \in Deals
                 PROVE  (Unopened(e) => Unopened(e)') /\ (Bound(e) => Bound(e)')
      OBVIOUS
    <2>1. Unopened(e) => Unopened(e)'
      BY <1>2, <1>3 DEF Unopened, SameRoute, Steady
    <2>2. Bound(e) => Bound(e)'
      BY <1>2, <1>3 DEF Bound
    <2>3. QED
      BY <2>1, <2>2
  <1>5. Recorded'
    <2>1. ~HoldsTerms' /\ row = NoRow => row' = NoRow /\ ~HoldsTerms
      BY <1>1, <1>3, NoRecordEmpty, QuotaAssumption
    <2>2. row = NoRow /\ HoldsTerms' => HoldsTerms
      BY <1>3, NoRecordEmpty
    <2>3. seen' = seen
      BY DEF SameRoute, Steady
    <2>4. Bound(seen) => Bound(seen)'
      BY <1>2, <1>3, <2>3 DEF Bound
    <2>5. QED
      BY <1>3, <2>1, <2>2, <2>3, <2>4 DEF Recorded
  <1>6. \A e \in stopped : EndKept(e)'
    <2> SUFFICES ASSUME NEW e \in stopped PROVE EndKept(e)'
      OBVIOUS
    <2>1. EndKept(e)
      BY DEF EndsKept
    <2>2. row.deal = e => row'.closed
      BY <1>1, <2>1 DEF EndKept
    <2>3. row.deal # e /\ HoldsTerms' /\ journal'.deal = e => journal'.closed \/ e \in facts
      BY <1>3, <2>1 DEF EndKept
    <2>4. Standing(e) => Standing(e)'
      <3>1. CASE /\ journal # NoJournal /\ journal.deal = e /\ journal.closed
                 /\ journal.terms \/ e \in Unresolved
        BY <1>3, <3>1 DEF Standing, HoldsTerms
      <3>2. CASE row.deal = e /\ row.closed /\ (~HoldsTerms \/ journal.deal = e)
        <4>1. row'.deal = e /\ row'.closed
          BY <1>2, <2>2, <3>2
        <4>2. ~HoldsTerms' \/ journal'.deal = e
          BY <1>3, <3>2 DEF HoldsTerms
        <4>3. QED
          BY <4>1, <4>2 DEF Standing
      <3>3. QED
        BY <3>1, <3>2 DEF Standing
    <2>5. Stands(e)'
      BY <2>1, <2>4, StandsOn DEF EndKept
    <2>6. QED
      BY <1>2, <1>3, <2>1, <2>2, <2>3, <2>5 DEF EndKept, SameRoute, Steady
  <1>7. ASSUME o.ok, journal'.deal = d \/ (~HoldsTerms' /\ row'.deal = d),
               chain[d] = "gone" \/ (chain[d] # "funded" /\ (Bound(d) \/ d \in Unresolved))
        PROVE  EndKept(d)'
    <2>1. journal'.deal = d => journal' # NoJournal /\ journal'.closed
      BY <1>1, <1>7, NoRecordEmpty, QuotaAssumption
    <2>2. row'.deal = d => row'.closed
      BY <1>1, <1>2, <1>7
    <2>3. chain[d] = "gone" \/ Standing(d)'
      <3>1. CASE ~HoldsTerms' /\ row'.deal = d
        BY <2>2, <3>1 DEF Standing
      <3>2. CASE journal'.deal = d /\ journal'.terms
        BY <2>1, <3>2 DEF Standing
      <3>3. CASE journal'.deal = d /\ ~journal'.terms /\ chain[d] # "gone"
        <4>1. ~HoldsTerms /\ ~HoldsTerms'
          BY <1>3, <3>3 DEF HoldsTerms
        <4>2. CASE d \in Unresolved
          BY <1>3, <2>1, <3>3, <4>2 DEF Standing
        <4>3. CASE Bound(d)
          BY <1>2, <2>2, <4>1, <4>3 DEF Bound, Standing
        <4>4. QED
          BY <1>7, <3>3, <4>2, <4>3
      <3>4. QED
        BY <1>7, <3>1, <3>2, <3>3
    <2>4. Stands(d)'
      BY <1>7, <2>3, GoneStands DEF Stands, SameRoute, Onward
    <2>5. QED
      BY <1>1, <1>2, <1>7, <2>1, <2>2, <2>4 DEF EndKept, HoldsTerms
  <1>8. QED
    BY <1>2, <1>3, <1>4, <1>5, <1>6, <1>7

\* Restoring the row changes nothing that is said of a purchase.
LEMMA RestoreKeeps ==
  ASSUME StoreOK, SameRoute, NEW r \in BOOLEAN, NEW o \in Restore(ReadJournal, r),
         journal' = journal, row' = o.row, Recorded, EndsKept,
         proc.cached => seen = proc.route /\ seen # NoDeal, stopped \subseteq Deals
  PROVE  /\ StoreOK'
         /\ \A e \in Deals : Unopened(e) => Unopened(e)'
         /\ \A e \in Deals : Bound(e) => Bound(e)'
         /\ Unresolved' = Unresolved /\ Recorded'
         /\ \A e \in stopped : EndKept(e)'
         /\ o.ok /\ r /\ o.row # NoRow => o.row \in Rows /\ (seen # NoDeal => o.row.deal = seen)
  <1>1. Unresolved' = Unresolved /\ (HoldsTerms' <=> HoldsTerms)
    BY DEF Unresolved, ReadJournal, HoldsTerms
  <1>0. ASSUME NEW e \in stopped, row' = row PROVE Stands(e)'
    <2>1. e \in Deals /\ Stands(e)
      BY <1>0 DEF EndsKept, EndKept
    <2>2. QED
      BY <1>0, <1>1, <2>1, StandsOn DEF Standing
  <1>2. CASE journal = NoJournal
    <2>1. row' = row
      BY <1>2, NotRead, RestoreNone
    <2>2. row # NoRow => row \in Rows /\ (seen # NoDeal => row.deal = seen)
      BY <1>2, NotRead DEF Recorded, StoreOK, HoldsTerms, Bound
    <2>3. QED
      BY <1>0, <1>1, <2>1, <2>2
      DEF StoreOK, Unopened, Bound, Recorded, EndsKept, EndKept, SameRoute, Steady, HoldsTerms
  <1>3. CASE journal # NoJournal /\ row' = row
    <2>1. o.ok /\ r => HoldsTerms /\ Unresolved = {} /\ Rebuilt(journal, row)
      <3>1. ReadJournal \in Records /\ (ReadJournal.terms => ReadJournal = journal)
            /\ ReadJournal.pending = Unresolved
        BY <1>3, Reading
      <3>2. o.ok /\ r => ReadJournal.terms /\ ReadJournal.pending = {}
                          /\ Rebuilt(ReadJournal, o.row)
        BY <3>1, RestoreOut
      <3>3. QED
        BY <1>3, <3>1, <3>2 DEF HoldsTerms
    <2>2. o.ok /\ r => row \in Rows /\ (seen # NoDeal => row.deal = seen)
      BY <2>1 DEF Rebuilt, Recorded, Bound
    <2>3. QED
      BY <1>0, <1>1, <1>3, <2>2
      DEF StoreOK, Unopened, Bound, Recorded, EndsKept, EndKept, SameRoute, Steady, HoldsTerms
  <1>4. CASE journal # NoJournal /\ row' # row
    <2>1. HoldsTerms /\ Unresolved = {} /\ Rebuilt(journal, row')
      BY <1>4, Reading, RestoreOut DEF HoldsTerms
    <2>2. StoreOK'
      BY <2>1 DEF StoreOK, Rebuilt
    <2>3. \A e \in Deals : (Unopened(e) => Unopened(e)') /\ (Bound(e) => Bound(e)')
      BY <2>1 DEF Unopened, Bound, HoldsTerms, Rebuilt, SameRoute, Steady
    <2>4. Recorded'
      BY <1>1, <2>1 DEF Recorded, Bound, HoldsTerms, SameRoute, Steady
    <2>5. seen # NoDeal => journal.deal = seen
      BY <2>1 DEF Recorded, Bound
    <2>6. \A e \in stopped : EndKept(e)'
      <3> SUFFICES ASSUME NEW e \in stopped PROVE EndKept(e)'
        OBVIOUS
      <3>1. EndKept(e)
        BY DEF EndsKept
      <3>0. Stands(e)'
        <4>1. Standing(e) => Standing(e)'
          BY <1>1, <2>1 DEF Standing, Rebuilt, HoldsTerms
        <4>2. QED
          BY <3>1, <4>1, StandsOn DEF EndKept
      <3>2. CASE journal.deal = e
        <4>1. row'.deal = e /\ row'.closed
          BY <2>1, <3>1, <3>2 DEF EndKept, Rebuilt
        <4>2. QED
          BY <3>0, <4>1 DEF EndKept
      <3>3. CASE journal.deal # e
        <4>1. row'.deal # e /\ ~(proc.cached /\ proc.route = e)
          BY <2>1, <2>5, <3>3 DEF Rebuilt
        <4>2. QED
          BY <3>0, <3>3, <4>1 DEF EndKept, SameRoute, Steady
      <3>4. QED
        BY <3>2, <3>3
    <2>7. QED
      BY <1>1, <2>1, <2>2, <2>3, <2>4, <2>5, <2>6 DEF Rebuilt
  <1>5. QED
    BY <1>2, <1>3, <1>4
-----------------------------------------------------------------------------
(***************************************************************************)
(* How the handlers move.                                                  *)
(***************************************************************************)

\* Only handler t has moved; it is idle, or at pc with its request.
Alone(t) == task' \in [Tasks -> TaskType] /\ \A u \in Tasks \ {t} : task'[u] = task[u]

Moved(t, pc) ==
  /\ task'[t].pc = pc /\ task'[t].deal = task[t].deal /\ task'[t].want = task[t].want
  /\ task'[t].known = task[t].known /\ (task'[t].wasSettled <=> task[t].wasSettled)

Rested(t) ==
  /\ task'[t].pc = "idle" /\ task'[t].deal = NoDeal /\ task'[t].known = 0
  /\ ~task'[t].wasSettled

LEMMA IdleFields ==
  /\ Idle \in TaskType /\ Idle.pc = "idle" /\ Idle.deal = NoDeal /\ Idle.known = 0
  /\ ~Idle.wasSettled
  BY DEF Idle, TaskType, Steps

LEMMA GoMoves ==
  ASSUME task \in [Tasks -> TaskType], NEW t \in Tasks, NEW pc \in Steps, Go(t, pc)
  PROVE  Alone(t) /\ Moved(t, pc)
  BY DEF Go, Alone, Moved, TaskType

LEMMA RestMoves ==
  ASSUME task \in [Tasks -> TaskType], NEW t \in Tasks, task' = [task EXCEPT ![t] = Idle]
  PROVE  Alone(t) /\ Rested(t)
  BY IdleFields DEF Alone, Rested

LEMMA FailsMoves ==
  ASSUME task \in [Tasks -> TaskType], NEW t \in Tasks, NEW b, Fails(t, b)
  PROVE  Alone(t) /\ (Rested(t) \/ (b /\ Moved(t, "answer")))
  <1>1. "answer" \in Steps
    BY DEF Steps
  <1>2. QED
    BY <1>1, GoMoves, RestMoves DEF Fails

\* A handler that did not move sees nothing of a step that keeps the route and
\* takes nothing back.
Calm ==
  /\ Steady /\ rank' = rank
  /\ Settled => Settled'
  /\ Onward
  /\ \A d \in stopped : Over(d) => d \in stopped'
  /\ \A d \in stopped' \ stopped :
       chain'[d] = "gone" \/ (d = proc.route /\ (proc.bound \/ ~Unopened(d)))
  /\ proc'.bound => proc.bound \/ ~Unopened(proc.route)
  /\ \A d \in Deals : Unopened(d) => Unopened(d)'
  /\ \A d \in Deals : d = proc.route /\ Bound(d) => Bound(d)'

LEMMA OtherKeeps ==
  ASSUME TypeOK, Calm, NEW u \in Tasks, HandlerOK(u), task'[u] = task[u],
         task[u].pc \in {"state", "terms"} => Unresolved \subseteq Unresolved'
  PROVE  HandlerOK(u)'
  <1>1. Syncing(u)' <=> Syncing(u)
    BY DEF Syncing
  <1>2. Initialising(u)' <=> Initialising(u)
    BY DEF Initialising
  <1>3. task[u] \in TaskType
    BY DEF TypeOK
  <1>4. Follows(u)'
    BY <1>1, <1>2, <1>3 DEF HandlerOK, Follows, Calm, Steady
  <1>5. Synced(u)'
    <2>1. Syncing(u) => task[u].deal = proc.route /\ proc.route # NoDeal
      BY DEF HandlerOK, Follows
    <2>2. task[u].pc = "discard" => Unopened(task[u].deal)'
      <3>1. task[u].pc = "discard" => task[u].deal \in Deals
        BY <1>3, <2>1 DEF Syncing, TaskType
      <3>2. QED
        BY <3>1 DEF HandlerOK, Synced, Calm
    <2>0. task[u].pc = "discard" =>
            ~proc'.bound /\ (task[u].deal \in stopped' => chain'[task[u].deal] = "gone")
      <3>1. task[u].pc = "discard" =>
              /\ task[u].deal \in Deals /\ task[u].deal = proc.route /\ ~proc.bound
              /\ Unopened(proc.route)
              /\ task[u].deal \in stopped => chain[task[u].deal] = "gone"
        BY <1>3, <2>1 DEF Syncing, TaskType, HandlerOK, Synced
      <3>2. QED
        BY <3>1 DEF Calm, Onward
    <2>3. task[u].pc \in {"tail", "serve"} /\ task[u].deal = proc.route => Bound(task[u].deal)'
      <3>1. task[u].pc \in {"tail", "serve"} => task[u].deal \in Deals
        BY <1>3, <2>1 DEF Syncing, TaskType, HandlerOK, Follows
      <3>2. QED
        BY <3>1 DEF HandlerOK, Synced, Calm
    <2>4. QED
      BY <2>0, <2>2, <2>3 DEF HandlerOK, Synced, Calm, Steady
  <1>6. Settles(u)'
    BY <1>1, <1>3 DEF HandlerOK, Settles, Calm, Onward, TaskType
  <1>7. QED
    BY <1>4, <1>5, <1>6 DEF HandlerOK

LEMMA RestedOK ==
  ASSUME TypeOK', NEW t \in Tasks, Rested(t)
  PROVE  HandlerOK(t)'
  <1>1. ~Syncing(t)' /\ ~Initialising(t)'
    BY DEF Rested, Syncing, Initialising
  <1>2. (IF seen' = NoDeal THEN 0 ELSE rank'[seen']) \in Nat
    BY DEF TypeOK
  <1>3. QED
    BY <1>1, <1>2 DEF HandlerOK, Follows, Synced, Settles, Rested

\* The handler has moved on with its request.
LEMMA MovedOK ==
  ASSUME TypeOK, Calm, NEW t \in Tasks, HandlerOK(t), Syncing(t), NEW pc, Moved(t, pc),
         pc \in {"state", "terms", "discard"} => ~proc.cached,
         pc = "open" => proc.cached,
         pc \in {"state", "terms"} => task[t].deal \in Unresolved',
         pc = "terms" => seen = task[t].deal,
         pc = "discard" => /\ Unopened(task[t].deal)' /\ ~task[t].wasSettled /\ ~proc'.bound
                           /\ task[t].deal \in stopped' => chain'[task[t].deal] = "gone",
         pc \in {"tail", "serve"} => Bound(task[t].deal)',
         pc = "answer" /\ task[t].wasSettled => task[t].deal \in stopped'
  PROVE  HandlerOK(t)'
  <1>1. task[t].deal = proc.route /\ proc.route # NoDeal /\ task[t] \in TaskType
    BY DEF HandlerOK, Follows, TypeOK
  <1>2. task'[t].pc = pc /\ task'[t].deal = task[t].deal /\ task'[t].known = task[t].known
        /\ (task'[t].wasSettled <=> task[t].wasSettled)
    BY DEF Moved
  <1>3. Follows(t)'
    BY <1>1, <1>2 DEF HandlerOK, Follows, Calm, Steady, Initialising
  <1>4. Synced(t)'
    BY <1>1, <1>2 DEF HandlerOK, Synced, Calm, Steady
  <1>5. Settles(t)'
    <2>1. task[t].wasSettled => Settled /\ Over(task[t].deal)
      BY DEF HandlerOK, Settles
    <2>2. task[t].deal \in Deals
      BY <1>1 DEF TaskType
    <2>3. QED
      BY <1>1, <1>2, <2>1, <2>2 DEF Settles, Calm, Onward
  <1>6. QED
    BY <1>3, <1>4, <1>5 DEF HandlerOK
-----------------------------------------------------------------------------
(***************************************************************************)
(* The steps of a handler's synchronisation.                               *)
(***************************************************************************)
LEMMA SilentOK == ASSUME Silent PROVE NoOlderQuota' /\ EndedHasNoQuota'
  BY DEF Silent, None, NoOlderQuota, EndedHasNoQuota

\* Nothing is said differently when the store and what was seen stay.
LEMMA StoreStill ==
  ASSUME StoreOK, SameRoute, journal' = journal, row' = row, Recorded, EndsKept,
         stopped \subseteq Deals
  PROVE  /\ StoreOK' /\ Unresolved' = Unresolved /\ Recorded'
         /\ \A d \in Deals : (Unopened(d) => Unopened(d)') /\ (Bound(d) => Bound(d)')
         /\ \A d \in stopped : EndKept(d)'
  <1>1. Unresolved' = Unresolved /\ (HoldsTerms' <=> HoldsTerms)
    BY DEF Unresolved, ReadJournal, HoldsTerms
  <1>2. \A d : (Unopened(d) => Unopened(d)') /\ (Bound(d) => Bound(d)')
    BY <1>1 DEF Unopened, Bound, SameRoute, Steady
  <1>3. Recorded'
    BY <1>1 DEF Recorded, Bound, SameRoute, Steady
  <1>4. ASSUME NEW d \in stopped PROVE EndKept(d)'
    <2>1. EndKept(d) /\ d \in Deals
      BY <1>4 DEF EndsKept
    <2>2. Stands(d)'
      BY <1>1, <2>1, StandsOn DEF EndKept, Standing
    <2>3. QED
      BY <1>1, <2>1, <2>2 DEF EndKept, SameRoute, Steady
  <1>5. QED
    BY <1>1, <1>2, <1>3, <1>4 DEF StoreOK

SameSession ==
  /\ proc' \in ProcType /\ (proc'.up <=> proc.up)
  /\ proc'.phase = proc.phase /\ proc'.closing = proc.closing
  /\ (proc'.known <=> proc.known)

LEMMA StepKeeps ==
  ASSUME QuotaInv, Calm, SameRoute, SameSession, proc.up, chain' = chain, Silent,
         StoreOK', faults' \in Nat, Recorded', EndsKept', stopped' \subseteq Deals,
         proc'.bound => proc.bound \/ (proc.route # NoDeal /\ Bound(proc.route)'),
         proc.bound /\ proc.route \in Unresolved =>
           proc.route \in Unresolved' \/ Bound(proc.route)',
         NEW t \in Tasks, Alone(t), HandlerOK(t)',
         \A u \in Tasks \ {t} :
           /\ task[u].pc \in {"state", "terms"} => Unresolved \subseteq Unresolved'
           /\ ~(Initialising(t)' /\ Initialising(u))
  PROVE  QuotaInv'
  <1>1. TypeOK'
    BY DEF QuotaInv, TypeOK, StoreOK, Calm, SameRoute, Steady, SameSession, Alone
  <1>2. Process'
    BY DEF QuotaInv, Process, Calm, Steady, SameSession, Over
  <1>3. ChainSeen'
    BY DEF QuotaInv, ChainSeen, Calm
  <1>7. Binds'
    <2>1. proc.route \in Deals \cup {NoDeal} /\ proc'.route = proc.route
      BY DEF QuotaInv, TypeOK, ProcType, Calm, Steady
    <2>3. CASE proc'.bound /\ proc.bound
      <3>1. /\ proc.route # NoDeal /\ chain[proc.route] # "funded"
            /\ Bound(proc.route) \/ proc.route \in Unresolved
        BY <2>3 DEF QuotaInv, Binds
      <3>2. proc.route \in Deals /\ (Bound(proc.route) => Bound(proc.route)')
        BY <2>1, <3>1 DEF Calm
      <3>3. QED
        BY <2>1, <2>3, <3>1, <3>2 DEF Binds
    <2>4. CASE proc'.bound /\ ~proc.bound
      <3>1. Bound(proc.route)' /\ proc.route # NoDeal
        BY <2>4
      <3>2. ~Unopened(proc.route)'
        BY <3>1 DEF Bound, Unopened
      <3>3. QED
        BY <1>3, <2>1, <3>1, <3>2 DEF Binds, ChainSeen
    <2>5. QED
      BY <2>3, <2>4 DEF Binds
  <1>4. OneInitialiser'
    BY DEF QuotaInv, OneInitialiser, Initialising, Alone
  <1>5. \A u \in Tasks : HandlerOK(u)'
    <2>1. ASSUME NEW u \in Tasks \ {t} PROVE HandlerOK(u)'
      BY <2>1, OtherKeeps DEF QuotaInv, Alone
    <2>2. QED
      BY <2>1
  <1>6. QED
    BY <1>1, <1>2, <1>3, <1>4, <1>5, <1>7, SilentOK DEF QuotaInv

\* The hypotheses about a session that goes on as it was.
LEMMA SameProc ==
  ASSUME TypeOK, UNCHANGED proc, UNCHANGED <<seen, facts, chain>>
  PROVE  SameRoute /\ SameSession
  BY DEF TypeOK, SameRoute, Steady, SameSession, Onward, Over

LEMMA Still == ASSUME chain' = chain PROVE Onward
  BY DEF Onward, Over

LEMMA CalmStep ==
  ASSUME SameRoute, rank' = rank, Settled => Settled',
         \A d \in stopped : Over(d) => d \in stopped',
         \A d \in stopped' \ stopped :
           chain'[d] = "gone" \/ (d = proc.route /\ (proc.bound \/ ~Unopened(d))),
         proc'.bound => proc.bound \/ ~Unopened(proc.route),
         \A d \in Deals : Unopened(d) => Unopened(d)',
         \A d \in Deals : d = proc.route /\ Bound(d) => Bound(d)'
  PROVE  Calm
  BY DEF Calm, SameRoute

\* A session stays bound to what the store says or names.
LEMMA BindsStay ==
  ASSUME TypeOK, Binds, Onward, proc'.route = proc.route, proc'.bound => proc.bound,
         Unresolved \subseteq Unresolved', \A e \in Deals : Bound(e) => Bound(e)'
  PROVE  Binds'
  <1>1. CASE proc'.bound
    <2>1. /\ proc.route \in Deals /\ chain[proc.route] # "funded"
          /\ Bound(proc.route) \/ proc.route \in Unresolved
      BY <1>1 DEF Binds, TypeOK, ProcType
    <2>2. \A e \in Deals : e = proc'.route /\ Bound(e) => Bound(e)'
      OBVIOUS
    <2>3. Bound(proc.route) => Bound(proc.route)'
      BY <2>1, <2>2 DEF Bound, HoldsTerms
    <2>4. QED
      BY <2>1, <2>3, QuotaAssumption DEF Binds, Onward
  <1>2. QED
    BY <1>1 DEF Binds

LEMMA CheckKeeps ==
  ASSUME QuotaInv, NEW t \in Tasks, Check(t)
  PROVE  QuotaInv'
  <1> DEFINE d == task[t].deal
  <1>1. /\ proc.up /\ task[t].pc = "check" /\ Silent
        /\ UNCHANGED <<journal, row, faults, facts, chain, rank, seen, stopped, proc>>
    BY DEF Check, At, Kept, StoreKept
  <1>2. StoreOK /\ TypeOK /\ Recorded /\ EndsKept /\ stopped \subseteq Deals /\ HandlerOK(t) /\ task[t] \in TaskType
    BY DEF QuotaInv, TypeOK, StoreOK
  <1>3. SameRoute /\ SameSession /\ (Settled => Settled')
    BY <1>1, <1>2, SameProc DEF Settled
  <1>4. /\ StoreOK' /\ Unresolved' = Unresolved /\ Recorded'
        /\ \A e \in Deals : (Unopened(e) => Unopened(e)') /\ (Bound(e) => Bound(e)')
        /\ EndsKept'
    BY <1>1, <1>2, <1>3, StoreStill DEF EndsKept
  <1>5. Calm
    BY <1>1, <1>3, <1>4, CalmStep
  <1>6. Syncing(t) /\ d = proc.route /\ d \in Deals
    BY <1>1, <1>2 DEF Syncing, HandlerOK, Follows, TaskType
  <1>7. PICK pc \in {"tail", "open", "begin"} :
          /\ Go(t, pc) /\ (pc = "tail" => HasQuota(d)) /\ (pc = "open" => proc.cached)
    BY DEF Check
  <1>8. Alone(t) /\ Moved(t, pc)
    BY <1>2, <1>7, GoMoves DEF TypeOK, Steps
  <1>9. pc = "tail" => Bound(d)
    BY <1>2, <1>7, Reading DEF HasQuota, Bound, HoldsTerms
  <1>10. HandlerOK(t)'
    <2>1. pc = "tail" => Bound(task[t].deal)'
      <3>1. task'[t].deal = d
        BY <1>8 DEF Moved
      <3>2. QED
        BY <1>4, <1>6, <1>9, <3>1 DEF Bound, HoldsTerms
    <2> HIDE DEF d
    <2>2. QED
      BY <1>2, <1>5, <1>6, <1>7, <1>8, <2>1, MovedOK
  <1>11. ~Initialising(t)'
    BY <1>7, <1>8 DEF Moved, Initialising
  <1>12. QED
    BY <1>1, <1>2, <1>3, <1>4, <1>5, <1>8, <1>10, <1>11, StepKeeps
    DEF TypeOK, QuotaInv, ChainSeen

\* What every step of a handler's synchronisation starts from.
LEMMA SyncStart ==
  ASSUME QuotaInv, NEW t \in Tasks, Syncing(t)
  PROVE  /\ StoreOK /\ TypeOK /\ Recorded /\ EndsKept /\ stopped \subseteq Deals /\ HandlerOK(t) /\ task[t] \in TaskType
         /\ task[t].deal = proc.route /\ task[t].deal \in Deals
  BY DEF QuotaInv, TypeOK, StoreOK, HandlerOK, Follows, TaskType

LEMMA FaultsType ==
  ASSUME TypeOK, NEW o, Does({o}, o)
  PROVE  faults' \in Nat /\ Takes(o)
  BY DEF TypeOK, Does, Takes

LEMMA BeginQuotaKeeps ==
  ASSUME QuotaInv, NEW t \in Tasks, BeginQuota(t)
  PROVE  QuotaInv'
  <1> DEFINE d == task[t].deal
  <1>1. /\ proc.up /\ task[t].pc = "begin" /\ Silent /\ Syncing(t)
        /\ UNCHANGED <<facts, chain, rank, seen, stopped, proc>>
    BY DEF BeginQuota, At, Kept, Syncing
  <1>2. /\ StoreOK /\ TypeOK /\ Recorded /\ EndsKept /\ stopped \subseteq Deals /\ HandlerOK(t) /\ task[t] \in TaskType
        /\ d = proc.route /\ d \in Deals
    BY <1>1, SyncStart
  <1>3. SameRoute /\ SameSession /\ (Settled => Settled')
    BY <1>1, <1>2, SameProc DEF Settled
  <1>4. \A u \in Tasks \ {t} : ~Initialising(u)
    BY DEF BeginQuota, Initialising
  <1>5. CASE proc.cached /\ Go(t, "open") /\ StoreKept
    <2>1. /\ StoreOK' /\ Unresolved' = Unresolved /\ Recorded'
          /\ \A e \in Deals : (Unopened(e) => Unopened(e)') /\ (Bound(e) => Bound(e)')
          /\ EndsKept'
      BY <1>1, <1>2, <1>3, <1>5, StoreStill DEF EndsKept, StoreKept
    <2>2. Calm
      BY <1>1, <1>3, <2>1, CalmStep
    <2>3. Alone(t) /\ Moved(t, "open")
      BY <1>2, <1>5, GoMoves DEF TypeOK, Steps
    <2>4. HandlerOK(t)'
      BY <1>1, <1>2, <1>5, <2>2, <2>3, MovedOK
    <2>5. QED
      BY <1>1, <1>2, <1>3, <1>4, <1>5, <2>1, <2>2, <2>3, <2>4, StepKeeps
      DEF TypeOK, QuotaInv, ChainSeen, StoreKept
  <1>6. ASSUME ~proc.cached, NEW o \in Begin(d), Does({o}, o),
               IF o.ok THEN Go(t, "state") ELSE Fails(t, FALSE)
        PROVE  QuotaInv'
    <2>1. faults' \in Nat /\ Takes(o)
      BY <1>2, <1>6, FaultsType
    <2>2. /\ Pends(d) /\ Unresolved \subseteq Unresolved' /\ (o.ok => d \in Unresolved')
          /\ journal # NoJournal => Remains
      BY <1>2, <1>6, <2>1, BeginPends
    <2>3. /\ \A e \in Deals : (Unopened(e) => Unopened(e)') /\ (Bound(e) => Bound(e)')
          /\ Recorded' /\ EndsKept' /\ StoreOK'
      BY <1>1, <1>2, <1>3, <1>6, <2>2, PendsKeeps DEF EndsKept, Pends
    <2>4. Calm
      BY <1>1, <1>3, <2>3, CalmStep
    <2>5. Alone(t) /\ HandlerOK(t)'
      <3>1. CASE o.ok
        <4>1. Alone(t) /\ Moved(t, "state")
          BY <1>2, <1>6, <3>1, GoMoves DEF TypeOK, Steps
        <4>2. HandlerOK(t)'
          BY <1>1, <1>2, <1>6, <2>2, <2>4, <3>1, <4>1, MovedOK
        <4>3. QED
          BY <4>1, <4>2
      <3>2. CASE ~o.ok
        <4>1. Alone(t) /\ Rested(t)
          BY <1>2, <1>6, <3>2, FailsMoves DEF TypeOK
        <4>2. TypeOK'
          BY <1>1, <1>2, <1>3, <2>1, <2>3, <4>1 DEF TypeOK, StoreOK, Alone, SameSession
        <4>3. QED
          BY <4>1, <4>2, RestedOK
      <3>3. QED
        BY <3>1, <3>2
    <2>6. QED
      BY <1>1, <1>2, <1>3, <1>4, <2>1, <2>2, <2>3, <2>4, <2>5, StepKeeps
      DEF TypeOK, QuotaInv, ChainSeen
  <1>7. QED
    BY <1>5, <1>6 DEF BeginQuota

LEMMA DiscardQuotaKeeps ==
  ASSUME QuotaInv, NEW t \in Tasks, DiscardQuota(t)
  PROVE  QuotaInv'
  <1> DEFINE d == task[t].deal
  <1>1. /\ proc.up /\ task[t].pc = "discard" /\ Silent /\ Syncing(t) /\ Initialising(t)
        /\ UNCHANGED <<facts, chain, rank, seen, stopped, proc>>
    BY DEF DiscardQuota, At, Kept, Syncing, Initialising
  <1>2. /\ StoreOK /\ TypeOK /\ Recorded /\ EndsKept /\ stopped \subseteq Deals /\ HandlerOK(t) /\ task[t] \in TaskType
        /\ d = proc.route /\ d \in Deals
    BY <1>1, SyncStart
  <1>3. SameRoute /\ SameSession /\ (Settled => Settled')
    BY <1>1, <1>2, SameProc DEF Settled
  <1>4. \A u \in Tasks \ {t} : ~Initialising(u) /\ task[u].pc \notin {"state", "terms"}
    BY <1>1 DEF QuotaInv, OneInitialiser, Initialising
  <1>5. /\ ~proc.cached /\ Unopened(d) /\ ~task[t].wasSettled /\ ~proc.bound
        /\ d \in stopped => chain[d] = "gone"
    BY <1>1, <1>2 DEF HandlerOK, Follows, Synced, Settles
  <1>6. PICK o \in Discard(d) : Does({o}, o) /\ Fails(t, o.ok)
    BY DEF DiscardQuota
  <1>7. faults' \in Nat /\ Takes(o)
    BY <1>2, <1>6, FaultsType
  <1>8. Pends(d)
    BY <1>2, <1>6, <1>7, DiscardPends
  <1>9. /\ \A e \in Deals : (Unopened(e) => Unopened(e)') /\ (Bound(e) => Bound(e)')
        /\ Recorded' /\ EndsKept' /\ StoreOK'
    <2>1. seen # d
      BY <1>5 DEF Unopened
    <2>2. QED
      BY <1>1, <1>2, <1>3, <1>5, <1>8, <2>1, PendsKeeps DEF EndsKept, Pends
  <1>10. Calm
    BY <1>1, <1>3, <1>9, CalmStep
  <1>11. Alone(t) /\ (Rested(t) \/ Moved(t, "answer"))
    BY <1>2, <1>6, FailsMoves DEF TypeOK
  <1>12. HandlerOK(t)'
    <2>1. CASE Rested(t)
      <3>1. TypeOK'
        BY <1>1, <1>2, <1>3, <1>7, <1>9, <1>11 DEF TypeOK, StoreOK, Alone, SameSession
      <3>2. QED
        BY <2>1, <3>1, RestedOK
    <2>2. CASE Moved(t, "answer")
      BY <1>1, <1>2, <1>5, <1>10, <2>2, MovedOK
    <2>3. QED
      BY <1>11, <2>1, <2>2
  <1>13. QED
    BY <1>1, <1>2, <1>3, <1>4, <1>5, <1>7, <1>9, <1>10, <1>11, <1>12, StepKeeps
    DEF TypeOK, QuotaInv, ChainSeen

LEMMA OpenQuotaKeeps ==
  ASSUME QuotaInv, NEW t \in Tasks, OpenQuota(t)
  PROVE  QuotaInv'
  <1> DEFINE d == task[t].deal
  <1>1. /\ proc.up /\ task[t].pc = "open" /\ Silent /\ Syncing(t)
        /\ UNCHANGED <<facts, chain, rank, seen, proc>>
    BY DEF OpenQuota, At, Syncing
  <1>2. /\ StoreOK /\ TypeOK /\ Recorded /\ EndsKept /\ stopped \subseteq Deals /\ HandlerOK(t) /\ task[t] \in TaskType
        /\ d = proc.route /\ d \in Deals
    BY <1>1, SyncStart
  <1>3. SameRoute /\ SameSession /\ (Settled => Settled')
    BY <1>1, <1>2, SameProc DEF Settled
  <1>4. proc.cached /\ seen = d
    BY <1>1, <1>2 DEF HandlerOK, Follows, QuotaInv, Process
  <1>5. \A u \in Tasks : ~Initialising(u) /\ task[u].pc \notin {"state", "terms"}
    BY <1>4 DEF QuotaInv, HandlerOK, Follows, Initialising
  <1>6. PICK o \in Open(d) :
          /\ Does({o}, o) /\ (IF o.ok THEN Go(t, "tail") ELSE Fails(t, FALSE))
          /\ stopped' = {e \in stopped : Over(e) \/ e = d \/ o.journal = journal}
    BY DEF OpenQuota
  <1>7. faults' \in Nat /\ Takes(o)
    BY <1>2, <1>6, FaultsType
  <1>8. /\ StoreOK' /\ Recorded' /\ \A e \in Deals : Unopened(e) => Unopened(e)'
        /\ \A e \in stopped' : EndKept(e)'
        /\ stopped' \subseteq stopped /\ \A e \in stopped : Over(e) => e \in stopped'
    BY <1>2, <1>3, <1>4, <1>6, <1>7, OpenKeeps
  <1>9. \A e \in Deals : e = proc.route =>
          /\ Bound(e) => Bound(e)'
          /\ o.ok => Bound(e)'
          /\ Unresolved \subseteq Unresolved' \/ Bound(e)'
    BY <1>2, <1>3, <1>4, <1>6, <1>7, OpenKeeps
  <1>10. Calm
    BY <1>1, <1>3, <1>8, <1>9, CalmStep
  <1>11. Alone(t) /\ HandlerOK(t)' /\ ~Initialising(t)'
    <2>1. CASE o.ok
      <3>1. Alone(t) /\ Moved(t, "tail")
        BY <1>2, <1>6, <2>1, GoMoves DEF TypeOK, Steps
      <3>2. Bound(task[t].deal)'
        <4>1. task'[t].deal = d
          BY <3>1 DEF Moved
        <4>2. QED
          BY <1>2, <1>9, <2>1, <4>1 DEF Bound, HoldsTerms
      <3>3. HandlerOK(t)'
        BY <1>1, <1>2, <1>10, <3>1, <3>2, MovedOK
      <3>4. QED
        BY <3>1, <3>3 DEF Moved, Initialising
    <2>2. CASE ~o.ok
      <3>1. Alone(t) /\ Rested(t)
        BY <1>2, <1>6, <2>2, FailsMoves DEF TypeOK
      <3>2. TypeOK'
        BY <1>1, <1>2, <1>3, <1>7, <1>8, <3>1 DEF TypeOK, StoreOK, Alone, SameSession
      <3>3. QED
        BY <3>1, <3>2, RestedOK DEF Rested, Initialising
    <2>3. QED
      BY <2>1, <2>2
  <1>12. EndsKept'
    BY <1>1, <1>8 DEF EndsKept
  <1>13. QED
    <2>1. proc.route \in Unresolved => proc.route \in Unresolved' \/ Bound(proc.route)'
      <3>1. proc'.route = proc.route /\ proc.route \in Deals
        BY <1>1, <1>2
      <3>2. \A e \in Deals : e = proc'.route => Unresolved \subseteq Unresolved' \/ Bound(e)'
        BY <1>9, <3>1
      <3>3. QED
        BY <3>1, <3>2 DEF Bound, HoldsTerms
    <2>2. QED
      BY <1>1, <1>2, <1>3, <1>5, <1>7, <1>8, <1>10, <1>11, <1>12, <2>1, StepKeeps
      DEF TypeOK, QuotaInv, ChainSeen

LEMMA TailKeeps ==
  ASSUME QuotaInv, NEW t \in Tasks, Tail(t)
  PROVE  QuotaInv'
  <1> DEFINE d == task[t].deal
             done == IF task[t].want = "swap" THEN task' = [task EXCEPT ![t] = Idle]
                     ELSE Go(t, task[t].want)
  <1>1. /\ proc.up /\ task[t].pc = "tail" /\ Silent /\ Syncing(t)
        /\ proc' = [proc EXCEPT !.bound = TRUE]
        /\ UNCHANGED <<facts, chain, rank, seen>>
    BY DEF Tail, At, Syncing
  <1>2. /\ StoreOK /\ TypeOK /\ Recorded /\ EndsKept /\ stopped \subseteq Deals /\ HandlerOK(t) /\ task[t] \in TaskType
        /\ d = proc.route /\ d \in Deals
    BY <1>1, SyncStart
  <1>3. SameRoute /\ SameSession /\ (Settled => Settled')
    <2>1. proc \in ProcType
      BY <1>2 DEF TypeOK
    <2>2. QED
      BY <1>1, <2>1, Still DEF ProcType, SameRoute, Steady, SameSession, Settled
  <1>4. Bound(d) /\ ~Unopened(d) /\ chain[d] # "funded"
    <2>1. Bound(d)
      BY <1>1, <1>2 DEF HandlerOK, Synced
    <2>2. ~Unopened(d)
      BY <1>2, <2>1, QuotaAssumption DEF Bound, Unopened
    <2>3. QED
      BY <1>2, <2>1, <2>2 DEF QuotaInv, ChainSeen
  <1>5. done => Alone(t) /\ (Rested(t) \/ Moved(t, "answer") \/ Moved(t, "serve"))
    <2>1. CASE task[t].want = "swap"
      BY <1>2, <2>1, RestMoves DEF TypeOK
    <2>2. CASE task[t].want # "swap"
      <3>1. task[t].want \in {"answer", "serve"} /\ "answer" \in Steps /\ "serve" \in Steps
        BY <1>2, <2>2 DEF TaskType, Steps
      <3>2. QED
        BY <1>2, <2>2, <3>1, GoMoves DEF TypeOK
    <2>3. QED
      BY <2>1, <2>2
  <1> HIDE DEF done
  <1>6. CASE ~KnownTerminal /\ done /\ StoreKept /\ UNCHANGED stopped
    <2>1. /\ StoreOK' /\ Unresolved' = Unresolved /\ Recorded'
          /\ \A e \in Deals : (Unopened(e) => Unopened(e)') /\ (Bound(e) => Bound(e)')
          /\ EndsKept'
      BY <1>2, <1>3, <1>6, StoreStill DEF EndsKept, StoreKept
    <2>2. Calm
      BY <1>1, <1>2, <1>3, <1>4, <1>6, <2>1, CalmStep
    <2>9. Bound(proc.route)'
      <3>1. proc'.route = d /\ proc.route = d
        BY <1>2, <1>3 DEF SameRoute, Steady
      <3>2. \A e \in Deals : e = d => Bound(e)'
        BY <1>4, <2>1
      <3>3. QED
        BY <1>2, <3>1, <3>2 DEF Bound, HoldsTerms
    <2>3. Alone(t) /\ (Rested(t) \/ Moved(t, "answer") \/ Moved(t, "serve"))
      BY <1>5, <1>6
    <2>4. TypeOK'
      BY <1>1, <1>2, <1>3, <1>6, <2>1, <2>3 DEF TypeOK, StoreOK, Alone, SameSession, StoreKept
    <2>5. ~task[t].wasSettled
      BY <1>1, <1>2, <1>6 DEF HandlerOK, Settles, Settled, KnownTerminal
    <2>6. HandlerOK(t)'
      <3>1. CASE Rested(t)
        BY <2>4, <3>1, RestedOK
      <3>2. CASE Moved(t, "answer")
        BY <1>1, <1>2, <2>2, <2>5, <3>2, MovedOK
      <3>3. CASE Moved(t, "serve")
        <4>1. Bound(task[t].deal)'
          <5>1. task'[t].deal = d
            BY <3>3 DEF Moved
          <5>2. QED
            BY <1>2, <1>4, <2>1, <5>1 DEF Bound, HoldsTerms
        <4>2. QED
          BY <1>1, <1>2, <2>2, <3>3, <4>1, MovedOK
      <3>4. QED
        BY <2>3, <3>1, <3>2, <3>3
    <2>7. ~Initialising(t)'
      BY <2>3 DEF Rested, Moved, Initialising
    <2>8. QED
      BY <1>1, <1>2, <1>3, <1>6, <2>1, <2>2, <2>3, <2>4, <2>6, <2>7, <2>9, StepKeeps,
         QuotaAssumption
      DEF TypeOK, QuotaInv, ChainSeen
  <1>7. ASSUME KnownTerminal, NEW o \in Close(d), Does({o}, o),
               IF o.ok THEN done /\ stopped' = stopped \cup {d}
               ELSE Fails(t, FALSE) /\ UNCHANGED stopped
        PROVE  QuotaInv'
    <2>1. faults' \in Nat /\ Takes(o)
      BY <1>2, <1>7, FaultsType
    <2>2. /\ StoreOK' /\ Unresolved \subseteq Unresolved' /\ Recorded'
          /\ \A e \in Deals : (Unopened(e) => Unopened(e)') /\ (Bound(e) => Bound(e)')
          /\ \A e \in stopped : EndKept(e)'
      BY <1>2, <1>3, <1>7, <2>1, CloseKeeps
    <2>3. \A e \in Deals : e = d /\ o.ok => EndKept(e)'
      <3>1. \A e \in Deals : e = d => Bound(e)'
        BY <1>2, <1>4, <2>2
      <3>2. \A e \in Deals : e = d => journal'.deal = e \/ (~HoldsTerms' /\ row'.deal = e)
        BY <3>1 DEF Bound
      <3> HIDE DEF d
      <3>3. QED
        BY <1>2, <1>3, <1>4, <1>7, <2>1, <3>2, CloseKeeps
    <2>4. Bound(proc.route)'
      <3>1. proc'.route = d /\ proc.route = d
        BY <1>2, <1>3 DEF SameRoute, Steady
      <3>2. \A e \in Deals : e = d => Bound(e)'
        BY <1>4, <2>2
      <3>3. QED
        BY <1>2, <3>1, <3>2 DEF Bound, HoldsTerms
    <2>5. /\ stopped \subseteq stopped' /\ stopped' \subseteq Deals
          /\ \A e \in stopped' \ stopped : e = d
      BY <1>2, <1>7
    <2>6. EndsKept'
      <3>1. \A e \in stopped' : e \in stopped \/ (e = d /\ o.ok)
        BY <1>7
      <3>2. QED
        BY <1>2, <2>2, <2>3, <3>1 DEF EndsKept
    <2>7. Calm
      BY <1>1, <1>2, <1>3, <1>4, <2>2, <2>5, CalmStep
    <2>8. /\ Alone(t)
          /\ \/ Rested(t)
             \/ o.ok /\ (Moved(t, "answer") \/ Moved(t, "serve"))
      BY <1>2, <1>5, <1>7, FailsMoves DEF TypeOK
    <2>9. TypeOK'
      BY <1>1, <1>2, <1>3, <2>1, <2>2, <2>5, <2>8 DEF TypeOK, StoreOK, Alone, SameSession
    <2>10. HandlerOK(t)'
      <3>1. CASE Rested(t)
        BY <2>9, <3>1, RestedOK
      <3>2. CASE o.ok /\ Moved(t, "answer")
        <4>1. task[t].deal \in stopped'
          BY <1>7, <3>2
        <4>2. QED
          BY <1>1, <1>2, <2>7, <3>2, <4>1, MovedOK
      <3>3. CASE o.ok /\ Moved(t, "serve")
        <4>1. Bound(task[t].deal)'
          <5>1. task'[t].deal = d
            BY <3>3 DEF Moved
          <5>2. QED
            BY <1>2, <1>4, <2>2, <5>1 DEF Bound, HoldsTerms
        <4>2. QED
          BY <1>1, <1>2, <2>7, <3>3, <4>1, MovedOK
      <3>4. QED
        BY <2>8, <3>1, <3>2, <3>3
    <2>11. ~Initialising(t)'
      BY <2>8 DEF Rested, Moved, Initialising
    <2>12. QED
      BY <1>1, <1>2, <1>3, <2>1, <2>2, <2>4, <2>5, <2>6, <2>7, <2>8, <2>10, <2>11, StepKeeps,
         QuotaAssumption
  <1>8. QED
    BY <1>6, <1>7 DEF Tail, done

\* The purchase of the route is seen open, or used.
LEMMA SeenKeeps ==
  ASSUME QuotaInv, NEW t \in Tasks, Alone(t), SameSession, proc.up, Silent,
         UNCHANGED <<journal, row, faults, facts, chain, rank, stopped>>,
         proc'.route = proc.route, proc'.cached <=> proc.cached,
         proc.route \in Deals, seen' = proc.route,
         Bound(proc.route) \/ proc.route \in Unresolved,
         chain[proc.route] # "funded",
         \A u \in Tasks \ {t} : task[u].pc = "discard" => ~Unopened(proc.route),
         \A u \in Tasks \ {t} : ~(Initialising(t)' /\ Initialising(u)),
         TypeOK' => HandlerOK(t)'
  PROVE  QuotaInv'
  <1>1. TypeOK'
    BY DEF QuotaInv, TypeOK, SameSession, Alone
  <1>2. Unresolved' = Unresolved /\ (HoldsTerms' <=> HoldsTerms)
    BY DEF Unresolved, ReadJournal, HoldsTerms
  <1>3. \A e \in Deals : e # proc.route => (Unopened(e) => Unopened(e)')
    BY <1>2 DEF Unopened
  <1>4. \A e \in Deals : Bound(e) => Bound(e)'
    BY <1>2 DEF Bound
  <1>5. Process'
    BY DEF QuotaInv, Process, SameSession, Over
  <1>12. Binds'
    BY <1>2, QuotaAssumption DEF Binds, Bound, HoldsTerms
  <1>6. ChainSeen'
    BY <1>3 DEF QuotaInv, ChainSeen
  <1>7. Recorded'
    BY <1>2 DEF Recorded, Bound, HoldsTerms
  <1>8. OneInitialiser'
    BY DEF QuotaInv, OneInitialiser, Initialising, Alone
  <1>9. EndsKept'
    BY <1>2 DEF QuotaInv, EndsKept, EndKept, Stands, Standing
  <1>10. ASSUME NEW u \in Tasks \ {t} PROVE HandlerOK(u)'
    <2>1. HandlerOK(u) /\ task'[u] = task[u] /\ task[u] \in TaskType
      BY <1>10 DEF QuotaInv, Alone, TypeOK
    <2>2. (Syncing(u)' <=> Syncing(u)) /\ (Initialising(u)' <=> Initialising(u))
      BY <2>1 DEF Syncing, Initialising
    <2>3. Follows(u)'
      BY <2>1, <2>2 DEF HandlerOK, Follows
    <2>4. Syncing(u) => task[u].deal = proc.route
      BY <2>1 DEF HandlerOK, Follows
    <2>5. task[u].known <= rank[proc.route]
      <3>1. /\ seen \in Deals \cup {NoDeal} /\ rank \in [Deals -> Nat]
            /\ \A e \in Deals : rank[e] <= rank[proc.route]
        BY QuotaAssumption DEF QuotaInv, TypeOK, Process
      <3>2. task[u].known <= (IF seen = NoDeal THEN 0 ELSE rank[seen]) /\ task[u].known \in Nat
        BY <2>1 DEF HandlerOK, Synced, TaskType
      <3>3. CASE seen = NoDeal
        BY <3>1, <3>2, <3>3
      <3>4. CASE seen \in Deals
        BY <3>1, <3>2, <3>4, QuotaAssumption
      <3>5. QED
        BY <3>1, <3>3, <3>4
    <2>6. task[u].pc = "discard" => FALSE
      <3>1. task[u].pc = "discard" => Unopened(task[u].deal) /\ task[u].deal = proc.route
        BY <2>1, <2>4 DEF HandlerOK, Synced, Syncing
      <3>2. QED
        BY <1>10, <3>1
    <2>7. task[u].pc = "terms" => task[u].deal = seen'
      BY <2>4 DEF Syncing
    <2>8. task[u].pc \in {"tail", "serve"} /\ task[u].deal = proc.route => Bound(task[u].deal)'
      BY <1>2, <2>1 DEF HandlerOK, Synced, Bound, HoldsTerms
    <2>9. seen' # NoDeal
      BY QuotaAssumption
    <2>10. Synced(u)'
      BY <1>2, <2>1, <2>5, <2>6, <2>7, <2>8, <2>9 DEF HandlerOK, Synced
    <2>11. Settles(u)'
      BY <2>1, <2>2 DEF HandlerOK, Settles, Settled, SameSession, Over
    <2>12. QED
      BY <2>3, <2>10, <2>11 DEF HandlerOK
  <1>11. QED
    BY <1>1, <1>5, <1>6, <1>7, <1>8, <1>9, <1>10, <1>12, SilentOK DEF QuotaInv

\* A handler that gives up leaves everything as it was.
LEMMA GivesUp ==
  ASSUME QuotaInv, NEW t \in Tasks, Fails(t, FALSE), proc.up, Silent,
         UNCHANGED <<journal, row, faults, facts, chain, rank, seen, stopped, proc>>
  PROVE  QuotaInv'
  <1>1. StoreOK /\ TypeOK /\ Recorded /\ EndsKept /\ stopped \subseteq Deals
    BY DEF QuotaInv, TypeOK, StoreOK
  <1>2. SameRoute /\ SameSession /\ (Settled => Settled')
    BY <1>1, SameProc DEF Settled
  <1>3. /\ StoreOK' /\ Unresolved' = Unresolved /\ Recorded'
        /\ \A e \in Deals : (Unopened(e) => Unopened(e)') /\ (Bound(e) => Bound(e)')
        /\ EndsKept'
    BY <1>1, <1>2, StoreStill DEF EndsKept
  <1>4. Calm
    BY <1>2, <1>3, CalmStep
  <1>5. Alone(t) /\ Rested(t)
    BY <1>1, FailsMoves DEF TypeOK
  <1>6. TypeOK'
    BY <1>1, <1>5 DEF TypeOK, Alone
  <1>7. HandlerOK(t)' /\ ~Initialising(t)'
    BY <1>5, <1>6, RestedOK DEF Rested, Initialising
  <1>8. QED
    BY <1>1, <1>2, <1>3, <1>4, <1>5, <1>7, StepKeeps DEF TypeOK, QuotaInv, ChainSeen

LEMMA ReadStateKeeps ==
  ASSUME QuotaInv, NEW t \in Tasks, ReadState(t)
  PROVE  QuotaInv'
  <1> DEFINE d == task[t].deal
  <1>1. /\ proc.up /\ task[t].pc = "state" /\ Silent /\ Syncing(t) /\ Initialising(t)
        /\ UNCHANGED <<journal, row, faults, facts, chain, rank, stopped>>
        /\ seen' = IF task'[t].pc = "terms" THEN task[t].deal ELSE seen
    BY DEF ReadState, At, Syncing, StoreKept, Initialising
  <1>2. /\ StoreOK /\ TypeOK /\ Recorded /\ EndsKept /\ stopped \subseteq Deals /\ HandlerOK(t) /\ task[t] \in TaskType
        /\ d = proc.route /\ d \in Deals
    BY <1>1, SyncStart
  <1>3. ~proc.cached /\ d \in Unresolved
    BY <1>1, <1>2 DEF HandlerOK, Follows, Synced
  <1>4. \A u \in Tasks \ {t} : ~Initialising(u) /\ task[u].pc \notin {"state", "terms", "discard"}
    BY <1>1 DEF QuotaInv, OneInitialiser, Initialising
  <1>5. CASE chain[d] = "funded" /\ Go(t, "discard") /\ UNCHANGED proc
    <2>1. Alone(t) /\ Moved(t, "discard")
      BY <1>2, <1>5, GoMoves DEF TypeOK, Steps
    <2>2. seen' = seen
      BY <1>1, <2>1 DEF Moved
    <2>3. SameRoute /\ SameSession /\ (Settled => Settled')
      BY <1>1, <1>2, <1>5, <2>2, SameProc DEF Settled
    <2>4. /\ StoreOK' /\ Unresolved' = Unresolved /\ Recorded'
          /\ \A e \in Deals : (Unopened(e) => Unopened(e)') /\ (Bound(e) => Bound(e)')
          /\ EndsKept'
      BY <1>1, <1>2, <2>3, StoreStill DEF EndsKept
    <2>5. Calm
      BY <1>1, <1>5, <2>3, <2>4, CalmStep
    <2>6. Unopened(task[t].deal)' /\ ~task[t].wasSettled
      <3>1. Unopened(d) /\ ~task[t].wasSettled
        BY <1>2, <1>5 DEF QuotaInv, ChainSeen, HandlerOK, Settles, Over
      <3>2. task'[t].deal = d
        BY <2>1 DEF Moved
      <3>3. QED
        BY <1>1, <1>2, <2>2, <3>1, <3>2 DEF Unopened, HoldsTerms
    <2>9. ~proc'.bound /\ d \notin stopped /\ stopped' = stopped
      <3>1. d \in stopped => Stands(d)
        BY <1>2 DEF EndsKept, EndKept
      <3>2. QED
        BY <1>1, <1>2, <1>5, <3>1 DEF QuotaInv, Binds, Stands
    <2>7. HandlerOK(t)'
      BY <1>1, <1>2, <1>3, <2>1, <2>5, <2>6, <2>9, MovedOK
    <2>8. QED
      BY <1>1, <1>2, <1>4, <1>5, <2>1, <2>3, <2>4, <2>5, <2>7, StepKeeps
      DEF TypeOK, QuotaInv, ChainSeen
  <1>6. CASE /\ chain[d] \in {"open", "disputed"} /\ Go(t, "terms")
             /\ proc' = [proc EXCEPT !.bound = TRUE]
    <2>1. Alone(t) /\ Moved(t, "terms")
      BY <1>2, <1>6, GoMoves DEF TypeOK, Steps
    <2>2. seen' = d /\ task'[t].deal = d /\ task'[t].pc = "terms"
      BY <1>1, <2>1 DEF Moved
    <2>3. SameSession /\ proc'.route = proc.route /\ (proc'.cached <=> proc.cached)
      <3>1. proc \in ProcType
        BY <1>2 DEF TypeOK
      <3>2. QED
        BY <1>6, <3>1 DEF ProcType, SameSession
    <2>4. TypeOK' => HandlerOK(t)'
      <3>1. Unresolved' = Unresolved
        BY <1>1 DEF Unresolved, ReadJournal
      <3>2. Follows(t)'
        BY <1>1, <1>2, <1>3, <2>1, <2>2, <2>3, QuotaAssumption
        DEF HandlerOK, Follows, Initialising, QuotaInv, Process
      <3>3. task[t].known <= rank[d]
        <4>1. /\ seen \in Deals \cup {NoDeal} /\ rank \in [Deals -> Nat]
              /\ \A e \in Deals : rank[e] <= rank[d]
          BY <1>2, QuotaAssumption DEF QuotaInv, TypeOK, Process
        <4>2. task[t].known <= (IF seen = NoDeal THEN 0 ELSE rank[seen]) /\ task[t].known \in Nat
          BY <1>2 DEF HandlerOK, Synced, TaskType
        <4>3. CASE seen = NoDeal
          BY <1>2, <4>1, <4>2, <4>3
        <4>4. CASE seen \in Deals
          BY <1>2, <4>1, <4>2, <4>4, QuotaAssumption
        <4>5. QED
          BY <4>1, <4>3, <4>4
      <3>4. Synced(t)'
        BY <1>1, <1>2, <1>3, <2>1, <2>2, <3>1, <3>3, QuotaAssumption DEF Synced, Moved
      <3>5. Settles(t)'
        BY <1>1, <1>2, <1>6, <2>1, <2>3 DEF HandlerOK, Settles, Moved, Syncing, Settled, SameSession, Over
      <3>6. QED
        BY <3>2, <3>4, <3>5 DEF HandlerOK
    <2>5. QED
      BY <1>1, <1>2, <1>3, <1>4, <1>6, <2>1, <2>2, <2>3, <2>4, SeenKeeps
  <1>7. CASE Fails(t, FALSE) /\ UNCHANGED proc
    <2>1. Rested(t)
      BY <1>2, <1>7, FailsMoves DEF TypeOK
    <2>2. seen' = seen
      BY <1>1, <2>1 DEF Rested
    <2>3. QED
      BY <1>1, <1>7, <2>2, GivesUp
  <1>8. QED
    BY <1>5, <1>6, <1>7 DEF ReadState

LEMMA ReadTermsKeeps ==
  ASSUME QuotaInv, NEW t \in Tasks, ReadTerms(t)
  PROVE  QuotaInv'
  <1> DEFINE d == task[t].deal
  <1>1. /\ proc.up /\ task[t].pc = "terms" /\ Silent /\ Syncing(t) /\ Initialising(t)
        /\ UNCHANGED <<journal, row, faults, facts, chain, rank, seen, stopped>>
    BY DEF ReadTerms, At, Syncing, StoreKept, Initialising, Kept
  <1>2. /\ StoreOK /\ TypeOK /\ Recorded /\ EndsKept /\ stopped \subseteq Deals /\ HandlerOK(t) /\ task[t] \in TaskType
        /\ d = proc.route /\ d \in Deals
    BY <1>1, SyncStart
  <1>3. \A u \in Tasks \ {t} : ~Initialising(u)
    BY <1>1 DEF QuotaInv, OneInitialiser
  <1>4. CASE /\ chain[d] \in {"open", "disputed"} /\ Go(t, "open")
             /\ proc' = [proc EXCEPT !.cached = TRUE]
    <2>1. Alone(t) /\ Moved(t, "open")
      BY <1>2, <1>4, GoMoves DEF TypeOK, Steps
    <2>2. SameSession /\ proc'.route = proc.route /\ proc'.cached /\ (proc'.bound <=> proc.bound)
      <3>1. proc \in ProcType
        BY <1>2 DEF TypeOK
      <3>2. QED
        BY <1>4, <3>1 DEF ProcType, SameSession
    <2>3. TypeOK'
      BY <1>1, <1>2, <2>1, <2>2 DEF TypeOK, SameSession, Alone
    <2>4. Unresolved' = Unresolved /\ (HoldsTerms' <=> HoldsTerms)
      BY <1>1 DEF Unresolved, ReadJournal, HoldsTerms
    <2>5. seen = d
      BY <1>1, <1>2 DEF HandlerOK, Synced
    <2>6. Process'
      BY <1>1, <1>2, <2>2, <2>5, QuotaAssumption DEF QuotaInv, Process, SameSession, Over
    <2>7. ChainSeen' /\ Recorded' /\ Binds'
      <3>1. ChainSeen' /\ Recorded'
        BY <1>1, <2>4 DEF QuotaInv, ChainSeen, Recorded, Unopened, Bound
      <3>2. Binds'
        BY <1>1, <2>2, <2>4 DEF QuotaInv, Binds, Bound
      <3>3. QED
        BY <3>1, <3>2
    <2>8. OneInitialiser'
      BY <1>3, <2>1 DEF QuotaInv, OneInitialiser, Initialising, Alone, Moved
    <2>9. EndsKept'
      <3> SUFFICES ASSUME NEW e \in stopped PROVE EndKept(e)'
        BY <1>1 DEF EndsKept
      <3>1. EndKept(e)
        BY <1>2 DEF EndsKept
      <3>2. Stands(e)'
        BY <1>1, <2>2, <2>4, <3>1 DEF EndKept, Stands, Standing
      <3>3. CASE e # d
        BY <1>1, <1>2, <2>2, <2>4, <3>1, <3>2, <3>3 DEF EndKept
      <3>4. CASE e = d
        <4>1. Standing(e)
          BY <1>2, <1>4, <3>1, <3>4 DEF EndKept, Stands
        <4>2. row.deal # e => journal # NoJournal /\ journal.deal = e /\ journal.closed
          BY <4>1 DEF Standing
        <4>3. QED
          BY <1>1, <2>2, <2>4, <3>1, <3>2, <4>2 DEF EndKept
      <3>5. QED
        BY <3>3, <3>4
    <2>10. ASSUME NEW u \in Tasks PROVE HandlerOK(u)'
      <3>1. /\ HandlerOK(u) /\ task'[u].deal = task[u].deal
            /\ (task'[u].wasSettled <=> task[u].wasSettled) /\ task'[u].known = task[u].known
            /\ u # t => task'[u].pc = task[u].pc /\ ~Initialising(u)
            /\ u = t => task'[u].pc = "open"
        BY <1>3, <2>1, <2>10 DEF QuotaInv, Alone, Moved
      <3>2. Syncing(u)' => Syncing(u)
        BY <1>1, <3>1 DEF Syncing
      <3>3. ~Initialising(u)'
        BY <3>1 DEF Initialising
      <3>4. Follows(u)'
        BY <1>1, <2>2, <3>1, <3>2, <3>3 DEF HandlerOK, Follows
      <3>5. Synced(u)'
        BY <1>1, <2>2, <2>4, <3>1, <3>3 DEF HandlerOK, Synced, Bound, Initialising
      <3>6. Settles(u)'
        BY <1>1, <2>2, <3>1, <3>2 DEF HandlerOK, Settles, Settled, SameSession, Over
      <3>7. QED
        BY <3>4, <3>5, <3>6 DEF HandlerOK
    <2>11. QED
      BY <1>1, <2>3, <2>6, <2>7, <2>8, <2>9, <2>10, SilentOK DEF QuotaInv
  <1>5. CASE Fails(t, FALSE) /\ UNCHANGED proc
    BY <1>1, <1>5, GivesUp
  <1>6. QED
    BY <1>4, <1>5 DEF ReadTerms

LEMMA ServeKeeps ==
  ASSUME QuotaInv, NEW t \in Tasks, Serve(t)
  PROVE  QuotaInv'
  <1>1. /\ proc.up /\ task[t].pc = "serve" /\ Silent
        /\ UNCHANGED <<journal, row, faults, facts, chain, rank, stopped>>
        /\ task' = [task EXCEPT ![t] = Idle]
    BY DEF Serve, At, StoreKept
  <1>2. TypeOK /\ StoreOK /\ HandlerOK(t) /\ Recorded /\ EndsKept /\ stopped \subseteq Deals
    BY DEF QuotaInv, TypeOK, StoreOK
  <1>3. Alone(t) /\ Rested(t)
    BY <1>1, <1>2, RestMoves DEF TypeOK
  <1>4. ~Initialising(t)'
    BY <1>3 DEF Rested, Initialising
  <1>5. CASE /\ proc.route = task[t].deal /\ seen' = task[t].deal
             /\ proc' = [proc EXCEPT !.delivered = TRUE]
    <2>1. proc.route \in Deals /\ Bound(proc.route)
      BY <1>1, <1>2, <1>5 DEF HandlerOK, Follows, Synced, TypeOK, TaskType
    <2>2. ~Unopened(proc.route)
      BY <2>1 DEF Bound, Unopened
    <2>3. chain[proc.route] # "funded"
      BY <2>1, <2>2 DEF QuotaInv, ChainSeen
    <2>4. SameSession /\ proc'.route = proc.route /\ (proc'.cached <=> proc.cached)
      <3>1. proc \in ProcType
        BY <1>2 DEF TypeOK
      <3>2. QED
        BY <1>5, <3>1 DEF ProcType, SameSession
    <2>5. QED
      BY <1>1, <1>3, <1>4, <1>5, <2>1, <2>2, <2>3, <2>4, SeenKeeps, RestedOK
  <1>6. CASE UNCHANGED <<seen, proc>>
    <2>1. SameRoute /\ SameSession /\ (Settled => Settled')
      BY <1>1, <1>2, <1>6, SameProc DEF Settled
    <2>2. /\ StoreOK' /\ Unresolved' = Unresolved /\ Recorded'
          /\ \A e \in Deals : (Unopened(e) => Unopened(e)') /\ (Bound(e) => Bound(e)')
          /\ EndsKept'
      BY <1>1, <1>2, <2>1, StoreStill DEF EndsKept
    <2>3. Calm
      BY <1>1, <1>6, <2>1, <2>2, CalmStep
    <2>4. TypeOK'
      BY <1>1, <1>2, <1>3, <1>6 DEF TypeOK, Alone
    <2>5. QED
      BY <1>1, <1>2, <1>3, <1>4, <1>6, <2>1, <2>2, <2>3, <2>4, RestedOK, StepKeeps
      DEF TypeOK, QuotaInv, ChainSeen
  <1>7. QED
    BY <1>5, <1>6 DEF Serve
-----------------------------------------------------------------------------
(***************************************************************************)
(* Requests and answers.                                                   *)
(***************************************************************************)
LEMMA RequestKeeps ==
  ASSUME QuotaInv, NEW t \in Tasks, NEW want \in {"serve", "answer"}, Request(t, want)
  PROVE  QuotaInv'
  <1> DEFINE pc == IF proc.route = NoDeal THEN "answer" ELSE "check"
             known == IF seen = NoDeal THEN 0 ELSE rank[seen]
             settled == Settled
             new == [Idle EXCEPT !.pc = pc, !.deal = proc.route, !.want = want,
                                 !.known = known, !.wasSettled = settled]
  <1>1. /\ proc.up /\ Silent
        /\ UNCHANGED <<journal, row, faults, facts, chain, rank, seen, stopped, proc>>
        /\ task' = [task EXCEPT ![t] = new]
    BY DEF Request, StoreKept, Kept
  <1>2. TypeOK /\ StoreOK /\ Recorded /\ EndsKept /\ stopped \subseteq Deals
    BY DEF QuotaInv, TypeOK, StoreOK
  <1>3. /\ pc \in Steps /\ proc.route \in Deals \cup {NoDeal} /\ known \in Nat
        /\ settled \in BOOLEAN /\ (settled <=> Settled)
        /\ pc \in {"answer", "check"} /\ (pc = "answer" <=> proc.route = NoDeal)
    <2>1. known \in Nat /\ proc.route \in Deals \cup {NoDeal}
      BY <1>2 DEF TypeOK, ProcType
    <2>2. QED
      BY <2>1 DEF Steps, Settled
  <1>4. known <= IF seen = NoDeal THEN 0 ELSE rank[seen]
    BY <1>3
  <1> HIDE DEF pc, known, settled
  <1>5. /\ new \in TaskType /\ new.pc = pc /\ new.deal = proc.route /\ new.known = known
        /\ (new.wasSettled <=> settled)
    BY <1>3, IdleFields DEF TaskType
  <1> HIDE DEF new
  <1>6. Alone(t) /\ task'[t] = new
    BY <1>1, <1>2, <1>5 DEF Alone, TypeOK
  <1>7. SameRoute /\ SameSession /\ (Settled => Settled')
    BY <1>1, <1>2, SameProc DEF Settled
  <1>8. /\ StoreOK' /\ Unresolved' = Unresolved /\ Recorded'
        /\ \A e \in Deals : (Unopened(e) => Unopened(e)') /\ (Bound(e) => Bound(e)')
        /\ EndsKept'
    BY <1>1, <1>2, <1>7, StoreStill DEF EndsKept
  <1>9. Calm
    BY <1>1, <1>7, <1>8, CalmStep
  <1>10. ~Initialising(t)'
    BY <1>3, <1>5, <1>6 DEF Initialising
  <1>11. HandlerOK(t)'
    <2>1. Follows(t)'
      BY <1>1, <1>3, <1>5, <1>6, <1>10 DEF Follows, Syncing, QuotaInv, Process
    <2>2. Synced(t)'
      BY <1>1, <1>3, <1>4, <1>5, <1>6 DEF Synced
    <2>3. Settles(t)'
      <3>1. settled => proc.route # NoDeal /\ Over(proc.route)
        BY <1>3 DEF Settled, QuotaInv, Process
      <3>2. QED
        BY <1>1, <1>3, <1>5, <1>6, <1>7, <3>1 DEF Settles, Over
    <2>4. QED
      BY <2>1, <2>2, <2>3 DEF HandlerOK
  <1>12. QED
    BY <1>1, <1>2, <1>6, <1>7, <1>8, <1>9, <1>10, <1>11, StepKeeps
    DEF TypeOK, QuotaInv, ChainSeen

\* The answer itself: the row that is given is of the purchase last seen, and
\* says that a deal has ended when its end was recorded.
LEMMA AnswerKeeps ==
  ASSUME QuotaInv, NEW t \in Tasks, Answer(t)
  PROVE  QuotaInv'
  <1>1. /\ proc.up /\ task[t].pc = "answer"
        /\ UNCHANGED <<facts, chain, rank, seen, stopped, proc>>
        /\ task' = [task EXCEPT ![t] = Idle]
    BY DEF Answer, At, Kept
  <1>2. TypeOK /\ StoreOK /\ HandlerOK(t) /\ Recorded /\ EndsKept /\ stopped \subseteq Deals /\ task[t] \in TaskType
    BY DEF QuotaInv, TypeOK, StoreOK
  <1>3. PICK o \in Restore(ReadJournal, TRUE) :
          /\ Does({[o EXCEPT !.journal = journal]}, [o EXCEPT !.journal = journal])
          /\ answer' = IF ~o.ok \/ o.row = NoRow THEN None
                       ELSE [deal |-> o.row.deal, closed |-> o.row.closed,
                             since |-> rank[o.row.deal], known |-> task[t].known,
                             ended |-> \/ o.row.deal \in stopped
                                       \/ (task[t].wasSettled /\ task[t].deal = o.row.deal)]
    BY DEF Answer
  <1>4. \E j, r, ok : o = [journal |-> j, row |-> r, ok |-> ok]
    BY <1>3 DEF Restore, Outcome
  <1>5. journal' = journal /\ row' = o.row /\ faults' \in Nat
    <2>1. [o EXCEPT !.journal = journal].journal = journal
          /\ [o EXCEPT !.journal = journal].row = o.row
      BY <1>4
    <2>2. QED
      BY <1>2, <1>3, <2>1 DEF Does, TypeOK
  <1>6. SameRoute /\ SameSession /\ (Settled => Settled')
    BY <1>1, <1>2, SameProc DEF Settled
  <1>7. /\ StoreOK' /\ Unresolved' = Unresolved /\ Recorded'
        /\ \A e \in Deals : (Unopened(e) => Unopened(e)') /\ (Bound(e) => Bound(e)')
        /\ \A e \in stopped : EndKept(e)'
        /\ o.ok /\ o.row # NoRow => o.row \in Rows /\ (seen # NoDeal => o.row.deal = seen)
    <2>1. proc.cached => seen = proc.route /\ seen # NoDeal
      BY DEF QuotaInv, Process
    <2>2. QED
      BY <1>2, <1>3, <1>5, <1>6, <2>1, RestoreKeeps
  <1>8. Alone(t) /\ Rested(t)
    BY <1>1, <1>2, RestMoves DEF TypeOK
  <1>9. Calm
    BY <1>1, <1>6, <1>7, CalmStep
  <1>10. TypeOK'
    BY <1>1, <1>2, <1>5, <1>7, <1>8 DEF TypeOK, StoreOK, Alone
  <1>11. \A u \in Tasks : HandlerOK(u)'
    <2>1. ASSUME NEW u \in Tasks \ {t} PROVE HandlerOK(u)'
      BY <1>2, <1>7, <1>8, <1>9, <2>1, OtherKeeps DEF QuotaInv, Alone
    <2>2. QED
      BY <1>8, <1>10, <2>1, RestedOK
  <1>12. Process' /\ ChainSeen' /\ OneInitialiser' /\ EndsKept' /\ Binds'
    <2>1. Process' /\ ChainSeen' /\ OneInitialiser' /\ EndsKept'
      BY <1>1, <1>7, <1>8
      DEF QuotaInv, Process, ChainSeen, OneInitialiser, EndsKept, Alone, Rested, Initialising,
          Over
    <2>2. Binds'
      BY <1>1, <1>2, <1>7, BindsStay, Still DEF QuotaInv
    <2>3. QED
      BY <2>1, <2>2
  <1>13. NoOlderQuota' /\ EndedHasNoQuota'
    <2>1. CASE ~o.ok \/ o.row = NoRow
      BY <1>3, <2>1, SilentOK DEF Silent
    <2>2. CASE o.ok /\ o.row # NoRow
      <3> DEFINE e == o.row.deal
                 ended == e \in stopped \/ (task[t].wasSettled /\ task[t].deal = e)
      <3>1. o.row \in Rows /\ e \in Deals
        BY <1>7, <2>2 DEF Rows
      <3>2. answer' = [deal |-> e, closed |-> o.row.closed, since |-> rank[e],
                       known |-> task[t].known, ended |-> ended]
        BY <1>3, <2>2
      <3>3. rank[e] >= task[t].known
        <4>1. rank[e] \in Nat /\ task[t].known \in Nat
          BY <1>2, <3>1 DEF TypeOK, TaskType
        <4>2. task[t].known <= (IF seen = NoDeal THEN 0 ELSE rank[seen])
          BY <1>2 DEF HandlerOK, Synced
        <4>3. seen # NoDeal => e = seen
          BY <1>7, <2>2
        <4>4. QED
          BY <4>1, <4>2, <4>3
      <3>4. ended => o.row.closed
        <4>1. ended => e \in stopped
          BY <1>1, <1>2 DEF HandlerOK, Settles
        <4>2. e \in stopped => o.row.closed
          BY <1>5, <1>7 DEF EndKept
        <4>3. QED
          BY <4>1, <4>2
      <3> HIDE DEF e, ended
      <3>5. QED
        BY <3>2, <3>3, <3>4 DEF NoOlderQuota, EndedHasNoQuota
    <2>3. QED
      BY <2>1, <2>2
  <1>14. QED
    BY <1>7, <1>10, <1>11, <1>12, <1>13 DEF QuotaInv
-----------------------------------------------------------------------------
(***************************************************************************)
(* Settlement, reconciliation, the close command, the chain and faults: no *)
(* handler moves.                                                          *)
(***************************************************************************)
LEMMA WorldKeeps ==
  ASSUME QuotaInv, Calm, task' = task, Silent, StoreOK',
         facts' \subseteq Deals, stopped' \subseteq Deals, faults' \in Nat, proc' \in ProcType,
         chain' \in [Deals -> ChainStates], proc'.bound => proc.bound,
         \A e \in Deals : Bound(e) => Bound(e)',
         Unresolved \subseteq Unresolved', Process', ChainSeen', Recorded', EndsKept'
  PROVE  QuotaInv'
  <1>1. TypeOK'
    BY DEF QuotaInv, TypeOK, StoreOK, Calm, Steady
  <1>2. OneInitialiser'
    BY DEF QuotaInv, OneInitialiser, Initialising
  <1>3. \A u \in Tasks : HandlerOK(u)'
    BY OtherKeeps DEF QuotaInv
  <1>4. Binds'
    BY BindsStay DEF QuotaInv, Calm, Steady
  <1>5. QED
    BY <1>1, <1>2, <1>3, <1>4, SilentOK DEF QuotaInv

\* The session goes on with its route.
Stays ==
  /\ proc' \in ProcType /\ proc'.route = proc.route
  /\ (proc'.cached <=> proc.cached) /\ (proc'.bound <=> proc.bound)

\* A closure that is recorded leaves a record that says so.
LEMMA ClosingKeeps ==
  ASSUME QuotaInv, Stays, NEW d \in Deals, NEW o \in Close(d), Does({o}, o), Ends(d, o),
         Silent, UNCHANGED <<facts, chain, task, rank, seen>>, Settled => Settled', Process',
         chain[d] = "gone" \/ (d = proc.route /\ proc.bound)
  PROVE  QuotaInv'
  <1>1. TypeOK /\ StoreOK /\ Recorded /\ EndsKept /\ stopped \subseteq Deals
    BY DEF QuotaInv, TypeOK, StoreOK
  <1>2. faults' \in Nat /\ Takes(o)
    BY <1>1, FaultsType
  <1>3. SameRoute
    BY Still DEF SameRoute, Steady, Stays
  <1>4. chain[d] = "gone" \/ (chain[d] # "funded" /\ (Bound(d) \/ d \in Unresolved))
    BY DEF QuotaInv, Binds
  <1>5. /\ StoreOK' /\ Unresolved \subseteq Unresolved' /\ Recorded'
        /\ \A e \in Deals : (Unopened(e) => Unopened(e)') /\ (Bound(e) => Bound(e)')
        /\ \A e \in stopped : EndKept(e)'
        /\ o.ok /\ (journal'.deal = d \/ (~HoldsTerms' /\ row'.deal = d)) => EndKept(d)'
    BY <1>1, <1>2, <1>3, <1>4, CloseKeeps
  <1>6. \A e \in stopped' : \/ e \in stopped
                            \/ e = d /\ o.ok /\ (journal'.deal = d \/ (~HoldsTerms' /\ row'.deal = d))
    BY <1>2 DEF Ends, Takes, HoldsTerms
  <1>7. stopped \subseteq stopped' /\ stopped' \subseteq Deals
    BY <1>1, <1>6 DEF Ends
  <1>8. EndsKept'
    BY <1>5, <1>6 DEF EndsKept
  <1>9. ChainSeen'
    BY <1>5 DEF QuotaInv, ChainSeen
  <1>10. Calm
    BY <1>3, <1>5, <1>6, <1>7, CalmStep DEF Stays
  <1>11. QED
    BY <1>1, <1>2, <1>5, <1>7, <1>8, <1>9, <1>10, WorldKeeps DEF TypeOK, Stays

\* A step that leaves the store alone.
LEMMA AsideKeeps ==
  ASSUME QuotaInv, Stays, Silent, Settled => Settled', Process', Onward,
         chain' \in [Deals -> ChainStates],
         UNCHANGED <<journal, row, faults, facts, task, rank, seen, stopped>>
  PROVE  QuotaInv'
  <1>1. TypeOK /\ StoreOK /\ Recorded /\ EndsKept /\ stopped \subseteq Deals
    BY DEF QuotaInv, TypeOK, StoreOK
  <1>2. SameRoute
    BY DEF SameRoute, Steady, Stays
  <1>3. /\ StoreOK' /\ Unresolved' = Unresolved /\ Recorded'
        /\ \A e \in Deals : (Unopened(e) => Unopened(e)') /\ (Bound(e) => Bound(e)')
        /\ EndsKept'
    BY <1>1, <1>2, StoreStill DEF EndsKept
  <1>4. ChainSeen'
    BY <1>3 DEF QuotaInv, ChainSeen, Onward
  <1>5. Calm
    BY <1>2, <1>3, CalmStep DEF Stays
  <1>6. QED
    BY <1>1, <1>3, <1>4, <1>5, WorldKeeps DEF TypeOK, Stays

\* Closing the record of the route, with what else happens to the session.
LEMMA CloseUsageKeeps ==
  ASSUME QuotaInv, Stays, CloseUsageQuota, proc.route \in Deals, Silent, Process',
         UNCHANGED <<facts, chain, task, rank, seen>>, Settled => Settled'
  PROVE  QuotaInv'
  <1>1. CASE ~proc.bound
    BY <1>1, AsideKeeps, Still DEF CloseUsageQuota, StoreKept, QuotaInv, TypeOK
  <1>2. CASE proc.bound
    <2>1. PICK o \in Close(proc.route) : Does({o}, o) /\ Ends(proc.route, o)
      BY <1>2 DEF CloseUsageQuota
    <2>2. QED
      BY <1>2, <2>1, ClosingKeeps
  <1>3. QED
    BY <1>1, <1>2

LEMMA StopKeeps ==
  ASSUME QuotaInv, Stop \/ GuardedStopFails
  PROVE  QuotaInv'
  <1>1. PICK ph \in {"stopping", "shut"} :
          /\ proc.up /\ proc.route # NoDeal /\ proc.phase \in {"live", "shut"}
          /\ CloseUsageQuota /\ proc' = [proc EXCEPT !.phase = ph]
          /\ UNCHANGED <<facts, chain, task, rank, seen>> /\ Silent
    BY DEF Stop, GuardedStopFails
  <1>2. /\ Stays /\ proc.route \in Deals /\ proc'.phase = ph /\ (proc'.up <=> proc.up)
        /\ proc'.closing = proc.closing /\ (proc'.known <=> proc.known)
    BY <1>1 DEF QuotaInv, TypeOK, ProcType, Stays
  <1>3. Process'
    BY <1>1, <1>2 DEF QuotaInv, Process, Over, Stays
  <1>4. QED
    BY <1>1, <1>2, <1>3, CloseUsageKeeps DEF Settled

LEMMA StopFailsKeeps ==
  ASSUME QuotaInv, StopFails
  PROVE  QuotaInv'
  <1>1. /\ proc.up /\ proc.phase = "stopping" /\ proc' = [proc EXCEPT !.phase = "shut"] /\ Silent
        /\ UNCHANGED <<journal, row, faults, facts, chain, task, rank, seen, stopped>>
    BY DEF StopFails, StoreKept
  <1>2. /\ Stays /\ proc'.phase = "shut" /\ (proc'.up <=> proc.up)
        /\ proc'.closing = proc.closing /\ (proc'.known <=> proc.known)
    BY <1>1 DEF QuotaInv, TypeOK, ProcType, Stays
  <1>3. Process'
    BY <1>1, <1>2 DEF QuotaInv, Process, Over, Stays
  <1>4. QED
    BY <1>1, <1>2, <1>3, AsideKeeps, Still DEF Settled, QuotaInv, TypeOK

LEMMA RecordTerminalKeeps ==
  ASSUME QuotaInv, RecordTerminalAction
  PROVE  QuotaInv'
  <1>1. /\ proc.up /\ proc.route # NoDeal /\ Over(proc.route) /\ Silent /\ CloseUsageQuota
        /\ proc.phase \in {"live", "stopping", "shut"}
        /\ proc' = [proc EXCEPT !.phase = "recorded"]
        /\ UNCHANGED <<facts, chain, task, rank, seen>>
    BY DEF RecordTerminalAction
  <1>2. /\ Stays /\ proc.route \in Deals /\ proc'.phase = "recorded" /\ (proc'.up <=> proc.up)
        /\ proc'.closing = proc.closing /\ (proc'.known <=> proc.known)
    BY <1>1 DEF QuotaInv, TypeOK, ProcType, Stays
  <1>3. Process'
    BY <1>1, <1>2 DEF QuotaInv, Process, Over, Stays
  <1>4. QED
    BY <1>1, <1>2, <1>3, CloseUsageKeeps DEF Settled

LEMMA NoteKeeps ==
  ASSUME QuotaInv, Note
  PROVE  QuotaInv'
  <1> DEFINE ph == IF proc.phase = "recorded" THEN "noted" ELSE "settled"
  <1>1. /\ proc.phase \in {"recorded", "noted"} /\ Silent /\ proc.up
        /\ proc' = [proc EXCEPT !.phase = ph, !.known = TRUE]
        /\ UNCHANGED <<journal, row, faults, facts, chain, task, rank, seen, stopped>>
    BY DEF Note, StoreKept
  <1>2. ph \in {"noted", "settled"} /\ ~(proc.phase = "settled")
    BY <1>1
  <1> HIDE DEF ph
  <1>3. /\ Stays /\ proc'.phase = ph /\ (proc'.up <=> proc.up)
        /\ proc'.closing = proc.closing /\ proc'.known
    BY <1>1, <1>2 DEF QuotaInv, TypeOK, ProcType, Stays
  <1>4. Process'
    BY <1>1, <1>2, <1>3 DEF QuotaInv, Process, Over, Stays
  <1>5. QED
    BY <1>1, <1>2, <1>3, <1>4, AsideKeeps, Still DEF Settled, QuotaInv, TypeOK

LEMMA ObserveKeeps ==
  ASSUME QuotaInv, Observe
  PROVE  QuotaInv'
  <1>1. /\ proc.up /\ proc.route # NoDeal /\ Over(proc.route) /\ Silent
        /\ (StoreKept /\ UNCHANGED stopped) \/ CloseUsageQuota
        /\ proc' = [proc EXCEPT !.known = TRUE]
        /\ UNCHANGED <<facts, chain, task, rank, seen>>
    BY DEF Observe
  <1>2. /\ Stays /\ proc.route \in Deals /\ proc'.phase = proc.phase /\ (proc'.up <=> proc.up)
        /\ proc'.closing = proc.closing /\ proc'.known
    BY <1>1 DEF QuotaInv, TypeOK, ProcType, Stays
  <1>3. Process' /\ (Settled => Settled')
    BY <1>1, <1>2 DEF QuotaInv, Process, Over, Stays, Settled
  <1>4. CASE StoreKept /\ UNCHANGED stopped
    BY <1>1, <1>2, <1>3, <1>4, AsideKeeps, Still DEF QuotaInv, TypeOK, StoreKept
  <1>5. CASE CloseUsageQuota
    BY <1>1, <1>2, <1>3, <1>5, CloseUsageKeeps
  <1>6. QED
    BY <1>1, <1>4, <1>5

LEMMA ReconcileKeeps ==
  ASSUME QuotaInv, NEW d \in Deals, Reconcile(d)
  PROVE  QuotaInv'
  <1>1. /\ proc.up /\ chain[d] = "gone" /\ Silent
        /\ facts' = facts \cup {d} /\ proc' = [proc EXCEPT !.closing = d]
        /\ row' = IF row # NoRow /\ row.deal = d THEN [row EXCEPT !.closed = TRUE] ELSE row
        /\ stopped' = IF row # NoRow /\ row.deal = d THEN stopped \cup {d} ELSE stopped
        /\ UNCHANGED <<journal, faults, chain, task, rank, seen>>
    BY DEF Reconcile
  <1>2. TypeOK /\ StoreOK /\ Recorded /\ EndsKept /\ stopped \subseteq Deals /\ proc \in ProcType
    BY DEF QuotaInv, TypeOK, StoreOK
  <1>3. /\ proc' \in ProcType /\ proc'.route = proc.route /\ (proc'.cached <=> proc.cached)
        /\ (proc'.up <=> proc.up) /\ proc'.phase = proc.phase /\ proc'.closing = d
        /\ (proc'.bound <=> proc.bound) /\ (proc'.known <=> proc.known)
    BY <1>1, <1>2 DEF ProcType
  <1>4. Steady /\ (Settled => Settled')
    BY <1>1, <1>3 DEF Steady, Settled
  <1>5. /\ StoreOK' /\ row'.deal = row.deal /\ (row = NoRow => row' = NoRow)
        /\ \/ row' = row /\ stopped' = stopped
           \/ row.deal = d /\ row'.closed /\ stopped' = stopped \cup {d}
    <2>1. CASE row # NoRow /\ row.deal = d
      BY <1>1, <1>2, <2>1 DEF StoreOK, Rows
    <2>2. CASE ~(row # NoRow /\ row.deal = d)
      BY <1>1, <1>2, <2>2 DEF StoreOK
    <2>3. QED
      BY <2>1, <2>2
  <1>6. Unresolved' = Unresolved /\ (HoldsTerms' <=> HoldsTerms)
    BY <1>1 DEF Unresolved, ReadJournal, HoldsTerms
  <1>7. /\ \A e \in Deals : (Unopened(e) => Unopened(e)') /\ (Bound(e) => Bound(e)')
        /\ Recorded'
    BY <1>1, <1>2, <1>5, <1>6 DEF Unopened, Bound, Recorded
  <1>8. EndsKept'
    <2> SUFFICES ASSUME NEW e \in stopped' PROVE EndKept(e)'
      BY DEF EndsKept
    <2>1. CASE row.deal = d /\ row'.closed /\ e = d
      <3>1. Stands(d)'
        BY <1>1, Still, GoneStands
      <3>2. QED
        BY <1>5, <2>1, <3>1 DEF EndKept
    <2>2. CASE e \in stopped
      <3>1. EndKept(e)
        BY <1>2, <2>2 DEF EndsKept
      <3>2. Standing(e) => Standing(e)'
        BY <1>1, <1>5, <1>6 DEF Standing
      <3>3. Stands(e)'
        BY <1>1, <1>3, <3>1, <3>2 DEF EndKept, Stands
      <3>4. QED
        BY <1>1, <1>3, <1>5, <1>6, <3>1, <3>3 DEF EndKept
    <2>3. QED
      BY <1>5, <2>1, <2>2
  <1>9. Calm
    BY <1>1, <1>3, <1>4, <1>5, <1>7, Still DEF Calm
  <1>10. Process' /\ ChainSeen'
    BY <1>1, <1>3, <1>5, <1>7, QuotaAssumption DEF QuotaInv, Process, ChainSeen, Over
  <1>11. QED
    BY <1>1, <1>2, <1>3, <1>5, <1>6, <1>7, <1>8, <1>9, <1>10, WorldKeeps DEF TypeOK

LEMMA ReconcileClosesKeeps ==
  ASSUME QuotaInv, ReconcileCloses
  PROVE  QuotaInv'
  <1> DEFINE d == proc.closing
  <1>1. /\ proc.up /\ d # NoDeal /\ Silent
        /\ proc' = [proc EXCEPT !.closing = NoDeal]
        /\ UNCHANGED <<facts, chain, task, rank, seen>>
    BY DEF ReconcileCloses
  <1>2. /\ Stays /\ (proc'.up <=> proc.up) /\ proc'.phase = proc.phase
        /\ proc'.closing = NoDeal /\ (proc'.known <=> proc.known)
    BY <1>1 DEF QuotaInv, TypeOK, ProcType, Stays
  <1>3. d \in Deals /\ chain[d] = "gone"
    BY <1>1 DEF QuotaInv, Process, TypeOK, ProcType
  <1>4. PICK o \in Close(d) : Does({o}, o) /\ Ends(d, o)
    BY DEF ReconcileCloses
  <1> HIDE DEF d
  <1>5. Process' /\ (Settled => Settled')
    BY <1>1, <1>2 DEF QuotaInv, Process, Over, Stays, Settled
  <1>6. QED
    BY <1>1, <1>2, <1>3, <1>4, <1>5, ClosingKeeps

LEMMA CliCloseKeeps ==
  ASSUME QuotaInv, NEW d \in Deals, CliClose(d)
  PROVE  QuotaInv'
  <1>1. chain[d] = "gone" /\ Silent /\ UNCHANGED <<facts, chain, proc, task, rank, seen>>
    BY DEF CliClose
  <1>2. Stays /\ Process' /\ (Settled => Settled')
    BY <1>1 DEF QuotaInv, TypeOK, Process, Over, Stays, Settled
  <1>3. PICK o \in Close(d) : Does({o}, o) /\ Ends(d, o)
    BY DEF CliClose
  <1>4. QED
    BY <1>1, <1>2, <1>3, ClosingKeeps

LEMMA ChainMovesKeeps ==
  ASSUME QuotaInv, NEW d \in Deals, NEW to \in {"open", "disputed", "gone"}, ChainMoves(d, to)
  PROVE  QuotaInv'
  <1>1. /\ Silent /\ chain' = [chain EXCEPT ![d] = to]
        /\ \/ chain[d] = "funded" /\ to \in {"open", "gone"}
           \/ chain[d] = "open" /\ to \in {"disputed", "gone"}
           \/ chain[d] = "disputed" /\ to = "gone"
        /\ UNCHANGED <<journal, row, faults, facts, proc, task, rank, seen, stopped>>
    BY DEF ChainMoves, StoreKept
  <1>2. chain \in [Deals -> ChainStates] /\ proc \in ProcType
    BY DEF QuotaInv, TypeOK
  <1>3. chain' \in [Deals -> ChainStates]
    BY <1>1, <1>2 DEF ChainStates
  <1>4. Onward
    BY <1>1, <1>2 DEF Onward, Over
  <1>5. Stays /\ (Settled => Settled')
    BY <1>1, <1>2 DEF Stays, Settled
  <1>6. Process'
    BY <1>1, <1>2, <1>4 DEF QuotaInv, Process, ProcType, Onward
  <1>7. QED
    BY <1>1, <1>3, <1>4, <1>5, <1>6, AsideKeeps

LEMMA DownFields ==
  /\ Down \in ProcType /\ ~Down.up /\ Down.route = NoDeal /\ ~Down.cached
  /\ Down.phase = "live" /\ Down.closing = NoDeal /\ ~Down.bound /\ ~Down.known
  BY DEF Down, ProcType

LEMMA RestartKeeps ==
  ASSUME QuotaInv, Restart
  PROVE  QuotaInv'
  <1>1. /\ ~proc.up /\ Silent /\ UNCHANGED <<facts, chain, rank, seen, stopped, task>>
    BY DEF Restart, Kept
  <1>2. TypeOK /\ StoreOK /\ Recorded /\ EndsKept /\ stopped \subseteq Deals /\ proc = Down
    BY <1>1 DEF QuotaInv, TypeOK, StoreOK, Process
  <1>3. PICK r \in Restore(ReadJournal, FALSE) :
          LET o == [r EXCEPT !.journal = journal]
          IN  Does({o}, o) /\ proc' = [Down EXCEPT !.up = o.ok]
    BY DEF Restart, OpenStore
  <1>4. \/ \E j, w : r = [journal |-> j, row |-> w, ok |-> TRUE]
        \/ \E j, w : r = [journal |-> j, row |-> w, ok |-> FALSE]
    BY <1>3 DEF Restore, Outcome
  <1>5. \E up \in BOOLEAN :
          /\ journal' = journal /\ row' = r.row /\ faults' \in Nat
          /\ proc' = [Down EXCEPT !.up = up]
    <2> DEFINE o == [r EXCEPT !.journal = journal]
    <2>0. Does({o}, o) /\ proc' = [Down EXCEPT !.up = o.ok]
      BY <1>3
    <2>1. CASE \E j, w : r = [journal |-> j, row |-> w, ok |-> TRUE]
      <3>1. PICK j, w : r = [journal |-> j, row |-> w, ok |-> TRUE]
        BY <2>1
      <3>2. o.journal = journal /\ o.row = w /\ o.ok = TRUE /\ r.row = w
        BY <3>1
      <3> HIDE DEF o
      <3>3. journal' = journal /\ row' = r.row /\ faults' \in Nat
        BY <1>2, <2>0, <3>2 DEF Does, TypeOK
      <3>4. proc' = [Down EXCEPT !.up = TRUE]
        BY <2>0, <3>2
      <3>5. QED
        BY <3>3, <3>4
    <2>2. CASE \E j, w : r = [journal |-> j, row |-> w, ok |-> FALSE]
      <3>1. PICK j, w : r = [journal |-> j, row |-> w, ok |-> FALSE]
        BY <2>2
      <3>2. o.journal = journal /\ o.row = w /\ o.ok = FALSE /\ r.row = w
        BY <3>1
      <3> HIDE DEF o
      <3>3. journal' = journal /\ row' = r.row /\ faults' \in Nat
        BY <1>2, <2>0, <3>2 DEF Does, TypeOK
      <3>4. proc' = [Down EXCEPT !.up = FALSE]
        BY <2>0, <3>2
      <3>5. QED
        BY <3>3, <3>4
    <2>3. QED
      BY <1>4, <2>1, <2>2
  <1>6. PICK up \in BOOLEAN : proc' = [Down EXCEPT !.up = up]
    BY <1>5
  <1>7. /\ proc' \in ProcType /\ (proc'.up <=> up) /\ proc'.route = NoDeal /\ ~proc'.cached
        /\ proc'.phase = "live" /\ proc'.closing = NoDeal /\ ~proc'.bound /\ ~proc'.known
    BY <1>6, DownFields DEF ProcType
  <1>8. ~proc'.up => proc' = Down
    BY <1>6, <1>7 DEF Down
  <1>9. SameRoute /\ (Settled => Settled')
    BY <1>1, <1>2, <1>7, DownFields, Still DEF SameRoute, Steady, Settled
  <1>10. /\ StoreOK' /\ Unresolved' = Unresolved /\ Recorded'
         /\ \A e \in Deals : (Unopened(e) => Unopened(e)') /\ (Bound(e) => Bound(e)')
         /\ EndsKept'
    BY <1>1, <1>2, <1>3, <1>5, <1>9, DownFields, RestoreKeeps DEF EndsKept
  <1>11. Calm
    BY <1>1, <1>7, <1>9, <1>10, CalmStep
  <1>12. Process' /\ ChainSeen'
    BY <1>1, <1>7, <1>8, <1>10 DEF QuotaInv, Process, ChainSeen
  <1>13. QED
    BY <1>1, <1>2, <1>5, <1>7, <1>10, <1>11, <1>12, WorldKeeps DEF TypeOK

LEMMA CrashKeeps ==
  ASSUME QuotaInv, Crash
  PROVE  QuotaInv'
  <1>1. /\ Silent /\ proc' = Down /\ task' = [t \in Tasks |-> Idle] /\ faults' = faults + 1
        /\ UNCHANGED <<journal, row, facts, chain, rank, seen, stopped>>
    BY DEF Crash
  <1>2. Unresolved' = Unresolved /\ (HoldsTerms' <=> HoldsTerms)
    BY <1>1 DEF Unresolved, ReadJournal, HoldsTerms
  <1>3. TypeOK'
    BY <1>1, IdleFields, DownFields DEF QuotaInv, TypeOK
  <1>4. Process'
    BY <1>1, DownFields DEF QuotaInv, Process
  <1>5. ChainSeen' /\ Recorded' /\ Binds'
    BY <1>1, <1>2, DownFields DEF QuotaInv, ChainSeen, Recorded, Unopened, Bound, Binds
  <1>6. OneInitialiser'
    BY <1>1, IdleFields DEF OneInitialiser, Initialising
  <1>7. EndsKept'
    <2> SUFFICES ASSUME NEW d \in stopped PROVE EndKept(d)'
      BY <1>1 DEF EndsKept
    <2>1. EndKept(d) /\ d \in Deals
      BY DEF QuotaInv, EndsKept, TypeOK
    <2>2. Stands(d)'
      BY <1>1, <1>2, <2>1, DownFields, QuotaAssumption DEF EndKept, Stands, Standing
    <2>3. QED
      BY <1>1, <1>2, <2>1, <2>2, DownFields DEF EndKept
  <1>8. \A t \in Tasks : HandlerOK(t)'
    BY <1>1, <1>3, IdleFields, RestedOK DEF Rested
  <1>9. QED
    BY <1>1, <1>3, <1>4, <1>5, <1>6, <1>7, <1>8, SilentOK DEF QuotaInv
-----------------------------------------------------------------------------
(***************************************************************************)
(* A new route.                                                            *)
(***************************************************************************)
LEMMA RoutesIs ==
  ASSUME TypeOK, Process, Deals # {}
  PROVE  Routes \in Nat /\ \A d \in Deals : rank[d] <= Routes
  <1>1. PICK m \in Deals : \A d \in Deals : rank[d] <= rank[m]
    BY DEF Process
  <1> DEFINE S == {rank[d] : d \in Deals}
  <1>2. rank[m] \in S /\ \A y \in S : rank[m] >= y
    BY <1>1 DEF TypeOK
  <1>3. Routes \in S /\ \A y \in S : Routes >= y
    <2> HIDE DEF S
    <2>1. Max(S) \in S /\ \A y \in S : Max(S) >= y
      BY <1>2 DEF Max
    <2>2. QED
      BY <2>1 DEF Routes, S
  <1>4. QED
    BY <1>3 DEF TypeOK

LEMMA SwapKeeps ==
  ASSUME QuotaInv, NEW d \in Deals, Swap(d)
  PROVE  QuotaInv'
  <1> DEFINE new == [Idle EXCEPT !.pc = "check", !.deal = d, !.want = "swap"]
  <1>1. /\ proc.up /\ task[Swapper].pc = "idle" /\ Silent
        /\ proc.route = NoDeal \/ rank[d] = 0
        /\ chain[d] \in {"funded", "open"}
        /\ proc' = [Down EXCEPT !.up = TRUE, !.route = d, !.closing = proc.closing]
        /\ rank' = [rank EXCEPT ![d] = Routes + 1]
        /\ task' = [task EXCEPT ![Swapper] = new]
        /\ UNCHANGED <<journal, row, faults, facts, chain, seen, stopped>>
        /\ \A t \in Handlers : ~Syncing(t)
    BY DEF Swap, Install, StoreKept
  <1>2. TypeOK /\ proc.closing \in Deals \cup {NoDeal} /\ d # NoDeal
    BY QuotaAssumption DEF QuotaInv, TypeOK, ProcType
  <1>3. /\ proc' \in ProcType /\ proc'.up /\ proc'.route = d /\ ~proc'.cached
        /\ proc'.phase = "live" /\ proc'.closing = proc.closing /\ ~proc'.bound /\ ~proc'.known
    BY <1>1, <1>2, DownFields DEF ProcType
  <1>4. Routes \in Nat /\ \A e \in Deals : rank[e] <= Routes
    BY <1>2, RoutesIs DEF QuotaInv
  <1>5. /\ rank' \in [Deals -> Nat] /\ rank'[d] > 0
        /\ \A e \in Deals : rank[e] <= rank'[e] /\ rank'[e] <= rank'[d]
    BY <1>1, <1>2, <1>4 DEF TypeOK
  <1>6. /\ new \in TaskType /\ new.pc = "check" /\ new.deal = d /\ new.known = 0
        /\ ~new.wasSettled
    BY IdleFields DEF TaskType, Steps
  <1> HIDE DEF new
  <1>7. /\ Swapper \in Tasks /\ Alone(Swapper) /\ task'[Swapper] = new
        /\ \A u \in Tasks : ~Syncing(u) /\ ~Initialising(u)
    BY <1>1, <1>2, <1>6 DEF Tasks, Alone, TypeOK, Syncing, Initialising
  <1>8. TypeOK'
    BY <1>1, <1>2, <1>3, <1>5, <1>7 DEF TypeOK, Alone
  <1>9. Unresolved' = Unresolved /\ (HoldsTerms' <=> HoldsTerms)
    BY <1>1 DEF Unresolved, ReadJournal, HoldsTerms
  <1>10. Process'
    BY <1>1, <1>2, <1>3, <1>5 DEF QuotaInv, Process
  <1>11. ChainSeen' /\ Recorded' /\ Binds'
    BY <1>1, <1>3, <1>9 DEF QuotaInv, ChainSeen, Recorded, Unopened, Bound, Binds
  <1>12. OneInitialiser'
    BY <1>6, <1>7 DEF OneInitialiser, Initialising, Alone
  <1>13. EndsKept'
    <2> SUFFICES ASSUME NEW e \in stopped PROVE EndKept(e)'
      BY <1>1 DEF EndsKept
    <2>1. EndKept(e)
      BY DEF QuotaInv, EndsKept
    <2>2. Stands(e)'
      BY <1>1, <1>3, <1>9, <2>1 DEF EndKept, Stands, Standing
    <2>3. QED
      BY <1>1, <1>3, <1>9, <2>1, <2>2 DEF EndKept
  <1>14. ASSUME NEW u \in Tasks PROVE HandlerOK(u)'
    <2>1. CASE u = Swapper
      <3>1. (IF seen' = NoDeal THEN 0 ELSE rank'[seen']) \in Nat
        BY <1>8 DEF TypeOK
      <3>2. QED
        BY <1>2, <1>3, <1>5, <1>6, <1>7, <2>1, <3>1
        DEF HandlerOK, Follows, Synced, Settles, Syncing, Initialising
    <2>2. CASE u # Swapper
      <3>1. /\ HandlerOK(u) /\ task'[u] = task[u] /\ task[u] \in TaskType
            /\ ~Syncing(u)' /\ ~Initialising(u)'
        BY <1>2, <1>7, <1>14, <2>2 DEF QuotaInv, Alone, TypeOK, Syncing, Initialising
      <3>2. task[u].deal # d
        BY <1>1, <1>2, <3>1 DEF HandlerOK, Follows
      <3>3. Follows(u)'
        <4>1. task[u].deal # NoDeal => rank'[task[u].deal] > 0
          <5>1. task[u].deal \in Deals => rank[task[u].deal] = rank'[task[u].deal]
            BY <1>1, <1>2, <3>2 DEF TypeOK
          <5>2. QED
            BY <3>1, <5>1 DEF HandlerOK, Follows, TaskType
        <4>2. task[u].pc # "open"
          BY <1>7, <1>14 DEF Syncing
        <4>3. QED
          BY <1>2, <1>3, <3>1, <4>1, <4>2 DEF HandlerOK, Follows
      <3>4. Synced(u)'
        <4>1. task[u].known <= IF seen' = NoDeal THEN 0 ELSE rank'[seen']
          <5>1. /\ seen \in Deals \cup {NoDeal} /\ rank \in [Deals -> Nat] /\ seen' = seen
                /\ task[u].known <= (IF seen = NoDeal THEN 0 ELSE rank[seen])
                /\ task[u].known \in Nat
            BY <1>1, <1>2, <3>1 DEF TypeOK, HandlerOK, Synced, TaskType
          <5>2. CASE seen = NoDeal
            BY <5>1, <5>2
          <5>3. CASE seen # NoDeal
            BY <1>5, <5>1, <5>3
          <5>4. QED
            BY <5>2, <5>3
        <4>2. task[u].pc \notin {"discard", "state", "terms"}
          BY <1>7, <1>14 DEF Initialising
        <4>3. QED
          BY <1>3, <3>1, <3>2, <4>1, <4>2 DEF Synced
      <3>5. Settles(u)'
        BY <1>1, <3>1 DEF HandlerOK, Settles, Over
      <3>6. QED
        BY <3>3, <3>4, <3>5 DEF HandlerOK
    <2>3. QED
      BY <2>1, <2>2
  <1>15. QED
    BY <1>1, <1>8, <1>10, <1>11, <1>12, <1>13, <1>14, SilentOK DEF QuotaInv
-----------------------------------------------------------------------------
(***************************************************************************)
(* The theorems.                                                           *)
(***************************************************************************)
LEMMA InitQuota == Init => QuotaInv
  <1> SUFFICES ASSUME Init PROVE QuotaInv
    OBVIOUS
  <1>1. /\ facts = {} /\ faults = 0 /\ proc = Down /\ answer = None
        /\ task = [t \in Tasks |-> Idle]
    BY DEF Init
  <1>2. NoOlderQuota /\ EndedHasNoQuota
    BY <1>1 DEF NoOlderQuota, EndedHasNoQuota, None
  <1>3. OneInitialiser
    BY <1>1, IdleFields DEF OneInitialiser, Initialising
  <1>4. CASE /\ journal = NoJournal /\ row = NoRow /\ seen = NoDeal
             /\ chain = [d \in Deals |-> "funded"] /\ rank = [d \in Deals |-> 0]
             /\ stopped = {}
    <2>1. TypeOK
      BY <1>1, <1>4, IdleFields, DownFields DEF TypeOK, ChainStates
    <2>2. Process
      BY <1>1, <1>4, DownFields DEF Process
    <2>3. ChainSeen /\ Recorded /\ EndsKept /\ Binds
      BY <1>1, <1>4, NoRecordEmpty, QuotaAssumption, DownFields
      DEF ChainSeen, Recorded, EndsKept, Unopened, HoldsTerms, Binds
    <2>4. \A t \in Tasks : HandlerOK(t)
      BY <1>1, <1>4, IdleFields, DownFields
      DEF HandlerOK, Follows, Synced, Settles, Syncing, Initialising
    <2>5. QED
      BY <1>2, <1>3, <2>1, <2>2, <2>3, <2>4 DEF QuotaInv
  <1>5. ASSUME NEW old \in Deals,
               rank = [d \in Deals |-> IF d = old THEN 1 ELSE 0],
               \E at \in {"open", "disputed", "gone"} :
                 chain = [d \in Deals |-> IF d = old THEN at ELSE "funded"],
               seen = old,
               \/ /\ journal = [deal |-> old, terms |-> FALSE, closed |-> FALSE, pending |-> {}]
                  /\ row = NoRow /\ stopped = {}
               \/ /\ journal = NoJournal
                  /\ row \in [deal : {old}, closed : BOOLEAN]
                  /\ stopped = IF row.closed THEN {old} ELSE {}
        PROVE  QuotaInv
    <2>1. /\ StoreOK /\ ~HoldsTerms /\ row.deal \in {old, NoDeal} /\ stopped \subseteq {old}
          /\ old \in stopped => row.deal = old /\ row.closed
          /\ row.deal = old \/ old \in Unresolved
      <3>1. CASE /\ journal = [deal |-> old, terms |-> FALSE, closed |-> FALSE, pending |-> {}]
                 /\ row = NoRow /\ stopped = {}
        <4>1. journal \in Records /\ ~journal.terms /\ journal.pending = {} /\ journal.deal = old
          BY <1>5, <3>1 DEF Records
        <4>2. journal # NoJournal
          BY <4>1, NoRecordEmpty
        <4>3. ReadJournal.pending = {old}
          BY <4>1, <4>2 DEF ReadJournal, Records
        <4>4. QED
          BY <3>1, <4>1, <4>2, <4>3, NoRecordEmpty DEF StoreOK, HoldsTerms, Unresolved
      <3>2. CASE /\ journal = NoJournal /\ row \in [deal : {old}, closed : BOOLEAN]
                 /\ stopped = IF row.closed THEN {old} ELSE {}
        BY <1>5, <3>2 DEF StoreOK, HoldsTerms, Rows
      <3>3. QED
        BY <1>5, <3>1, <3>2
    <2>2. /\ rank \in [Deals -> Nat] /\ \A d \in Deals : rank[d] <= rank[old]
          /\ chain \in [Deals -> ChainStates] /\ chain[old] # "funded"
      BY <1>5 DEF ChainStates
    <2>3. TypeOK
      BY <1>1, <1>5, <2>1, <2>2, IdleFields, DownFields DEF TypeOK, StoreOK
    <2>4. Process
      BY <1>1, <1>5, <2>2, DownFields DEF Process
    <2>5. ChainSeen
      BY <1>5, <2>1, <2>2, QuotaAssumption DEF ChainSeen, Unopened
    <2>6. Recorded
      BY <1>5, <2>1 DEF Recorded, Bound
    <2>7. EndsKept /\ Binds
      <3>1. EndsKept
        BY <2>1, <2>2 DEF EndsKept, EndKept, Stands, Standing
      <3>2. Binds
        BY <1>1, DownFields DEF Binds
      <3>3. QED
        BY <3>1, <3>2
    <2>8. \A t \in Tasks : HandlerOK(t)
      <3>1. (IF seen = NoDeal THEN 0 ELSE rank[seen]) \in Nat
        BY <1>5, <2>2
      <3>2. QED
        BY <1>1, <3>1, IdleFields, DownFields
        DEF HandlerOK, Follows, Synced, Settles, Syncing, Initialising
    <2>9. QED
      BY <1>2, <1>3, <2>3, <2>4, <2>5, <2>6, <2>7, <2>8 DEF QuotaInv
  <1>6. QED
    BY <1>4, <1>5 DEF Init

LEMMA NextQuota == QuotaInv /\ [Next]_vars => QuotaInv'
  <1> SUFFICES ASSUME QuotaInv, [Next]_vars PROVE QuotaInv'
    OBVIOUS
  <1>1. CASE UNCHANGED vars
    <2>1. UNCHANGED <<journal, row, facts, chain, proc, task, faults, rank, seen, stopped, answer>>
      BY <1>1 DEF vars
    <2>2. QED
      BY <2>1
      DEF QuotaInv, TypeOK, Process, ChainSeen, Recorded, OneInitialiser, EndsKept, EndKept,
          HandlerOK, Follows, Synced, Settles, Syncing, Initialising, Unopened, Bound,
          HoldsTerms, Unresolved, ReadJournal, Settled, NoOlderQuota, EndedHasNoQuota,
          Over, Binds, Stands, Standing
  <1>2. ASSUME NEW t \in Tasks, Step(t) PROVE QuotaInv'
    BY <1>2, CheckKeeps, BeginQuotaKeeps, ReadStateKeeps, DiscardQuotaKeeps, ReadTermsKeeps,
       OpenQuotaKeeps, TailKeeps DEF Step
  <1>3. ASSUME NEW t \in Handlers, Serve(t) \/ Answer(t) PROVE QuotaInv'
    BY <1>3, ServeKeeps, AnswerKeeps DEF Tasks
  <1>4. ASSUME NEW t \in Handlers, NEW want \in {"serve", "answer"}, Request(t, want)
        PROVE  QuotaInv'
    BY <1>4, RequestKeeps DEF Tasks
  <1>5. ASSUME NEW d \in Deals, Swap(d) \/ Reconcile(d) \/ CliClose(d)
        PROVE  QuotaInv'
    BY <1>5, SwapKeeps, ReconcileKeeps, CliCloseKeeps
  <1>6. ASSUME NEW d \in Deals, NEW to \in {"open", "disputed", "gone"}, ChainMoves(d, to)
        PROVE  QuotaInv'
    BY <1>6, ChainMovesKeeps
  <1>7. CASE \/ Stop \/ StopFails \/ GuardedStopFails \/ RecordTerminalAction \/ Note
             \/ Observe \/ ReconcileCloses \/ Restart \/ Crash
    BY <1>7, StopKeeps, StopFailsKeeps, RecordTerminalKeeps, NoteKeeps, ObserveKeeps,
       ReconcileClosesKeeps, RestartKeeps, CrashKeeps
  <1>8. QED
    BY <1>1, <1>2, <1>3, <1>4, <1>5, <1>6, <1>7 DEF Next

\* Every reachable state of the quota record: the purchase last seen is the one
\* on record or is named as unresolved, and a recorded end is not forgotten by
\* the row, the journal or a session that may bind the deal again; the end that
\* a failed STOP recorded on an open contract stands until another purchase
\* takes its place on record (settle_guarded, open_deal_quota).
THEOREM QuotaInvariant == Spec => []QuotaInv
  BY InitQuota, NextQuota, PTL DEF Spec

\* No answer of /v1/usage is about an older purchase than the one that was last
\* seen open or used when the request came in, whatever writes failed and
\* whatever crashed since (persist_deal_quota, begin_deal_quota).
THEOREM QuotaIsCurrent == Spec => []NoOlderQuota
  <1>1. QuotaInv => NoOlderQuota
    BY DEF QuotaInv
  <1>2. QED
    BY <1>1, QuotaInvariant, PTL

\* No answer shows quota left of a deal whose end is on record, a failed STOP's
\* included, or whose session had settled (open_deal_quota, restore_quota,
\* close_deal_quota).
THEOREM EndedStaysEnded == Spec => []EndedHasNoQuota
  <1>1. QuotaInv => EndedHasNoQuota
    BY DEF QuotaInv
  <1>2. QED
    BY <1>1, QuotaInvariant, PTL
=============================================================================
