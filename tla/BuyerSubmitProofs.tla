-------------------------- MODULE BuyerSubmitProofs --------------------------
(***************************************************************************)
(* A buyer's money submissions (BuyerSubmit), for any number of them, any  *)
(* terms, any clock, crashes at any step and any delay of the facts:       *)
(* money that is out is on record, and the record speaks of its own order  *)
(* only, as long as no other order could pass for it.                      *)
(*                                                                         *)
(* Facts carry no message identity.  The record is told apart from other   *)
(* submissions by time and by the fills known when it was made, so the     *)
(* argument is that a record is removed only after everything the chain    *)
(* said of its order was readable, and that nothing of another order is    *)
(* dated after a record or falls within its terms unless blurred says so.  *)
(***************************************************************************)
EXTENDS BuyerSubmit, FiniteSetTheorems, WellFoundedInduction, TLAPS

States == {"unsent", "flight", "lost", "refused", "resting", "rejected", "filled",
           "cancelled", "swept", "lapsed"}
Accepted == {"resting", "filled", "cancelled", "swept", "lapsed"}
Steps  == {"prepare", "record", "post", "await", "poll", "resolve", "pool", "facts", "clear",
           "judge", "stopfacts", "stopfacts2", "stopfills", "stopfills2", "subplaced", "subactive"}
Standings == {"none", "rejected", "unresolved", "cancelled", "expired", "unpaid", "resting"}
AnyTerms == BuyTerms \cup SubTerms \cup {NoTerms}

FactType ==
  [what : {"placed", "rejected", "cancelled", "expired", "refunded"}, of : Submit, id : Nat,
   kind : Kinds, terms : AnyTerms, at : Nat]
FillType == [id : Submit, ticks : Nat, price : Nat, at : Nat]
JournalType ==
  [s : Submit, kind : Kinds, terms : AnyTerms, created : Int, oid : Nat,
   cursor : SUBSET Submit, resolved : SUBSET Submit]
RunType ==
  [pc : Steps, cmd : {"buy", "resume", "journal", "stop", "place"}, kind : Kinds,
   terms : AnyTerms, s : Submit \cup {0}, created : Int, amb : BOOLEAN,
   got : SUBSET Submit, standing : Standings]

TypeOK ==
  /\ now \in Nat
  /\ book \in [Submit -> [st : States, kind : Kinds, terms : AnyTerms]]
  /\ facts \subseteq FactType /\ fills \subseteq FillType
  /\ journal \in JournalType \cup {NoJournal}
  /\ pool \subseteq Submit /\ told \subseteq Submit /\ owed \subseteq Submit
  /\ subs \in [Submit -> {"none", "resting", "matched", "terminal"}]
  /\ run \in RunType \cup {Idle}
-----------------------------------------------------------------------------
(***************************************************************************)
(* The inductive invariant.                                                *)
(***************************************************************************)

\* What the book said is so, and was said in the order it happened.
BookSpeaks ==
  /\ \A s \in Submit : book[s].st # "unsent" => book[s].terms \in Terms(book[s].kind)
  /\ \A u, v \in Submit : book[u].st = "unsent" /\ u < v => book[v].st = "unsent"
  /\ \A f \in facts :
       /\ f.at <= now
       /\ f.what = "placed" => /\ f.of = f.id /\ f.id \in Submit /\ book[f.id].st \in Accepted
                               /\ f.kind = book[f.id].kind /\ f.terms = book[f.id].terms
       /\ f.what = "rejected" => f.id = 0 /\ book[f.of].st = "rejected"
       /\ f.what = "cancelled" => f.id \in Submit /\ book[f.id].st = "cancelled"
       /\ f.what = "expired" => f.id \in Submit /\ book[f.id].st = "swept"
       /\ f.what = "refunded" => f.id \in Submit /\ book[f.id].st \in {"swept", "lapsed"}
  /\ \A f, g \in facts : f.what = "rejected" /\ g.what = "rejected" /\ f.of = g.of => f.at = g.at
  /\ \A f \in fills : f.at <= now /\ book[f.id].st = "filled"
  /\ \A f \in facts : f.what = "placed" =>
       /\ \A g \in facts : g.id = f.id => f.at <= g.at
       /\ \A g \in fills : g.id = f.id => f.at <= g.at
  /\ \A f, g \in fills : f.id = g.id => f.at = g.at

\* The facts by which a record is told apart: they can be read by now.
Readable(f) == f.at + Lag <= now
AllReadable ==
  /\ \A f \in facts : f.what \in {"placed", "rejected"} => Readable(f)
  /\ \A f \in fills : book[f.id].kind = "buy" => Readable(f)

\* Those that cannot be read yet are about the order on record.
NewsIsRecorded ==
  /\ \A f \in facts : f.what = "placed" => Readable(f) \/ Recorded(f.id)
  /\ \A f \in facts : f.what = "rejected" => Readable(f) \/ Recorded(f.of)
  /\ \A f \in fills : book[f.id].kind = "buy" => Readable(f) \/ Recorded(f.id)

\* The record is of the last submission, and what looks like its own is.
OnRecord(j) ==
  /\ j.terms \in Terms(j.kind)
  /\ book[j.s].st # "unsent" => book[j.s].kind = j.kind /\ book[j.s].terms = j.terms
  /\ \A u \in Submit : u > j.s => book[u].st = "unsent"
  /\ \A f \in facts : f.what = "placed" /\ Mine(f, j) => f.id = j.s
  /\ \A f \in facts : f.what = "rejected" /\ Mine(f, j) => f.of = j.s
  /\ j.kind = "buy" => \A f \in fills : Correlates(f, j) /\ f.id \notin j.cursor => f.id = j.s
  /\ j.oid \in {0, j.s}
  /\ j.resolved \subseteq {j.s}
  /\ j.resolved # {} => book[j.s].st = "filled" /\ AllReadable

\* A subscription's own record follows its order.
SubsFollow ==
  \A s \in Submit :
    /\ subs[s] # "none" => book[s].kind = "sub" /\ book[s].st \in Accepted
    /\ subs[s] = "matched" => book[s].st = "filled"
    /\ subs[s] = "terminal" => book[s].st = "cancelled"

\* The order of record j is over, and everything about it was readable.
OverWith(j) == book[j.s].st \in {"cancelled", "rejected", "swept"} /\ AllReadable
ReleasedOf(j) ==
  /\ AllReadable
  /\ \/ book[j.s].st \in {"refused", "cancelled", "rejected", "swept"}
     \/ book[j.s].st = "filled" /\ j.s \in pool \cup told
     \/ j.kind = "sub" /\ subs[j.s] \in {"resting", "matched"}

\* The command under way, by its place.
CommandOK(r, j) ==
  /\ r.terms \in Terms(r.kind)
  /\ r.pc \in {"prepare", "record"} <=> j = NoJournal
  /\ r.pc = "record" =>
       /\ r.s \in Submit /\ book[r.s].st = "unsent"
       /\ \A u \in Submit : u < r.s => book[u].st # "unsent"
  /\ r.pc = "post" =>
       /\ r.s = j.s /\ book[r.s].st = "unsent" /\ r.kind = j.kind /\ r.terms = j.terms
       /\ \A u \in Submit : u < r.s => book[u].st # "unsent"
  /\ r.pc \in {"await", "poll", "resolve", "pool", "facts", "judge", "stopfacts",
               "stopfacts2", "stopfills", "stopfills2"} => j.kind = "buy"
  /\ r.pc \in {"subplaced", "subactive"} => j.kind = "sub"
  /\ r.pc \in {"resolve", "pool"} =>
       r.got \subseteq {j.s} /\ (r.got # {} => book[j.s].st = "filled" /\ AllReadable)
  /\ r.pc = "subactive" => subs[j.s] # "none" /\ AllReadable
  /\ r.pc = "stopfills2" /\ Closes(r.standing) => OverWith(j)
  /\ r.pc = "clear" => ReleasedOf(j)

SubmitInv ==
  /\ TypeOK /\ BookSpeaks /\ NewsIsRecorded /\ SubsFollow /\ owed \subseteq pool
  /\ MoneyOnRecord
  /\ Pending => OnRecord(journal)
  /\ run # Idle => CommandOK(run, journal)
-----------------------------------------------------------------------------
(***************************************************************************)
(* What the reads of a command say about the record.                       *)
(***************************************************************************)
\* A new fill with the terms of the record is the record's own, and then
\* everything the chain said of the order can be read.
LEMMA OwnFills ==
  ASSUME SubmitInv, Pending, journal.kind = "buy",
         NEW f \in NewFills(journal), Correlates(f, journal)
  PROVE  f.id = journal.s /\ book[journal.s].st = "filled" /\ AllReadable
  <1>1. /\ f \in fills /\ f.at + Lag <= now /\ f.id = journal.s
        /\ book[journal.s].st = "filled"
    BY DEF NewFills, Correlates, SubmitInv, OnRecord, BookSpeaks
  <1>2. journal \in JournalType /\ f.at \in Nat /\ now \in Nat /\ Lag \in Nat
    BY <1>1, SubmitAssumption DEF SubmitInv, TypeOK, Pending, FillType
  <1>3. ASSUME NEW g \in facts, g.what = "placed"
        PROVE  Readable(g)
    BY <1>1, <1>2, <1>3 DEF SubmitInv, NewsIsRecorded, Readable, Recorded, BookSpeaks, TypeOK, FactType
  <1>4. ASSUME NEW g \in facts, g.what = "rejected"
        PROVE  Readable(g)
    BY <1>1, <1>4 DEF SubmitInv, NewsIsRecorded, Recorded, BookSpeaks
  <1>5. ASSUME NEW g \in fills, book[g.id].kind = "buy"
        PROVE  Readable(g)
    BY <1>1, <1>5 DEF SubmitInv, NewsIsRecorded, Readable, Recorded, BookSpeaks
  <1>6. QED
    BY <1>1, <1>3, <1>4, <1>5 DEF AllReadable

LEMMA OwnMatches ==
  ASSUME SubmitInv, Pending, journal.kind = "buy"
  PROVE  /\ Matching(NewFills(journal), journal) \subseteq {journal.s}
         /\ Matching(NewFills(journal), journal) # {} => book[journal.s].st = "filled" /\ AllReadable
  BY OwnFills DEF Matching

\* The order id found for the record is its own.
LEMMA OwnOrderId ==
  ASSUME SubmitInv, Pending
  PROVE  OrderId(journal) \in {0, journal.s}
  <1>1. Placements(journal) \subseteq {journal.s}
    BY DEF Placements, Read, SubmitInv, OnRecord
  <1>2. CASE Placements(journal) = {}
    BY <1>2, FS_EmptySet DEF OrderId, SubmitInv, OnRecord
  <1>3. CASE Placements(journal) = {journal.s}
    BY <1>3 DEF OrderId, SubmitInv, OnRecord
  <1>4. QED
    BY <1>1, <1>2, <1>3

\* A standing that closes the record tells the end of the record's order, and
\* then everything the chain said of it can be read.
LEMMA OwnStanding ==
  ASSUME SubmitInv, Pending, Closes(Standing(journal))
  PROVE  OverWith(journal)
  <1>1. journal \in JournalType /\ now \in Nat /\ Lag \in Nat /\ journal.s \in Nat /\ journal.s # 0
    BY SubmitAssumption DEF SubmitInv, TypeOK, Pending, JournalType, Submit
  <1>2. PICK f \in facts :
          /\ f.at + Lag <= now
          /\ \/ f.what = "rejected" /\ Mine(f, journal)
             \/ f.what \in {"cancelled", "expired"} /\ f.id = journal.s
    BY <1>1, OwnOrderId DEF Closes, Standing, Announced, Read
  <1>3. book[journal.s].st \in {"cancelled", "rejected", "swept"}
    BY <1>2 DEF SubmitInv, OnRecord, BookSpeaks
  <1>4. f.at \in Nat
    BY <1>2 DEF SubmitInv, TypeOK, FactType
  <1>5. ASSUME NEW g \in facts, g.what = "placed"
        PROVE  Readable(g)
    <2>1. g.at \in Nat
      BY DEF SubmitInv, TypeOK, FactType
    <2>2. CASE Readable(g)
      BY <2>2
    <2>3. CASE g.id = journal.s
      <3>1. f.what # "rejected"
        BY <1>2, <1>5, <2>3 DEF SubmitInv, OnRecord, BookSpeaks, Accepted
      <3>2. g.at <= f.at
        BY <1>2, <1>5, <2>3, <3>1 DEF SubmitInv, BookSpeaks
      <3>3. QED
        BY <1>1, <1>2, <1>4, <2>1, <3>2 DEF Readable
    <2>4. QED
      BY <1>5, <2>2, <2>3 DEF SubmitInv, NewsIsRecorded, Recorded
  <1>6. ASSUME NEW g \in facts, g.what = "rejected"
        PROVE  Readable(g)
    <2>1. CASE Readable(g)
      BY <2>1
    <2>2. CASE g.of = journal.s
      <3>1. book[journal.s].st = "rejected"
        BY <1>6, <2>2 DEF SubmitInv, BookSpeaks
      <3>2. f.what = "rejected" /\ f.of = journal.s
        BY <1>2, <3>1 DEF SubmitInv, OnRecord, BookSpeaks
      <3>3. f.at = g.at
        BY <1>2, <1>6, <2>2, <3>2 DEF SubmitInv, BookSpeaks
      <3>4. QED
        BY <1>2, <3>3 DEF Readable
    <2>3. QED
      BY <1>6, <2>1, <2>2 DEF SubmitInv, NewsIsRecorded, Recorded
  <1>7. ASSUME NEW g \in fills, book[g.id].kind = "buy"
        PROVE  Readable(g)
    BY <1>3, <1>7 DEF SubmitInv, NewsIsRecorded, Recorded, BookSpeaks
  <1>8. QED
    BY <1>3, <1>5, <1>6, <1>7 DEF OverWith, AllReadable

\* The placement a subscription's record finds is its own.
LEMMA OwnPlacementIsOwn ==
  ASSUME SubmitInv, Pending, journal.kind = "sub", NEW f \in OwnPlacement(journal)
  PROVE  /\ f.id = journal.s /\ AllReadable
         /\ book[journal.s].kind = "sub" /\ book[journal.s].st \in Accepted
  <1>1. journal \in JournalType /\ now \in Nat /\ Lag \in Nat /\ journal.s \in Submit
    BY SubmitAssumption DEF SubmitInv, TypeOK, Pending, JournalType
  <1>2. /\ f \in facts /\ f.what = "placed" /\ f.id >= journal.s /\ f.at + Lag <= now
        /\ f.id \in Submit /\ book[f.id].st \in Accepted /\ f.at \in Nat
    BY DEF OwnPlacement, Read, SubmitInv, BookSpeaks, TypeOK, FactType
  <1>3. f.id = journal.s
    <2>1. ~(f.id > journal.s)
      BY <1>1, <1>2 DEF SubmitInv, OnRecord, Accepted
    <2>2. QED
      BY <1>1, <1>2, <2>1 DEF Submit
  <1>4. book[journal.s].kind = "sub"
    BY <1>2, <1>3 DEF SubmitInv, OnRecord, Accepted
  <1>5. ASSUME NEW g \in facts, g.what = "placed"
        PROVE  Readable(g)
    <2>1. g.at \in Nat
      BY DEF SubmitInv, TypeOK, FactType
    <2>2. g.id = f.id => g.at <= f.at
      BY <1>2, <1>5 DEF SubmitInv, BookSpeaks
    <2>3. QED
      BY <1>1, <1>2, <1>3, <1>5, <2>1, <2>2 DEF SubmitInv, NewsIsRecorded, Recorded, Readable
  <1>6. ASSUME NEW g \in facts, g.what = "rejected"
        PROVE  Readable(g)
    BY <1>2, <1>3, <1>6 DEF SubmitInv, NewsIsRecorded, Recorded, BookSpeaks, Accepted
  <1>7. ASSUME NEW g \in fills, book[g.id].kind = "buy"
        PROVE  Readable(g)
    BY <1>4, <1>7 DEF SubmitInv, NewsIsRecorded, Recorded
  <1>8. QED
    BY <1>2, <1>3, <1>4, <1>5, <1>6, <1>7 DEF AllReadable
-----------------------------------------------------------------------------
(***************************************************************************)
(* Steps of a command.                                                     *)
(***************************************************************************)
\* A command in state r may go on, or has returned.
GoesOn(r, j) == r = Idle \/ (r \in RunType /\ CommandOK(r, j))

LEMMA InCommand ==
  ASSUME SubmitInv, run.pc \in Steps
  PROVE  run \in RunType /\ run # Idle /\ CommandOK(run, journal)
  BY DEF SubmitInv, TypeOK, Steps, Idle

LEMMA InRecord ==
  ASSUME SubmitInv, run.pc \in Steps \ {"prepare", "record"}
  PROVE  Pending /\ journal \in JournalType /\ OnRecord(journal)
  BY InCommand DEF SubmitInv, TypeOK, CommandOK, Pending

\* A step that touches neither chain nor records: only the command matters.
LEMMA RunMoves ==
  ASSUME SubmitInv, UNCHANGED <<chainVars, journal, subs>>, GoesOn(run, journal)',
         pool \subseteq pool', pool' \subseteq Submit,
         told \subseteq told', told' \subseteq Submit,
         owed' \subseteq pool'
  PROVE  SubmitInv'
  <1> USE DEF SubmitInv, chainVars
  <1>1. TypeOK'
    BY DEF TypeOK, GoesOn
  <1>2. BookSpeaks'
    BY DEF BookSpeaks
  <1>3. AllReadable' = AllReadable
    BY DEF AllReadable, Readable
  <1>4. NewsIsRecorded'
    BY DEF NewsIsRecorded, Recorded, Pending, Readable
  <1>5. SubsFollow'
    BY DEF SubsFollow
  <1>6. MoneyOnRecord'
    BY DEF MoneyOnRecord, Recorded, Pending
  <1>7. (Pending => OnRecord(journal))'
    BY <1>3 DEF Pending, OnRecord
  <1>8. (run # Idle => CommandOK(run, journal))'
    BY DEF GoesOn
  <1>9. QED
    BY <1>1, <1>2, <1>4, <1>5, <1>6, <1>7, <1>8

\* The chain stands still: what was readable is, and no more.
LEMMA ChainStands ==
  ASSUME UNCHANGED chainVars
  PROVE  /\ AllReadable' = AllReadable /\ now' = now /\ book' = book
         /\ facts' = facts /\ fills' = fills
  BY DEF AllReadable, Readable, chainVars

LEMMA StartKeeps ==
  ASSUME SubmitInv, Start
  PROVE  SubmitInv'
  <1>1. run = Idle /\ UNCHANGED <<chainVars, journal, pool, told, subs, owed>>
    BY DEF Start, BuyFresh, BuyAgain, FreeLock, ResumeBuy, ResumeSubscription, StartJournal,
           StartStop, StartSubscription, ChainUnchanged
  <1>2. CASE run' = Idle
    BY <1>1, <1>2, RunMoves DEF GoesOn, SubmitInv, TypeOK
  <1>3. ASSUME NEW cmd \in {"buy", "resume", "journal", "stop", "place"}, NEW kind \in Kinds,
               NEW terms \in Terms(kind),
               NEW step \in {"prepare", "poll", "judge", "stopfacts", "subplaced"},
               run' = Command(cmd, kind, terms, step),
               step = "prepare" <=> ~Pending,
               step \in {"poll", "judge", "stopfacts"} => journal.kind = "buy",
               step = "subplaced" => journal.kind = "sub"
        PROVE  SubmitInv'
    <2>1. run' \in RunType
      BY <1>3 DEF Command, RunType, Steps, Standings, AnyTerms, Terms
    <2>2. run'.pc = step /\ run'.terms = terms /\ run'.kind = kind
      BY <1>3 DEF Command
    <2>3. CommandOK(run, journal)'
      BY <1>1, <1>3, <2>2 DEF CommandOK, Pending
    <2>4. QED
      BY <1>1, <2>1, <2>3, RunMoves DEF GoesOn, SubmitInv, TypeOK
  <1>4. Pending => journal.terms \in Terms(journal.kind) /\ journal.kind \in Kinds
    BY DEF SubmitInv, OnRecord, TypeOK, Pending, JournalType
  <1>5. CASE BuyFresh
    BY <1>3, <1>5 DEF BuyFresh, Begins, Kinds, Terms
  <1>6. CASE BuyAgain
    BY <1>3, <1>6 DEF BuyAgain, Begins, SameInvocation, Kinds, Terms
  <1>7. CASE ResumeBuy
    BY <1>3, <1>4, <1>7 DEF ResumeBuy, Begins
  <1>8. CASE ResumeSubscription
    BY <1>3, <1>4, <1>8 DEF ResumeSubscription, Begins
  <1>9. CASE StartJournal
    BY <1>3, <1>4, <1>9 DEF StartJournal, Begins
  <1>10. CASE StartStop
    BY <1>3, <1>4, <1>10 DEF StartStop, Begins
  <1>11. CASE StartSubscription
    <2>1. CASE Pending
      BY <1>3, <1>4, <1>11, <2>1 DEF StartSubscription, Begins
    <2>2. CASE ~Pending
      BY <1>3, <1>11, <2>2 DEF StartSubscription, Begins, Kinds, Terms
    <2>3. QED
      BY <2>1, <2>2
  <1>12. CASE FreeLock
    BY <1>1, <1>2, <1>12 DEF FreeLock
  <1>13. QED
    BY <1>5, <1>6, <1>7, <1>8, <1>9, <1>10, <1>11, <1>12 DEF Start

\* A command that returns leaves nothing behind.
LEMMA Returns ==
  ASSUME SubmitInv, UNCHANGED <<chainVars, journal, subs, pool, told, owed>>, run' = Idle
  PROVE  SubmitInv'
  BY RunMoves DEF GoesOn, SubmitInv, TypeOK

\* The least of a set of numbers.
LEMMA Least ==
  ASSUME NEW T \in SUBSET Nat, T # {}
  PROVE  \E x \in T : \A y \in T : x <= y
  <1> DEFINE R == {p \in Nat \X Nat : p[1] < p[2]}
  <1>1. IsWellFoundedOn(R, Nat)
    BY NatLessThanWellFounded DEF R, OpToRel
  <1>2. \A x, y \in Nat : <<y, x>> \notin R => x <= y
    OBVIOUS
  <1> HIDE DEF R
  <1>3. \E x \in T : \A y \in T : ~(<<y, x>> \in R)
    BY <1>1, WFMin
  <1>4. QED
    BY <1>2, <1>3

LEMMA PrepareKeeps ==
  ASSUME SubmitInv, Prepare
  PROVE  SubmitInv'
  <1> DEFINE new == CHOOSE s \in Fresh : \A u \in Fresh : s <= u
             got == {f.id : f \in {g \in fills : g.at + Lag <= now}}
  <1>1. PICK c \in LocalClock :
        /\ run.pc = "prepare" /\ run \in RunType /\ ~Pending /\ run.terms \in Terms(run.kind)
        /\ UNCHANGED <<chainVars, journal, subs, pool, told, owed>>
        /\ run' = [run EXCEPT !.pc = "record", !.created = c, !.got = got, !.s = new]
    BY InCommand DEF Prepare, Steps, CommandOK, Pending, ChainUnchanged
  <1>2. new \in Fresh /\ \A u \in Fresh : new <= u
    <2>1. Fresh \in SUBSET Nat /\ Fresh # {}
      BY DEF Prepare, Fresh, Submit
    <2>2. QED
      BY <2>1, Least
  <1>3. new \in Submit /\ book[new].st = "unsent" /\ \A u \in Submit : u < new => book[u].st # "unsent"
    BY <1>2 DEF Fresh, Submit
  <1> HIDE DEF new
  <1>4. c \in Int
    BY SubmitAssumption DEF SubmitInv, TypeOK, LocalClock
  <1>5. got \subseteq Submit
    BY DEF SubmitInv, TypeOK, FillType
  <1> HIDE DEF got
  <1>9. run' \in RunType
    BY <1>1, <1>3, <1>4, <1>5 DEF RunType, Steps
  <1>10. /\ run'.pc = "record" /\ run'.s = new
         /\ run'.terms = run.terms /\ run'.kind = run.kind
    BY <1>1 DEF RunType
  <1>11. CommandOK(run, journal)'
    BY <1>1, <1>3, <1>10 DEF CommandOK, Pending, chainVars
  <1>12. QED
    BY <1>1, <1>9, <1>11, RunMoves DEF GoesOn, SubmitInv, TypeOK

\* A step that only adds to the record what it found of its order.
LEMMA RecordNotes ==
  ASSUME SubmitInv, Pending, UNCHANGED <<chainVars, subs, pool, told, owed>>,
         GoesOn(run, journal)',
         journal' \in JournalType,
         journal'.s = journal.s, journal'.kind = journal.kind, journal'.terms = journal.terms,
         journal'.created = journal.created, journal'.cursor = journal.cursor,
         journal'.oid \in {0, journal.s}, journal'.resolved \subseteq {journal.s},
         journal'.resolved # {} => book[journal.s].st = "filled" /\ AllReadable
  PROVE  SubmitInv'
  <1> USE DEF SubmitInv, chainVars
  <1>0. /\ AllReadable' = AllReadable /\ journal' # NoJournal /\ journal \in JournalType
        /\ OnRecord(journal)
    BY DEF AllReadable, Readable, NoJournal, JournalType, Submit, Pending, TypeOK
  <1>1. TypeOK'
    BY DEF TypeOK, GoesOn
  <1>2. BookSpeaks'
    BY DEF BookSpeaks
  <1>4. NewsIsRecorded'
    BY <1>0 DEF NewsIsRecorded, Recorded, Pending, Readable, Mine
  <1>5. SubsFollow'
    BY DEF SubsFollow
  <1>6. MoneyOnRecord'
    BY <1>0 DEF MoneyOnRecord, Recorded, Pending
  <1>7. (Pending => OnRecord(journal))'
    BY <1>0 DEF OnRecord, Mine, Correlates
  <1>8. (run # Idle => CommandOK(run, journal))'
    BY DEF GoesOn
  <1>9. QED
    BY <1>1, <1>2, <1>4, <1>5, <1>6, <1>7, <1>8

\* The record of an order whose money is accounted for is removed.
LEMMA RecordRemoved ==
  ASSUME SubmitInv, Pending, ReleasedOf(journal), journal' = NoJournal,
         UNCHANGED <<chainVars, subs, pool, told>>, owed' \subseteq owed,
         GoesOn(run, journal)'
  PROVE  SubmitInv'
  <1> USE DEF SubmitInv, chainVars
  <1>1. TypeOK'
    BY DEF TypeOK, GoesOn
  <1>2. BookSpeaks'
    BY DEF BookSpeaks
  <1>3. AllReadable' = AllReadable /\ AllReadable
    BY DEF AllReadable, Readable, ReleasedOf
  <1>4. NewsIsRecorded'
    BY <1>3 DEF NewsIsRecorded, AllReadable
  <1>5. SubsFollow'
    BY DEF SubsFollow
  <1>6. MoneyOnRecord'
    <2>1. journal.s \in Submit
      BY DEF TypeOK, Pending, JournalType
    <2>2. /\ book[journal.s].st # "flight"
          /\ book[journal.s].st = "resting" => subs[journal.s] = "resting"
          /\ book[journal.s].st = "filled" =>
               journal.s \in pool \cup told \/ subs[journal.s] \in {"resting", "matched"}
      BY <2>1 DEF ReleasedOf, SubsFollow, Accepted
    <2>3. QED
      BY <2>1, <2>2 DEF MoneyOnRecord, Recorded, Pending
  <1>7. (Pending => OnRecord(journal))'
    BY DEF Pending
  <1>8. (run # Idle => CommandOK(run, journal))'
    BY DEF GoesOn
  <1>9. QED
    BY <1>1, <1>2, <1>4, <1>5, <1>6, <1>7, <1>8

\* The new record: nothing that was said of older orders can pass for news of its
\* own.
LEMMA RecordKeeps ==
  ASSUME SubmitInv, Record, ~blurred'
  PROVE  SubmitInv'
  <1> USE DEF SubmitInv
  <1>1. /\ run.pc = "record" /\ run \in RunType /\ CommandOK(run, journal) /\ ~Pending
        /\ UNCHANGED <<chainVars, subs, pool, told, owed>>
        /\ run' = [run EXCEPT !.pc = "post", !.got = {}]
        /\ journal' = [s |-> run.s, kind |-> run.kind, terms |-> run.terms,
                       created |-> run.created, oid |-> 0, cursor |-> run.got, resolved |-> {}]
    BY InCommand DEF Record, Steps, CommandOK, Pending
  <1>2. /\ run.s \in Submit /\ book[run.s].st = "unsent"
        /\ \A u \in Submit : u < run.s => book[u].st # "unsent"
        /\ run.terms \in Terms(run.kind)
    BY <1>1 DEF CommandOK
  <1>3. /\ journal' \in JournalType /\ journal' # NoJournal
        /\ run' \in RunType
    BY <1>1, <1>2 DEF JournalType, RunType, Steps, NoJournal, Submit
  <1>4. /\ journal'.s = run.s /\ journal'.kind = run.kind /\ journal'.terms = run.terms
        /\ journal'.created = run.created /\ journal'.oid = 0 /\ journal'.cursor = run.got
        /\ journal'.resolved = {}
        /\ run'.pc = "post" /\ run'.s = run.s /\ run'.kind = run.kind /\ run'.terms = run.terms
    BY <1>1 DEF RunType
  <1>5. AllReadable' = AllReadable /\ now' = now /\ book' = book /\ facts' = facts /\ fills' = fills
    BY <1>1, ChainStands
  <1>6. AllReadable
    BY <1>1 DEF NewsIsRecorded, Recorded, AllReadable
  <1>7. TypeOK'
    BY <1>1, <1>3, <1>5 DEF TypeOK
  <1>8. BookSpeaks'
    BY <1>5 DEF BookSpeaks
  <1>9. NewsIsRecorded'
    BY <1>5, <1>6 DEF NewsIsRecorded, AllReadable
  <1>10. SubsFollow' /\ (owed \subseteq pool)'
    BY <1>1, <1>5 DEF SubsFollow
  <1>11. MoneyOnRecord'
    BY <1>1, <1>5 DEF MoneyOnRecord, Recorded
  <1>12. \A u \in Submit : u > run.s => book[u].st = "unsent"
    BY <1>2 DEF BookSpeaks, Submit
  <1>13. ~Blur'
    BY DEF Record
  <1>14. /\ \A f \in facts : f.what \in {"placed", "rejected"} /\ f.at >= run.created => f.of = run.s
         /\ run.kind = "buy" =>
              \A f \in fills : Correlates(f, journal') /\ f.id \notin run.got => f.id = run.s
    BY <1>3, <1>4, <1>5, <1>13 DEF Blur, Pending, Correlates
  <1>15. \A f \in facts : f.what \in {"placed", "rejected"} => ~(f.at >= run.created)
    BY <1>2, <1>14 DEF BookSpeaks, Accepted
  <1>16. OnRecord(journal)'
    BY <1>2, <1>4, <1>5, <1>12, <1>14, <1>15 DEF OnRecord, Mine, Correlates
  <1>17. CommandOK(run, journal)'
    BY <1>2, <1>3, <1>4, <1>5 DEF CommandOK
  <1>18. QED
    BY <1>7, <1>8, <1>9, <1>10, <1>11, <1>16, <1>17

LEMMA AwaitKeeps ==
  ASSUME SubmitInv, Await
  PROVE  SubmitInv'
  <1>1. /\ run.pc = "await" /\ run \in RunType /\ CommandOK(run, journal)
        /\ Pending /\ journal.kind = "buy"
        /\ UNCHANGED <<chainVars, journal, subs, pool, told, owed>>
    BY InCommand, InRecord DEF Await, Steps, CommandOK, ChainUnchanged
  <1>2. CASE run' = Idle
    BY <1>1, <1>2, Returns
  <1>3. ASSUME NEW f \in NewFills(journal), Correlates(f, journal),
               run' = [run EXCEPT !.pc = "resolve", !.got = {f.id}]
        PROVE  SubmitInv'
    <2>1. f.id = journal.s /\ book[journal.s].st = "filled" /\ AllReadable
      BY <1>1, <1>3, OwnFills
    <2>2. journal.s \in Submit
      BY <1>1 DEF SubmitInv, TypeOK, Pending, JournalType
    <2>3. run' \in RunType /\ run'.pc = "resolve" /\ run'.got = {journal.s}
          /\ run'.terms = run.terms /\ run'.kind = run.kind
      BY <1>1, <1>3, <2>1, <2>2 DEF RunType, Steps
    <2>4. CommandOK(run, journal)'
      BY <1>1, <2>1, <2>3, ChainStands DEF CommandOK, Pending
    <2>5. QED
      BY <1>1, <2>3, <2>4, RunMoves DEF GoesOn, SubmitInv, TypeOK
  <1>4. QED
    BY <1>2, <1>3 DEF Await, Exits

LEMMA PollKeeps ==
  ASSUME SubmitInv, Poll
  PROVE  SubmitInv'
  <1>1. /\ run.pc = "poll" /\ run \in RunType /\ CommandOK(run, journal)
        /\ Pending /\ journal \in JournalType /\ journal.kind = "buy" /\ OnRecord(journal)
        /\ UNCHANGED <<chainVars, journal, subs, pool, told, owed>>
    BY InCommand, InRecord DEF Poll, Steps, CommandOK, ChainUnchanged
  <1>2. CASE run' = Idle
    BY <1>1, <1>2, Returns
  <1>3. CASE run' = [run EXCEPT !.pc = "facts"]
    <2>1. run' \in RunType /\ run'.pc = "facts" /\ run'.terms = run.terms /\ run'.kind = run.kind
      BY <1>1, <1>3 DEF RunType, Steps
    <2>2. CommandOK(run, journal)'
      BY <1>1, <2>1 DEF CommandOK, Pending
    <2>3. QED
      BY <1>1, <2>1, <2>2, RunMoves DEF GoesOn, SubmitInv, TypeOK
  <1>4. ASSUME NEW got, got \subseteq {journal.s},
               got # {} => book[journal.s].st = "filled" /\ AllReadable,
               run' = [run EXCEPT !.pc = "resolve", !.got = got]
        PROVE  SubmitInv'
    <2>1. run' \in RunType /\ run'.pc = "resolve" /\ run'.got = got
          /\ run'.terms = run.terms /\ run'.kind = run.kind
      BY <1>1, <1>4 DEF RunType, Steps, JournalType
    <2>2. CommandOK(run, journal)'
      BY <1>1, <1>4, <2>1, ChainStands DEF CommandOK, Pending
    <2>3. QED
      BY <1>1, <2>1, <2>2, RunMoves DEF GoesOn, SubmitInv, TypeOK
  <1>5. /\ journal.resolved \subseteq {journal.s}
        /\ journal.resolved # {} => book[journal.s].st = "filled" /\ AllReadable
    BY <1>1 DEF OnRecord
  <1>6. QED
    BY <1>1, <1>2, <1>3, <1>4, <1>5, OwnMatches DEF Poll, Exits, Goes

LEMMA ResolveKeeps ==
  ASSUME SubmitInv, Resolve
  PROVE  SubmitInv'
  <1>1. /\ run.pc = "resolve" /\ run \in RunType /\ CommandOK(run, journal)
        /\ Pending /\ journal \in JournalType /\ OnRecord(journal)
        /\ UNCHANGED <<chainVars, subs, pool, told, owed>>
        /\ run' = [run EXCEPT !.pc = "pool"]
        /\ journal' = [journal EXCEPT !.resolved = run.got]
    BY InCommand, InRecord DEF Resolve, Steps, Goes, ChainUnchanged
  <1>2. run.got \subseteq {journal.s} /\ (run.got # {} => book[journal.s].st = "filled" /\ AllReadable)
        /\ journal.kind = "buy"
    BY <1>1 DEF CommandOK
  <1>3. /\ journal' \in JournalType /\ journal'.s = journal.s /\ journal'.kind = journal.kind
        /\ journal'.terms = journal.terms /\ journal'.created = journal.created
        /\ journal'.cursor = journal.cursor /\ journal'.oid = journal.oid
        /\ journal'.resolved = run.got
    BY <1>1, <1>2 DEF JournalType
  <1>4. run' \in RunType /\ run'.pc = "pool" /\ run'.got = run.got
        /\ run'.terms = run.terms /\ run'.kind = run.kind
    BY <1>1 DEF RunType, Steps
  <1>5. journal' # NoJournal
    BY <1>3 DEF JournalType, NoJournal, Submit
  <1>6. CommandOK(run, journal)'
    BY <1>1, <1>2, <1>3, <1>4, <1>5, ChainStands DEF CommandOK
  <1>7. journal.oid \in {0, journal.s}
    BY <1>1 DEF OnRecord
  <1>8. QED
    BY <1>1, <1>2, <1>3, <1>4, <1>6, <1>7, RecordNotes DEF GoesOn

LEMMA WritePoolKeeps ==
  ASSUME SubmitInv, WritePool
  PROVE  SubmitInv'
  <1>1. /\ run.pc = "pool" /\ run \in RunType /\ CommandOK(run, journal)
        /\ Pending /\ journal \in JournalType
        /\ UNCHANGED <<chainVars, journal, subs, told>> /\ pool' = pool \cup run.got
    BY InCommand, InRecord DEF WritePool, Steps, ChainUnchanged
  <1>2. run.got \subseteq {journal.s} /\ (run.got # {} => book[journal.s].st = "filled" /\ AllReadable)
        /\ journal.kind = "buy"
    BY <1>1 DEF CommandOK
  <1>3. Cardinality(run.got) = 1 => run.got = {journal.s}
    BY <1>2, FS_EmptySet
  <1>4. pool' \subseteq Submit /\ owed \subseteq pool /\ told \subseteq Submit
    BY <1>1 DEF SubmitInv, TypeOK, RunType
  <1>5. owed' \subseteq pool'
    BY <1>1, <1>3, <1>4 DEF WritePool
  <1>6. CASE run' = Idle
    BY <1>1, <1>4, <1>5, <1>6, RunMoves DEF GoesOn
  <1>7. CASE Cardinality(run.got) = 1 /\ run' = [run EXCEPT !.pc = "clear"]
    <2>1. run' \in RunType /\ run'.pc = "clear" /\ run'.terms = run.terms /\ run'.kind = run.kind
      BY <1>1, <1>7 DEF RunType, Steps
    <2>2. ReleasedOf(journal)'
      BY <1>1, <1>2, <1>3, <1>7, ChainStands DEF ReleasedOf
    <2>3. CommandOK(run, journal)'
      BY <1>1, <2>1, <2>2 DEF CommandOK, Pending
    <2>4. QED
      BY <1>1, <1>4, <1>5, <2>1, <2>3, RunMoves DEF GoesOn
  <1>8. QED
    BY <1>6, <1>7 DEF WritePool, Goes, Exits

\* A record with the order id found for it, before a step of the command to r.
LEMMA IdNoted ==
  ASSUME SubmitInv, Pending, UNCHANGED <<chainVars, subs, pool, told, owed>>,
         journal' = [journal EXCEPT !.oid = OrderId(journal)], GoesOn(run, journal)'
  PROVE  SubmitInv'
  <1>1. journal \in JournalType /\ OnRecord(journal)
    BY DEF SubmitInv, TypeOK, Pending
  <1>2. OrderId(journal) \in {0, journal.s} /\ OrderId(journal) \in Nat
    BY <1>1, OwnOrderId DEF JournalType, Submit
  <1>3. /\ journal' \in JournalType /\ journal'.s = journal.s /\ journal'.kind = journal.kind
        /\ journal'.terms = journal.terms /\ journal'.created = journal.created
        /\ journal'.cursor = journal.cursor /\ journal'.oid = OrderId(journal)
        /\ journal'.resolved = journal.resolved
    BY <1>1, <1>2 DEF JournalType
  <1>4. QED
    BY <1>1, <1>2, <1>3, RecordNotes DEF OnRecord

LEMMA ReadFactsKeeps ==
  ASSUME SubmitInv, ReadFacts
  PROVE  SubmitInv'
  <1>1. /\ run.pc = "facts" /\ run \in RunType /\ CommandOK(run, journal)
        /\ Pending /\ journal \in JournalType
        /\ UNCHANGED <<chainVars, subs, pool, told, owed>>
        /\ journal' = [journal EXCEPT !.oid = OrderId(journal)]
    BY InCommand, InRecord DEF ReadFacts, Steps, ChainUnchanged
  <1>2. CASE run' = Idle
    BY <1>1, <1>2, IdNoted DEF GoesOn
  <1>3. CASE Closes(Standing(journal)) /\ run' = [run EXCEPT !.pc = "clear"]
    <2>1. run' \in RunType /\ run'.pc = "clear" /\ run'.terms = run.terms /\ run'.kind = run.kind
      BY <1>1, <1>3 DEF RunType, Steps
    <2>2. journal'.s = journal.s /\ journal' # NoJournal
      BY <1>1 DEF JournalType, NoJournal, Submit
    <2>3. OverWith(journal)
      BY <1>1, <1>3, OwnStanding
    <2>4. ReleasedOf(journal)'
      BY <1>1, <2>2, <2>3, ChainStands DEF ReleasedOf, OverWith
    <2>5. CommandOK(run, journal)'
      BY <1>1, <2>1, <2>2, <2>4 DEF CommandOK
    <2>6. QED
      BY <1>1, <2>1, <2>5, IdNoted DEF GoesOn
  <1>4. QED
    BY <1>2, <1>3 DEF ReadFacts, Goes, Exits

LEMMA ClearKeeps ==
  ASSUME SubmitInv, Clear
  PROVE  SubmitInv'
  <1>1. /\ run.pc = "clear" /\ run \in RunType /\ CommandOK(run, journal) /\ Pending
        /\ UNCHANGED <<chainVars, subs, pool, told, owed>> /\ journal' = NoJournal
    BY InCommand, InRecord DEF Clear, Steps, ChainUnchanged
  <1>2. ReleasedOf(journal) /\ run.terms \in Terms(run.kind)
    BY <1>1 DEF CommandOK
  <1>3. CASE run' = Idle
    BY <1>1, <1>2, <1>3, RecordRemoved DEF GoesOn
  <1>4. CASE run' = [run EXCEPT !.pc = "prepare"]
    <2>1. run' \in RunType /\ run'.pc = "prepare" /\ run'.terms = run.terms /\ run'.kind = run.kind
      BY <1>1, <1>4 DEF RunType, Steps
    <2>2. CommandOK(run, journal)'
      BY <1>1, <1>2, <2>1 DEF CommandOK
    <2>3. QED
      BY <1>1, <1>2, <2>1, <2>2, RecordRemoved DEF GoesOn
  <1>5. QED
    BY <1>3, <1>4 DEF Clear, Goes, Exits

LEMMA JudgeKeeps ==
  ASSUME SubmitInv, Judge
  PROVE  SubmitInv'
  <1> DEFINE m == Matching(NewFills(journal), journal)
  <1>1. /\ run.pc = "judge" /\ run \in RunType /\ CommandOK(run, journal) /\ Pending
        /\ journal \in JournalType /\ journal.kind = "buy"
        /\ UNCHANGED <<chainVars, journal, pool, subs, owed>>
    BY InCommand, InRecord DEF Judge, Steps, ChainUnchanged, CommandOK
  <1>2. m \subseteq {journal.s} /\ (m # {} => book[journal.s].st = "filled" /\ AllReadable)
    BY <1>1, OwnMatches
  <1>3. \/ m = {} /\ run' = [run EXCEPT !.pc = "facts"] /\ told' = told
        \/ Cardinality(m) = 1 /\ run' = [run EXCEPT !.pc = "clear"] /\ told' = told \cup m
        \/ run' = Idle /\ told' = told
    BY DEF Judge, Goes, Exits
  <1> HIDE DEF m
  <1>4. CASE run' = Idle /\ told' = told
    BY <1>1, <1>4, Returns
  <1>5. CASE run' = [run EXCEPT !.pc = "facts"] /\ told' = told
    <2>1. run' \in RunType /\ run'.pc = "facts" /\ run'.terms = run.terms /\ run'.kind = run.kind
      BY <1>1, <1>5 DEF RunType, Steps
    <2>2. CommandOK(run, journal)'
      BY <1>1, <2>1 DEF CommandOK, Pending
    <2>3. QED
      BY <1>1, <1>5, <2>1, <2>2, RunMoves DEF GoesOn, SubmitInv, TypeOK
  <1>6. CASE Cardinality(m) = 1 /\ run' = [run EXCEPT !.pc = "clear"] /\ told' = told \cup m
    <2>1. run' \in RunType /\ run'.pc = "clear" /\ run'.terms = run.terms /\ run'.kind = run.kind
      BY <1>1, <1>6 DEF RunType, Steps
    <2>2. m = {journal.s}
      BY <1>2, <1>6, FS_EmptySet
    <2>3. ReleasedOf(journal)'
      BY <1>1, <1>2, <1>6, <2>2, ChainStands DEF ReleasedOf
    <2>4. CommandOK(run, journal)'
      BY <1>1, <2>1, <2>3 DEF CommandOK, Pending
    <2>5. told \subseteq told' /\ told' \subseteq Submit
      BY <1>1, <1>6, <2>2 DEF SubmitInv, TypeOK, JournalType
    <2>6. QED
      BY <1>1, <2>1, <2>4, <2>5, RunMoves DEF GoesOn, SubmitInv, TypeOK
  <1>7. QED
    BY <1>3, <1>4, <1>5, <1>6

LEMMA StandingType == ASSUME NEW j PROVE Standing(j) \in Standings
  BY DEF Standing, Standings

LEMMA StopFactsKeeps ==
  ASSUME SubmitInv, StopFacts
  PROVE  SubmitInv'
  <1>1. /\ run.pc \in {"stopfacts", "stopfacts2"} /\ run \in RunType /\ CommandOK(run, journal)
        /\ Pending /\ journal \in JournalType /\ journal.kind = "buy"
        /\ UNCHANGED <<chainVars, journal, pool, told, subs, owed>>
    BY InCommand, InRecord DEF StopFacts, Steps, ChainUnchanged, CommandOK
  <1>2. Closes(Standing(journal)) => OverWith(journal)
    BY <1>1, OwnStanding
  <1>3. CASE Closes(Standing(journal)) /\ run' = [run EXCEPT !.pc = "clear"]
    <2>1. run' \in RunType /\ run'.pc = "clear" /\ run'.terms = run.terms /\ run'.kind = run.kind
      BY <1>1, <1>3 DEF RunType, Steps
    <2>2. ReleasedOf(journal)'
      BY <1>1, <1>2, <1>3, ChainStands DEF ReleasedOf, OverWith
    <2>3. CommandOK(run, journal)'
      BY <1>1, <2>1, <2>2 DEF CommandOK, Pending
    <2>4. QED
      BY <1>1, <2>1, <2>3, RunMoves DEF GoesOn, SubmitInv, TypeOK
  <1>4. ASSUME NEW step \in {"stopfills", "stopfills2"},
               run' = [run EXCEPT !.standing = Standing(journal), !.pc = step]
        PROVE  SubmitInv'
    <2>1. run' \in RunType /\ run'.pc = step /\ run'.terms = run.terms /\ run'.kind = run.kind
          /\ run'.standing = Standing(journal)
      BY <1>1, <1>4, StandingType DEF RunType, Steps
    <2>2. Closes(Standing(journal)) => OverWith(journal)'
      BY <1>1, <1>2, ChainStands DEF OverWith
    <2>3. CommandOK(run, journal)'
      BY <1>1, <2>1, <2>2 DEF CommandOK, Pending
    <2>4. QED
      BY <1>1, <2>1, <2>3, RunMoves DEF GoesOn, SubmitInv, TypeOK
  <1>5. QED
    BY <1>1, <1>3, <1>4 DEF StopFacts, Goes

LEMMA StopFillsKeeps ==
  ASSUME SubmitInv, StopFills
  PROVE  SubmitInv'
  <1> DEFINE m == Matching(NewFills(journal), journal)
  <1>1. /\ run.pc \in {"stopfills", "stopfills2"} /\ run \in RunType /\ CommandOK(run, journal)
        /\ Pending /\ journal \in JournalType /\ journal.kind = "buy"
        /\ UNCHANGED <<chainVars, pool, told, subs, owed>>
    BY InCommand, InRecord DEF StopFills, Steps, ChainUnchanged, CommandOK
  <1>2. m \subseteq {journal.s} /\ (m # {} => book[journal.s].st = "filled" /\ AllReadable)
    BY <1>1, OwnMatches
  <1>3. \/ run' = [run EXCEPT !.pc = "resolve", !.got = m] /\ journal' = journal
        \/ run' = Idle /\ journal' = journal
        \/ /\ journal' = [journal EXCEPT !.oid = OrderId(journal)]
           /\ run' = [run EXCEPT !.pc = "stopfacts2"]
        \/ /\ run.pc = "stopfills2" /\ Closes(run.standing)
           /\ run' = [run EXCEPT !.pc = "clear"] /\ journal' = journal
    BY DEF StopFills, Goes, Exits
  <1> HIDE DEF m
  <1>4. CASE run' = Idle /\ journal' = journal
    BY <1>1, <1>4, Returns
  <1>5. CASE run' = [run EXCEPT !.pc = "resolve", !.got = m] /\ journal' = journal
    <2>1. run' \in RunType /\ run'.pc = "resolve" /\ run'.got = m
          /\ run'.terms = run.terms /\ run'.kind = run.kind
      BY <1>1, <1>2, <1>5 DEF RunType, Steps, JournalType
    <2>2. CommandOK(run, journal)'
      BY <1>1, <1>2, <1>5, <2>1, ChainStands DEF CommandOK, Pending
    <2>3. QED
      BY <1>1, <1>5, <2>1, <2>2, RunMoves DEF GoesOn, SubmitInv, TypeOK
  <1>6. CASE /\ journal' = [journal EXCEPT !.oid = OrderId(journal)]
             /\ run' = [run EXCEPT !.pc = "stopfacts2"]
    <2>1. run' \in RunType /\ run'.pc = "stopfacts2" /\ run'.terms = run.terms /\ run'.kind = run.kind
      BY <1>1, <1>6 DEF RunType, Steps
    <2>2. journal'.s = journal.s /\ journal'.kind = "buy" /\ journal' # NoJournal
      BY <1>1, <1>6 DEF JournalType, NoJournal, Submit
    <2>3. CommandOK(run, journal)'
      BY <1>1, <2>1, <2>2 DEF CommandOK
    <2>4. QED
      BY <1>1, <1>6, <2>1, <2>3, IdNoted DEF GoesOn
  <1>7. CASE /\ run.pc = "stopfills2" /\ Closes(run.standing)
             /\ run' = [run EXCEPT !.pc = "clear"] /\ journal' = journal
    <2>1. run' \in RunType /\ run'.pc = "clear" /\ run'.terms = run.terms /\ run'.kind = run.kind
      BY <1>1, <1>7 DEF RunType, Steps
    <2>2. OverWith(journal)
      BY <1>1, <1>7 DEF CommandOK
    <2>3. ReleasedOf(journal)'
      BY <1>1, <1>7, <2>2, ChainStands DEF ReleasedOf, OverWith
    <2>4. CommandOK(run, journal)'
      BY <1>1, <1>7, <2>1, <2>3 DEF CommandOK, Pending
    <2>5. QED
      BY <1>1, <1>7, <2>1, <2>4, RunMoves DEF GoesOn, SubmitInv, TypeOK
  <1>8. QED
    BY <1>3, <1>4, <1>5, <1>6, <1>7

\* A step of a subscription's own record.
LEMMA SubsMove ==
  ASSUME SubmitInv, UNCHANGED <<chainVars, journal, pool, told, owed>>,
         GoesOn(run, journal)', TypeOK', SubsFollow',
         \A s \in Submit : book[s].st = "resting" /\ subs[s] = "resting" => subs'[s] = "resting",
         \A s \in Submit : book[s].st = "filled" /\ subs[s] # "none" => subs'[s] \in {"resting", "matched"}
  PROVE  SubmitInv'
  <1> USE DEF SubmitInv, chainVars
  <1>1. BookSpeaks' /\ NewsIsRecorded'
    BY DEF BookSpeaks, NewsIsRecorded, Recorded, Pending, Readable
  <1>2. AllReadable' = AllReadable
    BY DEF AllReadable, Readable
  <1>3. MoneyOnRecord'
    BY DEF MoneyOnRecord, Recorded, Pending
  <1>4. (Pending => OnRecord(journal))'
    BY <1>2 DEF Pending, OnRecord
  <1>5. (run # Idle => CommandOK(run, journal))'
    BY DEF GoesOn
  <1>6. QED
    BY <1>1, <1>3, <1>4, <1>5

LEMMA SubPlacedKeeps ==
  ASSUME SubmitInv, SubPlaced
  PROVE  SubmitInv'
  <1>1. /\ run.pc = "subplaced" /\ run \in RunType /\ CommandOK(run, journal)
        /\ Pending /\ journal \in JournalType /\ journal.kind = "sub"
        /\ UNCHANGED <<chainVars, journal, pool, told, owed>>
        /\ run' = [run EXCEPT !.pc = "subactive"]
    BY InCommand, InRecord DEF SubPlaced, Steps, ChainUnchanged, CommandOK, Goes
  <1>2. PICK f \in OwnPlacement(journal) :
          subs' = [subs EXCEPT ![f.id] = IF Matched(f.id) THEN "matched"
                                         ELSE IF @ = "none" THEN "resting" ELSE @]
    BY DEF SubPlaced
  <1>3. /\ f.id = journal.s /\ AllReadable /\ journal.s \in Submit
        /\ book[journal.s].kind = "sub" /\ book[journal.s].st \in Accepted
    BY <1>1, OwnPlacementIsOwn DEF JournalType
  <1>4. Matched(journal.s) => book[journal.s].st = "filled"
    BY DEF Matched, SubmitInv, BookSpeaks
  <1>5. /\ subs' \in [Submit -> {"none", "resting", "matched", "terminal"}]
        /\ \A s \in Submit \ {journal.s} : subs'[s] = subs[s]
        /\ subs'[journal.s] = IF Matched(journal.s) THEN "matched"
                              ELSE IF subs[journal.s] = "none" THEN "resting" ELSE subs[journal.s]
    BY <1>2, <1>3 DEF SubmitInv, TypeOK
  <1>6. run' \in RunType /\ run'.pc = "subactive" /\ run'.terms = run.terms /\ run'.kind = run.kind
    BY <1>1 DEF RunType, Steps
  <1>7. CommandOK(run, journal)'
    BY <1>1, <1>3, <1>5, <1>6, ChainStands DEF CommandOK, Pending
  <1>8. TypeOK'
    BY <1>1, <1>5, <1>6, ChainStands DEF SubmitInv, TypeOK
  <1>9. SubsFollow'
    BY <1>1, <1>3, <1>4, <1>5, ChainStands DEF SubmitInv, SubsFollow
  <1>10. \A s \in Submit : book[s].st = "resting" /\ subs[s] = "resting" => subs'[s] = "resting"
    BY <1>3, <1>4, <1>5
  <1>11. \A s \in Submit : book[s].st = "filled" /\ subs[s] # "none" => subs'[s] \in {"resting", "matched"}
    BY <1>3, <1>5 DEF SubmitInv, SubsFollow, TypeOK
  <1>12. QED
    BY <1>1, <1>6, <1>7, <1>8, <1>9, <1>10, <1>11, SubsMove DEF GoesOn

LEMMA SubActiveKeeps ==
  ASSUME SubmitInv, SubActive
  PROVE  SubmitInv'
  <1>1. /\ run.pc = "subactive" /\ run \in RunType /\ CommandOK(run, journal)
        /\ Pending /\ journal \in JournalType /\ journal.kind = "sub"
        /\ subs[journal.s] # "none" /\ AllReadable
        /\ UNCHANGED <<chainVars, journal, pool, told, subs, owed>>
    BY InCommand, InRecord DEF SubActive, Steps, ChainUnchanged, CommandOK
  <1>2. CASE run' = Idle
    BY <1>1, <1>2, Returns
  <1>3. CASE /\ (book[journal.s].st = "resting") # (subs[journal.s] = "matched")
             /\ run' = [run EXCEPT !.pc = "clear"]
    <2>1. run' \in RunType /\ run'.pc = "clear" /\ run'.terms = run.terms /\ run'.kind = run.kind
      BY <1>1, <1>3 DEF RunType, Steps
    <2>2. subs[journal.s] \in {"resting", "matched"}
      BY <1>1, <1>3 DEF SubmitInv, SubsFollow, TypeOK, JournalType
    <2>3. ReleasedOf(journal)'
      BY <1>1, <2>2, ChainStands DEF ReleasedOf
    <2>4. CommandOK(run, journal)'
      BY <1>1, <2>1, <2>3 DEF CommandOK, Pending
    <2>5. QED
      BY <1>1, <2>1, <2>4, RunMoves DEF GoesOn, SubmitInv, TypeOK
  <1>4. QED
    BY <1>2, <1>3 DEF SubActive, Goes, Exits

LEMMA SubStatusKeeps ==
  ASSUME SubmitInv, NEW s \in Submit, SubStatus(s) \/ SubCancelled(s)
  PROVE  SubmitInv'
  <1>1. /\ run = Idle /\ run' = run /\ subs[s] = "resting"
        /\ UNCHANGED <<chainVars, journal, pool, told, owed>>
    BY DEF SubStatus, SubCancelled, ChainUnchanged
  <1>2. PICK st \in {"matched", "terminal"} :
          /\ subs' = [subs EXCEPT ![s] = st]
          /\ book[s].st = IF st = "matched" THEN "filled" ELSE "cancelled"
    BY DEF SubStatus, SubCancelled, Matched, Announced, Read, SubmitInv, BookSpeaks
  <1>3. /\ subs' \in [Submit -> {"none", "resting", "matched", "terminal"}]
        /\ \A u \in Submit \ {s} : subs'[u] = subs[u]
        /\ subs'[s] = st
    BY <1>2 DEF SubmitInv, TypeOK
  <1>4. TypeOK'
    BY <1>1, <1>3, ChainStands DEF SubmitInv, TypeOK
  <1>5. SubsFollow'
    BY <1>1, <1>2, <1>3, ChainStands DEF SubmitInv, SubsFollow, Accepted
  <1>6. \A u \in Submit : book[u].st = "resting" /\ subs[u] = "resting" => subs'[u] = "resting"
    BY <1>2, <1>3
  <1>7. \A u \in Submit : book[u].st = "filled" /\ subs[u] # "none" => subs'[u] \in {"resting", "matched"}
    BY <1>2, <1>3 DEF SubmitInv, SubsFollow, TypeOK
  <1>8. QED
    BY <1>1, <1>4, <1>5, <1>6, <1>7, SubsMove DEF GoesOn

LEMMA AdoptKeeps ==
  ASSUME SubmitInv, NEW s \in Submit, Adopt(s)
  PROVE  SubmitInv'
  <1>1. /\ run = Idle /\ run' = run /\ s \in owed /\ s \in pool /\ owed' = owed \ {s}
        /\ UNCHANGED <<chainVars, subs, pool, told>>
    BY DEF Adopt, ChainUnchanged, SubmitInv
  <1>2. CASE journal' = journal
    BY <1>1, <1>2, RunMoves DEF GoesOn, SubmitInv, TypeOK
  <1>3. CASE Pending /\ journal.s = s /\ journal.resolved # {} /\ journal' = NoJournal
    <2>1. ReleasedOf(journal)
      BY <1>1, <1>3 DEF SubmitInv, OnRecord, ReleasedOf
    <2>2. QED
      BY <1>1, <1>3, <2>1, RecordRemoved DEF GoesOn
  <1>4. QED
    BY <1>2, <1>3 DEF Adopt

LEMMA CrashKeeps ==
  ASSUME SubmitInv, Crash
  PROVE  SubmitInv'
  BY RunMoves DEF Crash, GoesOn, SubmitInv, TypeOK
-----------------------------------------------------------------------------
(***************************************************************************)
(* Steps of the chain, and the POST.                                       *)
(***************************************************************************)
\* One order changes its state.
LEMMA BecomesOne ==
  ASSUME SubmitInv, NEW s \in Submit, NEW st \in States, Becomes(s, st)
  PROVE  /\ book' \in [Submit -> [st : States, kind : Kinds, terms : AnyTerms]]
         /\ book'[s].st = st
         /\ \A u \in Submit : book'[u].kind = book[u].kind /\ book'[u].terms = book[u].terms
         /\ \A u \in Submit \ {s} : book'[u].st = book[u].st
  BY DEF Becomes, SubmitInv, TypeOK

\* An order in flight is the one on record.
LEMMA FlightRecorded ==
  ASSUME SubmitInv, NEW s \in Submit, book[s].st = "flight"
  PROVE  Pending /\ journal.s = s /\ journal \in JournalType /\ OnRecord(journal)
  BY DEF SubmitInv, MoneyOnRecord, Recorded, Pending, TypeOK

\* The command that runs while its order is in flight has nothing in hand.
LEMMA FlightCommand ==
  ASSUME SubmitInv, NEW s \in Submit, book[s].st = "flight", run # Idle
  PROVE  /\ run.pc \notin {"prepare", "record", "post", "subactive", "clear"}
         /\ run.pc \in {"resolve", "pool"} => run.got = {}
         /\ run.pc = "stopfills2" => ~Closes(run.standing)
  <1>1. Pending /\ journal.s = s /\ CommandOK(run, journal)
    BY FlightRecorded DEF SubmitInv
  <1>2. subs[s] = "none"
    BY DEF SubmitInv, SubsFollow, Accepted
  <1>3. QED
    BY <1>1, <1>2 DEF CommandOK, Pending, OverWith, ReleasedOf

LEMMA LandKeeps ==
  ASSUME SubmitInv, NEW s \in Submit, Land(s)
  PROVE  SubmitInv'
  <1> USE DEF SubmitInv
  <1>1. /\ book[s].st = "flight" /\ now' = now /\ fills' = fills
        /\ UNCHANGED <<lock, journal, pool, told, subs, owed, run>>
    BY DEF Land, Quietly, ClientUnchanged
  <1>2. PICK end \in {"resting", "rejected"} :
          /\ Becomes(s, end)
          /\ facts' = facts \cup {Fact(IF end = "resting" THEN "placed" ELSE "rejected", s)}
    BY DEF Land
  <1> DEFINE nf == Fact(IF end = "resting" THEN "placed" ELSE "rejected", s)
  <1>3. /\ nf.what = IF end = "resting" THEN "placed" ELSE "rejected"
        /\ nf.id = IF end = "resting" THEN s ELSE 0
        /\ nf.of = s /\ nf.kind = book[s].kind /\ nf.terms = book[s].terms /\ nf.at = now
        /\ nf \in FactType
    BY DEF Fact, FactType, TypeOK, Submit
  <1>4. facts' = facts \cup {nf}
    BY <1>2
  <1> HIDE DEF nf
  <1>5. /\ book' \in [Submit -> [st : States, kind : Kinds, terms : AnyTerms]]
        /\ book'[s].st = end
        /\ \A u \in Submit : book'[u].kind = book[u].kind /\ book'[u].terms = book[u].terms
        /\ \A u \in Submit \ {s} : book'[u].st = book[u].st
    BY <1>2, BecomesOne DEF States
  <1>6. Pending /\ journal.s = s /\ journal \in JournalType /\ OnRecord(journal)
    BY <1>1, FlightRecorded
  <1>7. /\ \A f \in facts : f.id # s /\ f.at \in Nat /\ f.at <= now /\ f.of \in Submit
        /\ \A f \in facts : f.what = "rejected" => f.of # s
        /\ \A f \in fills : f.id # s /\ f.at \in Nat /\ f.at <= now /\ f.id \in Submit
        /\ now \in Nat /\ s # 0
    BY <1>1 DEF BookSpeaks, Accepted, TypeOK, FactType, FillType, Submit
  <1>8. TypeOK'
    BY <1>1, <1>3, <1>4, <1>5 DEF TypeOK
  <1>9. BookSpeaks'
    <2>1. \A u \in Submit : book'[u].st = "unsent" <=> book[u].st = "unsent"
      BY <1>1, <1>5
    <2>2. (\A u \in Submit : book[u].st # "unsent" => book[u].terms \in Terms(book[u].kind))'
      BY <1>5, <2>1 DEF BookSpeaks
    <2>3. (\A u, v \in Submit : book[u].st = "unsent" /\ u < v => book[v].st = "unsent")'
      BY <2>1 DEF BookSpeaks
    <2>4. (\A f \in facts :
             /\ f.at <= now
             /\ f.what = "placed" => /\ f.of = f.id /\ f.id \in Submit /\ book[f.id].st \in Accepted
                                     /\ f.kind = book[f.id].kind /\ f.terms = book[f.id].terms
             /\ f.what = "rejected" => f.id = 0 /\ book[f.of].st = "rejected"
             /\ f.what = "cancelled" => f.id \in Submit /\ book[f.id].st = "cancelled"
             /\ f.what = "expired" => f.id \in Submit /\ book[f.id].st = "swept"
             /\ f.what = "refunded" => f.id \in Submit /\ book[f.id].st \in {"swept", "lapsed"})'
      BY <1>1, <1>3, <1>4, <1>5, <1>7 DEF BookSpeaks, Accepted
    <2>5. (\A f \in fills : f.at <= now /\ book[f.id].st = "filled")'
      BY <1>1, <1>5, <1>7 DEF BookSpeaks
    <2>6. (\A f \in facts : f.what = "placed" =>
             /\ \A g \in facts : g.id = f.id => f.at <= g.at
             /\ \A g \in fills : g.id = f.id => f.at <= g.at)'
      <3>1. ASSUME NEW f \in facts, f.what = "placed", NEW g \in facts', g.id = f.id
            PROVE  f.at <= g.at
        BY <1>3, <1>4, <1>7, <3>1 DEF BookSpeaks
      <3>2. ASSUME NEW g \in facts', g.id = s
            PROVE  now <= g.at
        BY <1>3, <1>4, <1>7, <3>2
      <3>3. QED
        BY <1>1, <1>3, <1>4, <1>7, <3>1, <3>2 DEF BookSpeaks
    <2>7. (\A f, g \in fills : f.id = g.id => f.at = g.at)'
      BY <1>1 DEF BookSpeaks
    <2>8. (\A f, g \in facts : f.what = "rejected" /\ g.what = "rejected" /\ f.of = g.of => f.at = g.at)'
      BY <1>3, <1>4, <1>7 DEF BookSpeaks
    <2>9. QED
      BY <2>2, <2>3, <2>4, <2>5, <2>6, <2>7, <2>8 DEF BookSpeaks
  <1>10. NewsIsRecorded'
    <2>1. Pending' /\ journal' = journal
      BY <1>1, <1>6 DEF Pending
    <2>2. QED
      BY <1>1, <1>3, <1>4, <1>5, <1>6, <1>7, <2>1 DEF NewsIsRecorded, Readable, Recorded
  <1>11. SubsFollow' /\ (owed \subseteq pool)'
    BY <1>1, <1>5 DEF SubsFollow, Accepted
  <1>12. MoneyOnRecord'
    BY <1>1, <1>5, <1>6 DEF MoneyOnRecord, Recorded, Pending
  <1>13. (Pending => OnRecord(journal))'
    <2>1. journal.resolved = {}
      BY <1>1, <1>6 DEF OnRecord
    <2>2. QED
      BY <1>1, <1>3, <1>4, <1>5, <1>6, <1>7, <2>1 DEF OnRecord, Mine, Correlates, JournalType
  <1>14. (run # Idle => CommandOK(run, journal))'
    <2>1. CASE run # Idle
      <3>1. /\ run.pc \notin {"prepare", "record", "post", "subactive", "clear"}
            /\ run.pc \in {"resolve", "pool"} => run.got = {}
            /\ run.pc = "stopfills2" => ~Closes(run.standing)
        BY <1>1, <2>1, FlightCommand
      <3>2. QED
        BY <1>1, <1>6, <2>1, <3>1 DEF CommandOK, Pending
    <2>2. QED
      BY <1>1, <2>1
  <1>15. QED
    BY <1>8, <1>9, <1>10, <1>11, <1>12, <1>13, <1>14

LEMMA LoseKeeps ==
  ASSUME SubmitInv, NEW s \in Submit, Lose(s)
  PROVE  SubmitInv'
  <1> USE DEF SubmitInv
  <1>1. /\ book[s].st = "flight" /\ UNCHANGED <<now, facts, fills>> /\ Becomes(s, "lost")
        /\ UNCHANGED <<lock, journal, pool, told, subs, owed, run>>
    BY DEF Lose, Quietly, ClientUnchanged
  <1>2. /\ book' \in [Submit -> [st : States, kind : Kinds, terms : AnyTerms]]
        /\ book'[s].st = "lost"
        /\ \A u \in Submit : book'[u].kind = book[u].kind /\ book'[u].terms = book[u].terms
        /\ \A u \in Submit \ {s} : book'[u].st = book[u].st
    BY <1>1, BecomesOne DEF States
  <1>3. Pending /\ journal.s = s /\ journal \in JournalType /\ OnRecord(journal)
    BY <1>1, FlightRecorded
  <1>4. /\ \A f \in fills : f.id \in Submit
        /\ \A f \in facts : f.of \in Submit
        /\ \A f \in facts : f.what = "rejected" => f.of # s
    BY <1>1 DEF TypeOK, FillType, FactType, BookSpeaks
  <1>5. TypeOK'
    BY <1>1, <1>2 DEF TypeOK
  <1>6. BookSpeaks'
    BY <1>1, <1>2, <1>4 DEF BookSpeaks, Accepted
  <1>7. NewsIsRecorded'
    BY <1>1, <1>2, <1>4 DEF NewsIsRecorded, Readable, Recorded, Pending
  <1>8. SubsFollow' /\ (owed \subseteq pool)'
    BY <1>1, <1>2 DEF SubsFollow, Accepted
  <1>9. MoneyOnRecord'
    BY <1>1, <1>2 DEF MoneyOnRecord, Recorded, Pending
  <1>10. (Pending => OnRecord(journal))'
    BY <1>1, <1>2, <1>3, <1>4 DEF OnRecord
  <1>11. (run # Idle => CommandOK(run, journal))'
    <2>1. CASE run # Idle
      <3>1. /\ run.pc \notin {"prepare", "record", "post", "subactive", "clear"}
            /\ run.pc \in {"resolve", "pool"} => run.got = {}
            /\ run.pc = "stopfills2" => ~Closes(run.standing)
        BY <1>1, <2>1, FlightCommand
      <3>2. QED
        BY <1>1, <1>3, <2>1, <3>1 DEF CommandOK, Pending
    <2>2. QED
      BY <1>1, <2>1
  <1>12. QED
    BY <1>5, <1>6, <1>7, <1>8, <1>9, <1>10, <1>11

\* An order at rest that is not on record is a subscription.
LEMMA RestingKind ==
  ASSUME SubmitInv, NEW s \in Submit, book[s].st = "resting"
  PROVE  /\ Recorded(s) \/ (book[s].kind = "sub" /\ subs[s] = "resting")
         /\ book[s].kind = "sub" => book[s].terms \in SubTerms
  BY DEF SubmitInv, MoneyOnRecord, SubsFollow, BookSpeaks, Terms

LEMMA FillKeeps ==
  ASSUME SubmitInv, NEW s \in Submit, Fill(s), ~blurred'
  PROVE  SubmitInv'
  <1> USE DEF SubmitInv
  <1>0. PICK p \in 1..book[s].terms.price :
          fills' = fills \cup {[id |-> s, ticks |-> book[s].terms.ticks, price |-> p, at |-> now]}
    BY DEF Fill
  <1> DEFINE nf == [id |-> s, ticks |-> book[s].terms.ticks, price |-> p, at |-> now]
  <1>1. /\ book[s].st = "resting" /\ UNCHANGED <<now, facts>> /\ Becomes(s, "filled")
        /\ fills' = fills \cup {nf}
        /\ UNCHANGED <<lock, journal, pool, told, subs, owed, run>>
    BY <1>0 DEF Fill, ClientUnchanged
  <1>2. nf.id = s /\ nf.at = now /\ nf \in FillType
    <2>1. book[s].terms \in [ticks : Nat, price : Nat] /\ now \in Nat
      BY SubmitAssumption DEF TypeOK, AnyTerms, NoTerms
    <2>2. QED
      BY <2>1 DEF FillType
  <1> HIDE DEF nf
  <1>3. /\ book' \in [Submit -> [st : States, kind : Kinds, terms : AnyTerms]]
        /\ book'[s].st = "filled"
        /\ \A u \in Submit : book'[u].kind = book[u].kind /\ book'[u].terms = book[u].terms
        /\ \A u \in Submit \ {s} : book'[u].st = book[u].st
    BY <1>1, BecomesOne DEF States
  <1>4. /\ \A f \in facts : f.at \in Nat /\ f.at <= now /\ f.of \in Submit
        /\ \A f \in fills : f.id # s /\ f.at \in Nat /\ f.at <= now /\ f.id \in Submit
        /\ now \in Nat
    BY <1>1 DEF BookSpeaks, TypeOK, FactType, FillType
  <1>5. Recorded(s) \/ (book[s].kind = "sub" /\ subs[s] = "resting")
    BY <1>1, RestingKind
  <1>6. ~Blur'
    BY DEF Fill
  <1>7. AllReadable /\ book[s].kind = "sub" => AllReadable'
    BY <1>1, <1>2, <1>3, <1>4 DEF AllReadable, Readable
  <1>8. Pending => journal \in JournalType /\ OnRecord(journal) /\ journal.s \in Submit
    BY DEF TypeOK, Pending, JournalType
  <1>9. TypeOK'
    BY <1>1, <1>2, <1>3 DEF TypeOK
  <1>10. BookSpeaks'
    <2>1. \A u \in Submit : book'[u].st = "unsent" <=> book[u].st = "unsent"
      BY <1>1, <1>3
    <2>2. (\A u \in Submit : book[u].st # "unsent" => book[u].terms \in Terms(book[u].kind))'
      BY <1>3, <2>1 DEF BookSpeaks
    <2>3. (\A u, v \in Submit : book[u].st = "unsent" /\ u < v => book[v].st = "unsent")'
      BY <2>1 DEF BookSpeaks
    <2>4. (\A f \in facts :
             /\ f.at <= now
             /\ f.what = "placed" => /\ f.of = f.id /\ f.id \in Submit /\ book[f.id].st \in Accepted
                                     /\ f.kind = book[f.id].kind /\ f.terms = book[f.id].terms
             /\ f.what = "rejected" => f.id = 0 /\ book[f.of].st = "rejected"
             /\ f.what = "cancelled" => f.id \in Submit /\ book[f.id].st = "cancelled"
             /\ f.what = "expired" => f.id \in Submit /\ book[f.id].st = "swept"
             /\ f.what = "refunded" => f.id \in Submit /\ book[f.id].st \in {"swept", "lapsed"})'
      BY <1>1, <1>3, <1>4 DEF BookSpeaks, Accepted
    <2>5. (\A f \in fills : f.at <= now /\ book[f.id].st = "filled")'
      BY <1>1, <1>2, <1>3, <1>4 DEF BookSpeaks
    <2>6. (\A f \in facts : f.what = "placed" =>
             /\ \A g \in facts : g.id = f.id => f.at <= g.at
             /\ \A g \in fills : g.id = f.id => f.at <= g.at)'
      BY <1>1, <1>2, <1>4 DEF BookSpeaks
    <2>7. (\A f, g \in fills : f.id = g.id => f.at = g.at)'
      BY <1>1, <1>2, <1>4 DEF BookSpeaks
    <2>8. (\A f, g \in facts : f.what = "rejected" /\ g.what = "rejected" /\ f.of = g.of => f.at = g.at)'
      BY <1>1 DEF BookSpeaks
    <2>9. QED
      BY <2>2, <2>3, <2>4, <2>5, <2>6, <2>7, <2>8 DEF BookSpeaks
  <1>11. NewsIsRecorded'
    BY <1>1, <1>2, <1>3, <1>4, <1>5 DEF NewsIsRecorded, Readable, Recorded, Pending, Mine
  <1>12. SubsFollow' /\ (owed \subseteq pool)'
    BY <1>1, <1>3 DEF SubsFollow, Accepted
  <1>13. MoneyOnRecord'
    BY <1>1, <1>3, <1>5 DEF MoneyOnRecord, Recorded, Pending
  <1>14. (Pending => OnRecord(journal))'
    <2>1. CASE Pending
      <3>1. journal.resolved # {} => AllReadable' /\ book'[journal.s].st = "filled"
        BY <1>1, <1>3, <1>5, <1>7, <1>8, <2>1 DEF OnRecord, Recorded
      <3>2. Pending' /\ journal' = journal
        BY <1>1, <2>1 DEF Pending
      <3>3. journal.kind = "buy" =>
              \A f \in fills' : Correlates(f, journal) /\ f.id \notin journal.cursor => f.id = journal.s
        BY <1>6, <3>2 DEF Blur, Correlates
      <3>4. \A u \in Submit : u > journal.s => book'[u].st = "unsent"
        BY <1>1, <1>3, <1>8, <2>1 DEF OnRecord
      <3>5. QED
        BY <1>1, <1>3, <1>8, <2>1, <3>1, <3>2, <3>3, <3>4 DEF OnRecord, Mine, Correlates
    <2>2. QED
      BY <1>1, <2>1 DEF Pending
  <1>15. (run # Idle => CommandOK(run, journal))'
    <2>1. CASE run # Idle
      <3>1. CommandOK(run, journal) /\ run \in RunType
        BY <2>1 DEF TypeOK
      <3>2. CASE ~Pending
        BY <1>1, <1>3, <3>1, <3>2 DEF CommandOK, Pending
      <3>3. CASE Pending /\ s # journal.s
        <4>1. book[s].kind = "sub" /\ (AllReadable => AllReadable') /\ book'[journal.s] = book[journal.s]
          BY <1>1, <1>5, <1>7, <1>8, <3>3 DEF Recorded, Becomes
        <4>2. run.pc = "post" => s # run.s
          BY <1>1, <3>1 DEF CommandOK
        <4>3. \A u \in Submit : book[u].st # "unsent" => book'[u].st # "unsent"
          BY <1>3
        <4>4. QED
          BY <1>1, <1>3, <1>8, <3>1, <3>3, <4>1, <4>2, <4>3
          DEF CommandOK, Pending, OverWith, ReleasedOf
      <3>4. CASE Pending /\ s = journal.s
        <4>1. book[s].kind = journal.kind
          BY <1>1, <1>8, <3>4 DEF OnRecord
        <4>2. run.pc \in {"resolve", "pool"} => run.got = {}
          BY <1>1, <3>1, <3>4 DEF CommandOK
        <4>3. run.pc = "subactive" => AllReadable'
          BY <1>7, <3>1, <4>1 DEF CommandOK
        <4>4. run.pc = "stopfills2" => ~Closes(run.standing)
          BY <1>1, <3>1, <3>4 DEF CommandOK, OverWith
        <4>5. run.pc = "clear" => ReleasedOf(journal)'
          BY <1>1, <1>3, <1>7, <3>1, <3>4, <4>1 DEF CommandOK, ReleasedOf
        <4>6. run.pc # "post" /\ run.pc # "record" /\ run.pc # "prepare"
          BY <1>1, <3>1, <3>4 DEF CommandOK, Pending
        <4>7. QED
          BY <1>1, <3>1, <3>4, <4>2, <4>3, <4>4, <4>5, <4>6 DEF CommandOK, Pending
      <3>5. QED
        BY <3>2, <3>3, <3>4
    <2>2. QED
      BY <1>1, <2>1
  <1>16. QED
    BY <1>9, <1>10, <1>11, <1>12, <1>13, <1>14, <1>15

\* An order leaves the book with its money: cancelled, swept or lapsed.
LEMMA LeavesKeeps ==
  ASSUME SubmitInv, NEW s \in Submit, Cancelled(s) \/ Swept(s) \/ Lapsed(s)
  PROVE  SubmitInv'
  <1> USE DEF SubmitInv
  <1>1. /\ book[s].st = "resting" /\ UNCHANGED <<now, fills>>
        /\ UNCHANGED <<lock, journal, pool, told, subs, owed, run>>
    BY DEF Cancelled, Swept, Lapsed, Quietly, ClientUnchanged
  <1>2. PICK st \in {"cancelled", "swept", "lapsed"}, news \in SUBSET FactType :
          /\ Becomes(s, st) /\ facts' = facts \cup news
          /\ \A f \in news : /\ f.id = s /\ f.at = now
                            /\ f.what \in IF st = "cancelled" THEN {"cancelled"}
                                         ELSE IF st = "swept" THEN {"expired", "refunded"}
                                         ELSE {"refunded"}
    <2>1. \A what \in {"cancelled", "expired", "refunded"} :
            /\ Fact(what, s) \in FactType /\ Fact(what, s).id = s /\ Fact(what, s).at = now
            /\ Fact(what, s).what = what
      BY DEF Fact, FactType, TypeOK, Submit
    <2>2. CASE Cancelled(s)
      <3>1. {Fact("cancelled", s)} \in SUBSET FactType
        BY <2>1
      <3>2. QED
        BY <2>1, <2>2, <3>1 DEF Cancelled
    <2>3. CASE Swept(s)
      <3>1. {Fact("expired", s), Fact("refunded", s)} \in SUBSET FactType
        BY <2>1
      <3>2. QED
        BY <2>1, <2>3, <3>1 DEF Swept
    <2>4. CASE Lapsed(s)
      <3>1. {Fact("refunded", s)} \in SUBSET FactType
        BY <2>1
      <3>2. QED
        BY <2>1, <2>4, <3>1 DEF Lapsed
    <2>5. QED
      BY <2>2, <2>3, <2>4
  <1>3. /\ book' \in [Submit -> [st : States, kind : Kinds, terms : AnyTerms]]
        /\ book'[s].st = st
        /\ \A u \in Submit : book'[u].kind = book[u].kind /\ book'[u].terms = book[u].terms
        /\ \A u \in Submit \ {s} : book'[u].st = book[u].st
    BY <1>2, BecomesOne DEF States
  <1>4. /\ \A f \in facts : f.at \in Nat /\ f.at <= now /\ f.of \in Submit
        /\ \A f \in facts : f.what = "rejected" => f.of # s
        /\ \A f \in fills : f.id # s /\ f.id \in Submit
        /\ now \in Nat
    BY <1>1 DEF BookSpeaks, TypeOK, FactType, FillType
  <1>5. \A f \in facts' : f.what \in {"placed", "rejected"} => f \in facts
    BY <1>2
  <1>6. AllReadable' = AllReadable
    BY <1>1, <1>2, <1>3, <1>4, <1>5 DEF AllReadable, Readable
  <1>7. Pending => journal \in JournalType /\ OnRecord(journal) /\ journal.s \in Submit
    BY DEF TypeOK, Pending, JournalType
  <1>8. TypeOK'
    BY <1>1, <1>2, <1>3 DEF TypeOK
  <1>9. BookSpeaks'
    <2>1. \A u \in Submit : book'[u].st = "unsent" <=> book[u].st = "unsent"
      BY <1>1, <1>3
    <2>2. (\A u \in Submit : book[u].st # "unsent" => book[u].terms \in Terms(book[u].kind))'
      BY <1>3, <2>1 DEF BookSpeaks
    <2>3. (\A u, v \in Submit : book[u].st = "unsent" /\ u < v => book[v].st = "unsent")'
      BY <2>1 DEF BookSpeaks
    <2>4. (\A f \in facts :
             /\ f.at <= now
             /\ f.what = "placed" => /\ f.of = f.id /\ f.id \in Submit /\ book[f.id].st \in Accepted
                                     /\ f.kind = book[f.id].kind /\ f.terms = book[f.id].terms
             /\ f.what = "rejected" => f.id = 0 /\ book[f.of].st = "rejected"
             /\ f.what = "cancelled" => f.id \in Submit /\ book[f.id].st = "cancelled"
             /\ f.what = "expired" => f.id \in Submit /\ book[f.id].st = "swept"
             /\ f.what = "refunded" => f.id \in Submit /\ book[f.id].st \in {"swept", "lapsed"})'
      BY <1>1, <1>2, <1>3, <1>4 DEF BookSpeaks, Accepted
    <2>5. (\A f \in fills : f.at <= now /\ book[f.id].st = "filled")'
      BY <1>1, <1>3, <1>4 DEF BookSpeaks
    <2>6. (\A f \in facts : f.what = "placed" =>
             /\ \A g \in facts : g.id = f.id => f.at <= g.at
             /\ \A g \in fills : g.id = f.id => f.at <= g.at)'
      BY <1>1, <1>2, <1>4, <1>5 DEF BookSpeaks
    <2>7. (\A f, g \in fills : f.id = g.id => f.at = g.at)'
      BY <1>1 DEF BookSpeaks
    <2>8. (\A f, g \in facts : f.what = "rejected" /\ g.what = "rejected" /\ f.of = g.of => f.at = g.at)'
      BY <1>5 DEF BookSpeaks
    <2>9. QED
      BY <2>2, <2>3, <2>4, <2>5, <2>6, <2>7, <2>8 DEF BookSpeaks
  <1>10. NewsIsRecorded'
    BY <1>1, <1>3, <1>4, <1>5 DEF NewsIsRecorded, Readable, Recorded, Pending, Mine
  <1>11. SubsFollow' /\ (owed \subseteq pool)'
    BY <1>1, <1>3 DEF SubsFollow, Accepted, TypeOK
  <1>12. MoneyOnRecord'
    BY <1>1, <1>3 DEF MoneyOnRecord, Recorded, Pending
  <1>13. (Pending => OnRecord(journal))'
    <2>1. CASE Pending
      <3>1. journal.resolved # {} => AllReadable' /\ book'[journal.s].st = "filled"
        BY <1>1, <1>3, <1>6, <1>7, <2>1 DEF OnRecord
      <3>2. \A u \in Submit : u > journal.s => book'[u].st = "unsent"
        BY <1>1, <1>3, <1>7, <2>1 DEF OnRecord
      <3>3. QED
        BY <1>1, <1>3, <1>5, <1>7, <2>1, <3>1, <3>2 DEF OnRecord, Mine, Correlates
    <2>2. QED
      BY <1>1, <2>1 DEF Pending
  <1>14. (run # Idle => CommandOK(run, journal))'
    <2>1. CASE run # Idle
      <3>1. CommandOK(run, journal) /\ run \in RunType
        BY <2>1 DEF TypeOK
      <3>2. CASE ~Pending
        BY <1>1, <1>3, <1>5, <3>1, <3>2 DEF CommandOK, Pending
      <3>3. CASE Pending /\ s # journal.s
        <4>1. book'[journal.s] = book[journal.s]
          BY <1>2, <1>7, <3>3 DEF Becomes, TypeOK
        <4>2. run.pc = "post" => s # run.s
          BY <1>1, <3>1 DEF CommandOK
        <4>3. \A u \in Submit : book[u].st # "unsent" => book'[u].st # "unsent"
          BY <1>3
        <4>4. QED
          BY <1>1, <1>3, <1>6, <1>7, <3>1, <3>3, <4>1, <4>2, <4>3
          DEF CommandOK, Pending, OverWith, ReleasedOf
      <3>4. CASE Pending /\ s = journal.s
        <4>1. run.pc \in {"resolve", "pool"} => run.got = {}
          BY <1>1, <3>1, <3>4 DEF CommandOK
        <4>2. run.pc = "stopfills2" => ~Closes(run.standing)
          BY <1>1, <3>1, <3>4 DEF CommandOK, OverWith
        <4>3. run.pc = "clear" => ReleasedOf(journal)'
          BY <1>1, <1>3, <1>6, <3>1, <3>4 DEF CommandOK, ReleasedOf
        <4>4. run.pc # "post" /\ run.pc # "record" /\ run.pc # "prepare"
          BY <1>1, <3>1, <3>4 DEF CommandOK, Pending
        <4>5. QED
          BY <1>1, <1>6, <3>1, <3>4, <4>1, <4>2, <4>3, <4>4 DEF CommandOK, Pending
      <3>5. QED
        BY <3>2, <3>3, <3>4
    <2>2. QED
      BY <1>1, <2>1
  <1>15. QED
    BY <1>8, <1>9, <1>10, <1>11, <1>12, <1>13, <1>14

LEMMA TickKeeps ==
  ASSUME SubmitInv, Tick
  PROVE  SubmitInv'
  <1> USE DEF SubmitInv
  <1>1. /\ now \in Nat /\ now' = now + 1 /\ UNCHANGED <<book, facts, fills>>
        /\ UNCHANGED <<lock, journal, pool, told, subs, owed, run>> /\ Lag \in Nat
    BY SubmitAssumption DEF Tick, Quietly, ClientUnchanged, TypeOK
  <1>2. /\ \A f \in facts : f.at \in Nat /\ (Readable(f) => Readable(f)')
        /\ \A f \in fills : f.at \in Nat /\ (Readable(f) => Readable(f)')
    BY <1>1 DEF TypeOK, FactType, FillType, Readable
  <1>3. AllReadable => AllReadable'
    BY <1>1, <1>2 DEF AllReadable
  <1>4. TypeOK'
    BY <1>1 DEF TypeOK
  <1>5. BookSpeaks'
    BY <1>1, <1>2 DEF BookSpeaks
  <1>6. NewsIsRecorded'
    BY <1>1, <1>2 DEF NewsIsRecorded, Recorded, Pending, Mine
  <1>7. SubsFollow' /\ (owed \subseteq pool)' /\ MoneyOnRecord'
    BY <1>1 DEF SubsFollow, MoneyOnRecord, Recorded, Pending
  <1>8. (Pending => OnRecord(journal))'
    BY <1>1, <1>3 DEF Pending, OnRecord, Mine, Correlates, TypeOK, JournalType
  <1>9. (run # Idle => CommandOK(run, journal))'
    <2>1. CASE run # Idle
      <3>1. CommandOK(run, journal)
        BY <2>1
      <3>2. QED
        BY <1>1, <1>3, <3>1 DEF CommandOK, OverWith, ReleasedOf
    <2>2. QED
      BY <1>1, <2>1
  <1>10. QED
    BY <1>4, <1>5, <1>6, <1>7, <1>8, <1>9

LEMMA PostKeeps ==
  ASSUME SubmitInv, Post
  PROVE  SubmitInv'
  <1> USE DEF SubmitInv
  <1>1. /\ run.pc = "post" /\ run \in RunType /\ CommandOK(run, journal) /\ Pending
        /\ journal \in JournalType /\ OnRecord(journal)
        /\ UNCHANGED <<now, facts, fills, journal, pool, told, subs, owed>>
    BY InCommand, InRecord DEF Post, Steps
  <1>2. /\ run.s = journal.s /\ run.s \in Submit /\ book[run.s].st = "unsent"
        /\ run.kind = journal.kind /\ run.terms = journal.terms /\ run.terms \in Terms(run.kind)
        /\ \A u \in Submit : u < run.s => book[u].st # "unsent"
    BY <1>1 DEF CommandOK, JournalType
  <1>3. PICK end \in {"flight", "lost", "refused"}, amb \in BOOLEAN :
          /\ book' = [book EXCEPT ![run.s] = [st |-> end, kind |-> run.kind, terms |-> run.terms]]
          /\ run' = [run EXCEPT !.amb = amb,
                       !.pc = IF end = "refused" THEN "clear"
                              ELSE IF run.kind = "buy" THEN "await" ELSE "subplaced"]
    BY DEF Post
  <1>4. /\ book' \in [Submit -> [st : States, kind : Kinds, terms : AnyTerms]]
        /\ book'[run.s].st = end /\ book'[run.s].kind = run.kind /\ book'[run.s].terms = run.terms
        /\ \A u \in Submit \ {run.s} : book'[u] = book[u]
    BY <1>1, <1>2, <1>3 DEF TypeOK, States, RunType
  <1>5. /\ run' \in RunType /\ run'.terms = run.terms /\ run'.kind = run.kind
        /\ run'.pc = IF end = "refused" THEN "clear"
                     ELSE IF run.kind = "buy" THEN "await" ELSE "subplaced"
    BY <1>1, <1>3 DEF RunType, Steps
  <1>6. /\ \A f \in facts : f.id # run.s
        /\ \A f \in facts : f.of \in Submit /\ (f.what = "rejected" => f.of # run.s)
        /\ \A f \in fills : f.id # run.s /\ f.id \in Submit
        /\ subs[run.s] = "none"
    <2>1. \A f \in facts : f.id # run.s
      BY <1>2 DEF BookSpeaks, TypeOK, FactType, Accepted, Submit
    <2>2. \A f \in fills : f.id # run.s /\ f.id \in Submit
      BY <1>2 DEF BookSpeaks, TypeOK, FillType
    <2>3. subs[run.s] = "none"
      BY <1>2 DEF SubsFollow, Accepted
    <2>4. \A f \in facts : f.of \in Submit /\ (f.what = "rejected" => f.of # run.s)
      BY <1>2 DEF BookSpeaks, TypeOK, FactType
    <2>5. QED
      BY <2>1, <2>2, <2>3, <2>4
  <1>7. AllReadable' = AllReadable
    BY <1>1, <1>4, <1>6 DEF AllReadable, Readable
  <1>8. TypeOK'
    BY <1>1, <1>4, <1>5 DEF TypeOK
  <1>9. BookSpeaks'
    <2>1. (\A u \in Submit : book[u].st # "unsent" => book[u].terms \in Terms(book[u].kind))'
      BY <1>2, <1>4 DEF BookSpeaks
    <2>2. (\A u, v \in Submit : book[u].st = "unsent" /\ u < v => book[v].st = "unsent")'
      BY <1>2, <1>4 DEF BookSpeaks
    <2>3. QED
      BY <1>1, <1>2, <1>4, <1>6, <2>1, <2>2 DEF BookSpeaks
  <1>10. NewsIsRecorded'
    BY <1>1, <1>4, <1>6 DEF NewsIsRecorded, Readable, Recorded, Pending
  <1>11. SubsFollow' /\ (owed \subseteq pool)'
    BY <1>1, <1>4, <1>6 DEF SubsFollow
  <1>12. MoneyOnRecord'
    BY <1>1, <1>2, <1>4 DEF MoneyOnRecord, Recorded, Pending
  <1>13. OnRecord(journal)'
    <2>1. \A f \in facts : f.what = "rejected" => ~Mine(f, journal)
      BY <1>1, <1>2 DEF OnRecord, BookSpeaks
    <2>2. \A u \in Submit : u > journal.s => book'[u].st = "unsent"
      BY <1>1, <1>2, <1>4 DEF OnRecord, Submit
    <2>3. journal.resolved = {}
      BY <1>1, <1>2 DEF OnRecord
    <2>4. QED
      BY <1>1, <1>2, <1>4, <1>6, <2>1, <2>2, <2>3 DEF OnRecord, Mine
  <1>14. CommandOK(run, journal)'
    <2>1. AllReadable
      <3>1. \A f \in facts : f.what = "rejected" => f.of # journal.s
        BY <1>2 DEF BookSpeaks
      <3>2. QED
        BY <1>2, <1>6, <3>1 DEF NewsIsRecorded, AllReadable, Recorded
    <2>2. end = "refused" => ReleasedOf(journal)'
      BY <1>1, <1>2, <1>4, <1>7, <2>1 DEF ReleasedOf
    <2>3. run.kind \in Kinds
      BY <1>1 DEF RunType
    <2>4. QED
      BY <1>1, <1>2, <1>5, <2>2, <2>3 DEF CommandOK, Pending, Kinds
  <1>15. QED
    BY <1>8, <1>9, <1>10, <1>11, <1>12, <1>13, <1>14
-----------------------------------------------------------------------------
(***************************************************************************)
(* The theorems.                                                           *)
(***************************************************************************)
LEMMA InitSubmit == Init => SubmitInv
  <1> SUFFICES ASSUME Init PROVE SubmitInv
    OBVIOUS
  <1>1. TypeOK
    BY DEF Init, TypeOK, States, Kinds, AnyTerms, Idle, NoJournal
  <1>2. BookSpeaks /\ NewsIsRecorded /\ SubsFollow /\ MoneyOnRecord
    BY DEF Init, BookSpeaks, NewsIsRecorded, SubsFollow, MoneyOnRecord
  <1>3. QED
    BY <1>1, <1>2 DEF Init, SubmitInv, Pending

LEMMA NextSubmit ==
  ASSUME SubmitInv, [Next]_vars, ~blurred'
  PROVE  SubmitInv'
  <1>1. CASE UNCHANGED vars
    <2>1. UNCHANGED <<chainVars, journal, subs, pool, told, owed, run>>
      BY <1>1 DEF vars, chainVars
    <2>2. AllReadable' = AllReadable
      BY <2>1, ChainStands
    <2>3. GoesOn(run, journal)'
      BY <2>1, <2>2, ChainStands DEF SubmitInv, TypeOK, GoesOn, CommandOK, OverWith, ReleasedOf
    <2>4. QED
      BY <2>1, <2>3, RunMoves DEF SubmitInv, TypeOK
  <1>2. CASE Start
    BY <1>2, StartKeeps
  <1>3. CASE Step
    <2>1. CASE PrepareFails
      BY <2>1, Returns DEF PrepareFails, Exits, ChainUnchanged
    <2>2. CASE GiveUp
      BY <2>2, Returns DEF GiveUp, Exits, ChainUnchanged
    <2>3. QED
      BY <1>3, <2>1, <2>2, PrepareKeeps, RecordKeeps, PostKeeps, AwaitKeeps, PollKeeps,
         ResolveKeeps, WritePoolKeeps, ReadFactsKeeps, ClearKeeps, JudgeKeeps, StopFactsKeeps,
         StopFillsKeeps, SubPlacedKeeps, SubActiveKeeps DEF Step
  <1>4. CASE Book
    BY <1>4, LandKeeps, LoseKeeps, FillKeeps, LeavesKeeps DEF Book
  <1>5. CASE Tick
    BY <1>5, TickKeeps
  <1>6. CASE Crash
    BY <1>6, CrashKeeps
  <1>7. CASE \E s \in Submit : SubStatus(s) \/ SubCancelled(s) \/ Adopt(s)
    BY <1>7, SubStatusKeeps, AdoptKeeps
  <1>8. QED
    BY <1>1, <1>2, <1>3, <1>4, <1>5, <1>6, <1>7 DEF Next

\* A blur does not go away.
LEMMA BlurStays ==
  ASSUME [Next]_vars, blurred
  PROVE  blurred'
  <1> USE DEF ChainUnchanged, Quietly
  <1>1. CASE UNCHANGED vars
    BY <1>1 DEF vars
  <1>2. CASE Start
    BY <1>2 DEF Start, BuyFresh, BuyAgain, FreeLock, ResumeBuy, ResumeSubscription, StartJournal,
                StartStop, StartSubscription
  <1>3. CASE Step
    BY <1>3 DEF Step, Prepare, PrepareFails, Record, Post, Await, GiveUp, Poll, Resolve,
                WritePool, ReadFacts, Clear, Judge, StopFacts, StopFills, SubPlaced, SubActive
  <1>4. CASE Book
    BY <1>4 DEF Book, Land, Lose, Fill, Cancelled, Swept, Lapsed
  <1>5. CASE Tick \/ Crash
    BY <1>5 DEF Tick, Crash
  <1>6. CASE \E s \in Submit : SubStatus(s) \/ SubCancelled(s) \/ Adopt(s)
    BY <1>6 DEF SubStatus, SubCancelled, Adopt
  <1>7. QED
    BY <1>1, <1>2, <1>3, <1>4, <1>5, <1>6 DEF Next

\* Every reachable state of the buyer's submissions, with any clock and any terms, as
\* long as no other order of the note could pass for the one on record: what the chain
\* said that cannot be read yet is about the order on record, and every command knows
\* at every step which order its reads were about.
THEOREM SubmitInvariant == Spec => [](~blurred => SubmitInv)
  <1>1. (~blurred => SubmitInv) /\ [Next]_vars => (~blurred => SubmitInv)'
    BY NextSubmit, BlurStays
  <1>2. QED
    BY <1>1, InitSubmit, PTL DEF Spec

\* Money that is out and not accounted for is on record, so no second submission
\* is made beside it (the submit journal of cli/buyer.rs).
THEOREM MoneyIsRecorded == Spec => []MoneyRecorded
  <1>1. (~blurred => SubmitInv) => MoneyRecorded
    BY DEF SubmitInv, MoneyRecorded
  <1>2. QED
    BY <1>1, SubmitInvariant, PTL

\* The order id and the deal the record names are those of its own order
\* (classify_buyer_submit_standing, persist_resolved_buyer_submits).
THEOREM RecordKnowsItsOwn == Spec => []RecordIsItsOwn
  <1>1. (~blurred => SubmitInv) => RecordIsItsOwn
    BY DEF SubmitInv, RecordIsItsOwn, OnRecord
  <1>2. QED
    BY <1>1, SubmitInvariant, PTL
=============================================================================
