-------------------------- MODULE UsageLedgerProofs --------------------------
(***************************************************************************)
(* What the usage history of a deal says (UsageLedger), for any number of  *)
(* concurrent requests, failed writes and restarts: the counters are       *)
(* exact, a complete history misses no call that produced output, and      *)
(* output that is owed a usage record keeps the deal shut and every        *)
(* automatic STOP unsent.                                                  *)
(***************************************************************************)
EXTENDS UsageLedger, FiniteSetTheorems, TLAPS

RowStates == {"none", "seen", "accepted"}
Places    == {"new", "started", "bind", "unbound", "armed", "verifying", "answering",
              "stopping", "finishing", "done"}
Outcomes  == {"none", "in_progress", "interrupted", "failed", "rejected", "cancelled",
              "bind", "succeeded"}
Entry     == [run : Nat, linked : BOOLEAN, outcome : Outcomes, finished : BOOLEAN,
              complete : BOOLEAN]
CallRows  == [Calls -> RowStates]
Handler   == [pc : Places, hist : BOOLEAN, usage : BOOLEAN, end : Outcomes]

TypeOK ==
  /\ req \in [Requests -> Entry]
  /\ rows \in [Requests -> CallRows]
  /\ h \in [Requests -> Handler]
  /\ life \in [run : Nat \ {0}, up : BOOLEAN]
  /\ flag \in BOOLEAN /\ owed \in BOOLEAN
  /\ gate \in {"open", "running", "passed"}
  /\ stop \in {"none", "checked", "sent"}
  /\ faults \in Nat
  /\ output \subseteq Requests \X Billed

\* The calls of r that produced output.
Outputs(r) == {c \in Billed : <<r, c>> \in output}

\* What holds of one request: q its row, u its calls, x its handler, o the
\* calls that produced output, l the process.  How far the handler has come
\* says what the history has of the request; paid work is recorded for bound
\* requests only; a probe that produced output and is not accepted has left a
\* trace that keeps the request from counting as complete.
Sound(q, u, x, o, l) ==
  /\ x.pc = "new" => q = NoRequest
  /\ x.pc \notin {"new", "done"} => l.up /\ q # NoRequest
  /\ q # NoRequest => q.run \in 1..l.run
  /\ q.finished => x.pc = "done"
  /\ x.pc \in {"started", "bind"} => ~q.linked
  /\ x.pc \in {"armed", "verifying", "answering", "stopping", "finishing"} => q.linked
  /\ ~q.linked \/ x.pc = "unbound" => o = {} /\ \A c \in Calls : u[c] = "none"
  /\ x.pc = "verifying" => u["verifyState"] # "accepted"
  /\ x.pc = "verifying" => ~x.hist \/ u["verifyState"] = "seen"
  /\ u["answerState"] # "none" => x.pc \in {"finishing", "done"}
  /\ u["answerState"] = "accepted" => u["answer"] = "accepted"
  /\ "verify" \in o =>
       \/ u["verify"] \in {"seen", "accepted"} \/ u["verifyState"] = "seen"
       \/ ~q.complete
       \/ ~q.finished /\ (~x.hist \/ x.pc = "done")

SoundAll == \A r \in Requests : Sound(req[r], rows[r], h[r], Outputs(r), life)

\* The probe runs in one request at a time and is not run again once it passed.
Probe ==
  /\ \A r \in Requests :
       /\ h[r].pc = "verifying" => gate = "running"
       /\ h[r].pc = "armed" /\ rows[r]["verifyState"] # "none" => gate = "passed"
  /\ \A r, s \in Requests : h[r].pc = "verifying" /\ h[s].pc = "verifying" => r = s

\* Something that no later step takes back marks the request as unresolved.
Marked(q, u, x) ==
  /\ q.linked
  /\ \/ ~q.complete
     \/ x.pc \in {"finishing", "done"} /\ (u["answerState"] = "seen" \/ u["verifyState"] = "seen")
     \/ ~q.finished /\ (x.pc = "done" \/ (x.pc = "finishing" /\ ~x.hist))
OwedMarked ==
  owed => \E r \in Requests :
            Marked(req[r], rows[r], h[r]) /\ (flag \/ ~life.up \/ req[r].run # life.run)

\* A STOP that passed the check is vetoed by the session's flag.
StopGuarded == stop = "checked" => life.up /\ (flag \/ ~owed)

Control == TypeOK /\ SoundAll /\ Probe /\ OwedMarked /\ StopGuarded

\* The counters are natural numbers and exact.
Counters ==
  totals \in [incomplete : Nat, charged : Nat, deal : Nat] /\ TotalsExact

LedgerInv == Control /\ Counters
-----------------------------------------------------------------------------
(***************************************************************************)
(* A step of one request.                                                  *)
(***************************************************************************)
\* The step gives request r the row q, the calls u and the handler x.
Moves(r, q, u, x) ==
  /\ req' = [req EXCEPT ![r] = q]
  /\ rows' = [rows EXCEPT ![r] = u]
  /\ h' = [h EXCEPT ![r] = x]

\* What such a step may do: to the marks of r, to the rest of the state, and to
\* the gate of the probe.
Marks(r, q, u, x) ==
  /\ Marked(req[r], rows[r], h[r]) => Marked(q, u, x) /\ q.run = req[r].run
  /\ flag' \in BOOLEAN /\ (flag => flag')
  /\ owed' \in BOOLEAN /\ (owed' # owed => owed' /\ flag' /\ Marked(q, u, x))
Frame(r) ==
  /\ life' = life /\ faults' \in Nat
  /\ stop' = stop \/ stop' = "none" \/ (stop' = "checked" /\ life.up /\ ~owed /\ ~owed')
  /\ output' \subseteq Requests \X Billed /\ \A s \in Requests \ {r} : Outputs(s)' = Outputs(s)
Gates(r, u, x) ==
  \/ /\ gate' = gate
     /\ x.pc = "verifying" => h[r].pc = "verifying"
     /\ x.pc = "armed" /\ u["verifyState"] # "none" => gate = "passed"
  \/ gate = "open" /\ gate' = "running" /\ x.pc = "verifying"
  \/ /\ h[r].pc = "verifying" /\ gate' \in {"open", "passed"} /\ x.pc # "verifying"
     /\ x.pc = "armed" => gate' = "passed"

Lawful(r, q, u, x) ==
  /\ q \in Entry /\ u \in CallRows /\ x \in Handler
  /\ Sound(q, u, x, Outputs(r)', life)
  /\ Marks(r, q, u, x) /\ Frame(r) /\ Gates(r, u, x)

\* A lawful step of one request keeps the invariant.
LEMMA RequestStep ==
  ASSUME Control, NEW r \in Requests, NEW q, NEW u, NEW x, Moves(r, q, u, x), Lawful(r, q, u, x)
  PROVE  Control'
  <1>1. /\ req'[r] = q /\ rows'[r] = u /\ h'[r] = x
        /\ \A s \in Requests \ {r} : req'[s] = req[s] /\ rows'[s] = rows[s] /\ h'[s] = h[s]
    BY DEF Control, TypeOK, Moves
  <1>2. TypeOK'
    BY DEF Control, TypeOK, Moves, Lawful, Marks, Frame, Gates
  <1>3. SoundAll'
    <2> SUFFICES ASSUME NEW s \in Requests
                 PROVE  Sound(req'[s], rows'[s], h'[s], Outputs(s)', life')
      BY DEF SoundAll
    <2>1. CASE s = r
      BY <1>1, <2>1 DEF Lawful, Marks, Frame, Gates
    <2>2. CASE s # r
      BY <1>1, <2>2 DEF Lawful, Marks, Frame, Gates, Control, SoundAll
    <2>3. QED
      BY <2>1, <2>2
  <1>4. Probe'
    BY <1>1 DEF Control, Probe, Lawful, Marks, Frame, Gates
  <1>5. OwedMarked'
    <2> SUFFICES ASSUME owed'
                 PROVE  \E s \in Requests :
                          Marked(req'[s], rows'[s], h'[s]) /\ (flag' \/ ~life'.up \/ req'[s].run # life'.run)
      BY DEF OwedMarked
    <2>1. CASE ~owed
      BY <1>1, <2>1 DEF Lawful, Marks, Frame, Gates
    <2>2. CASE owed
      <3>1. PICK s \in Requests :
              Marked(req[s], rows[s], h[s]) /\ (flag \/ ~life.up \/ req[s].run # life.run)
        BY <2>2 DEF Control, OwedMarked
      <3>2. CASE s = r
        BY <1>1, <3>1, <3>2 DEF Lawful, Marks, Frame, Gates
      <3>3. CASE s # r
        BY <1>1, <3>1, <3>3 DEF Lawful, Marks, Frame, Gates
      <3>4. QED
        BY <3>2, <3>3
    <2>3. QED
      BY <2>1, <2>2 DEF Control, TypeOK
  <1>6. StopGuarded'
    BY DEF Control, StopGuarded, Lawful, Marks, Frame, Gates, TypeOK
  <1>7. QED
    BY <1>2, <1>3, <1>4, <1>5, <1>6 DEF Control
-----------------------------------------------------------------------------
(***************************************************************************)
(* The steps of a request: for every outcome of an action, the row q, the  *)
(* calls u and the handler x it leaves, and that this is lawful.           *)
(***************************************************************************)
\* Recording a call leaves rows of the table.
LEMMA RecordedRows ==
  ASSUME NEW u \in CallRows, NEW call \in Calls, NEW accepted \in BOOLEAN
  PROVE  Recorded(u, call, accepted) \in CallRows
  BY DEF Recorded, CallRows, RowStates, Calls

\* A request gets its row, or is served without one.
LEMMA StartKeeps ==
  ASSUME Control, NEW r \in Requests, Start(r)
  PROVE  Control'
  <1>0. /\ req[r] \in Entry /\ rows[r] \in CallRows /\ h[r] \in Handler
        /\ life.run \in Nat \ {0} /\ life.up \in BOOLEAN /\ faults \in Nat
        /\ Sound(req[r], rows[r], h[r], Outputs(r), life)
    BY DEF Control, TypeOK, SoundAll
  <1>1. CASE Commit(r, [NoRequest EXCEPT !.run = life.run, !.outcome = "in_progress"], rows[r]) /\ Go(r, "started")
    <2> DEFINE q == [NoRequest EXCEPT !.run = life.run, !.outcome = "in_progress"]
               u == rows[r]
               x == [h[r] EXCEPT !.pc = "started"]
    <2>1. Moves(r, q, u, x)
      BY <1>0, <1>1 DEF Moves, Commit, Go, Control, TypeOK
    <2>2. q \in Entry /\ u \in CallRows /\ x \in Handler
      BY <1>0 DEF Entry, Handler, Places, Outcomes, NoRequest
    <2>3. Frame(r) /\ Outputs(r)' = Outputs(r)
      BY <1>1, LedgerAssumption DEF Start, Commit, Go, Frame, Aside, Refuses, Still, Outputs, Control, TypeOK
    <2>4. /\ q.run = life.run /\ q.linked = FALSE /\ q.outcome = "in_progress"
          /\ q.finished = FALSE /\ q.complete = TRUE /\ x.pc = "started"
          /\ x.hist = h[r].hist /\ x.usage = h[r].usage /\ x.end = h[r].end
      BY <1>0 DEF Entry, Handler, NoRequest
    <2> HIDE DEF q, u, x
    <2>6. Sound(q, u, x, Outputs(r), life)
      BY <1>0, <1>1, <2>2, <2>4 DEF Start, At, Sound, NoRequest, Calls, u
    <2>7. Marks(r, q, u, x)
      BY <1>0, <1>1, <2>4 DEF Start, At, Aside, Marks, Marked, Sound, NoRequest, Control, TypeOK, u
    <2>8. Gates(r, u, x)
      BY <1>0, <1>1, <2>4 DEF Start, At, Gates, Sound, Probe, Control, Calls, u
    <2>9. QED
      BY <2>1, <2>2, <2>3, <2>6, <2>7, <2>8, RequestStep DEF Lawful
  <1>2. CASE Lost /\ Go(r, "done")
    <2> DEFINE q == req[r]
               u == rows[r]
               x == [h[r] EXCEPT !.pc = "done"]
    <2>1. Moves(r, q, u, x)
      BY <1>0, <1>2 DEF Moves, Lost, Go, Control, TypeOK
    <2>2. q \in Entry /\ u \in CallRows /\ x \in Handler
      BY <1>0 DEF Entry, Handler, Places, Outcomes, NoRequest
    <2>3. Frame(r) /\ Outputs(r)' = Outputs(r)
      BY <1>2, LedgerAssumption DEF Start, Lost, Go, Frame, Aside, Refuses, Still, Outputs, Control, TypeOK
    <2>4. /\ x.pc = "done" /\ x.hist = h[r].hist /\ x.usage = h[r].usage
          /\ x.end = h[r].end
      BY <1>0 DEF Entry, Handler, NoRequest
    <2> HIDE DEF q, u, x
    <2>6. Sound(q, u, x, Outputs(r), life)
      BY <1>0, <1>2, <2>2, <2>4 DEF Start, At, Sound, NoRequest, Calls, u, q
    <2>7. Marks(r, q, u, x)
      BY <1>0, <1>2, <2>4 DEF Start, At, Aside, Marks, Marked, Sound, NoRequest, Control, TypeOK, u, q
    <2>8. Gates(r, u, x)
      BY <1>0, <1>2, <2>4 DEF Start, At, Gates, Sound, Probe, Control, Calls, u
    <2>9. QED
      BY <2>1, <2>2, <2>3, <2>6, <2>7, <2>8, RequestStep DEF Lawful
  <1>3. QED
    BY <1>1, <1>2 DEF Start, Commit, Lost, Go

\* Binding, complete, failed, or half done.
LEMMA BindKeeps ==
  ASSUME Control, NEW r \in Requests, Bind(r)
  PROVE  Control'
  <1>0. /\ req[r] \in Entry /\ rows[r] \in CallRows /\ h[r] \in Handler
        /\ life.run \in Nat \ {0} /\ life.up \in BOOLEAN /\ faults \in Nat
        /\ Sound(req[r], rows[r], h[r], Outputs(r), life)
    BY DEF Control, TypeOK, SoundAll
  <1>1. CASE Commit(r, [req[r] EXCEPT !.linked = TRUE], rows[r]) /\ Go(r, "armed")
    <2> DEFINE q == [req[r] EXCEPT !.linked = TRUE]
               u == rows[r]
               x == [h[r] EXCEPT !.pc = "armed"]
    <2>1. Moves(r, q, u, x)
      BY <1>0, <1>1 DEF Moves, Commit, Go, Control, TypeOK
    <2>2. q \in Entry /\ u \in CallRows /\ x \in Handler
      BY <1>0 DEF Entry, Handler, Places, Outcomes, NoRequest
    <2>3. Frame(r) /\ Outputs(r)' = Outputs(r)
      BY <1>1, LedgerAssumption DEF Bind, Commit, Go, Frame, Aside, Refuses, Still, Outputs, Control, TypeOK
    <2>4. /\ q.run = req[r].run /\ q.linked = TRUE /\ q.outcome = req[r].outcome
          /\ q.finished = req[r].finished /\ q.complete = req[r].complete /\ x.pc = "armed"
          /\ x.hist = h[r].hist /\ x.usage = h[r].usage /\ x.end = h[r].end
      BY <1>0 DEF Entry, Handler, NoRequest
    <2> HIDE DEF q, u, x
    <2>6. Sound(q, u, x, Outputs(r), life)
      BY <1>0, <1>1, <2>2, <2>4 DEF Bind, At, Sound, NoRequest, Calls, u
    <2>7. Marks(r, q, u, x)
      BY <1>0, <1>1, <2>4 DEF Bind, At, Aside, Marks, Marked, Sound, NoRequest, Control, TypeOK, u
    <2>8. Gates(r, u, x)
      BY <1>0, <1>1, <2>4 DEF Bind, At, Gates, Sound, Probe, Control, Calls, u
    <2>9. QED
      BY <2>1, <2>2, <2>3, <2>6, <2>7, <2>8, RequestStep DEF Lawful
  <1>2. CASE Lost /\ h' = [h EXCEPT ![r].pc = "unbound", ![r].end = "failed"]
    <2> DEFINE q == req[r]
               u == rows[r]
               x == [h[r] EXCEPT !.pc = "unbound", !.end = "failed"]
    <2>1. Moves(r, q, u, x)
      BY <1>0, <1>2 DEF Moves, Lost, Control, TypeOK
    <2>2. q \in Entry /\ u \in CallRows /\ x \in Handler
      BY <1>0 DEF Entry, Handler, Places, Outcomes, NoRequest
    <2>3. Frame(r) /\ Outputs(r)' = Outputs(r)
      BY <1>2, LedgerAssumption DEF Bind, Lost, Frame, Aside, Refuses, Still, Outputs, Control, TypeOK
    <2>4. /\ x.pc = "unbound" /\ x.hist = h[r].hist /\ x.usage = h[r].usage
          /\ x.end = "failed"
      BY <1>0 DEF Entry, Handler, NoRequest
    <2> HIDE DEF q, u, x
    <2>6. Sound(q, u, x, Outputs(r), life)
      BY <1>0, <1>2, <2>2, <2>4 DEF Bind, At, Sound, NoRequest, Calls, u, q
    <2>7. Marks(r, q, u, x)
      BY <1>0, <1>2, <2>4 DEF Bind, At, Aside, Marks, Marked, Sound, NoRequest, Control, TypeOK, u, q
    <2>8. Gates(r, u, x)
      BY <1>0, <1>2, <2>4 DEF Bind, At, Gates, Sound, Probe, Control, Calls, u
    <2>9. QED
      BY <2>1, <2>2, <2>3, <2>6, <2>7, <2>8, RequestStep DEF Lawful
  <1>3. CASE /\ faults < MaxFaults /\ faults' = faults + 1
            /\ req' = [req EXCEPT ![r] = [req[r] EXCEPT !.linked = TRUE]] /\ UNCHANGED rows
            /\ h' = [h EXCEPT ![r].pc = "unbound", ![r].end = "failed"]
    <2> DEFINE q == [req[r] EXCEPT !.linked = TRUE]
               u == rows[r]
               x == [h[r] EXCEPT !.pc = "unbound", !.end = "failed"]
    <2>1. Moves(r, q, u, x)
      BY <1>0, <1>3 DEF Moves, Lost, Control, TypeOK
    <2>2. q \in Entry /\ u \in CallRows /\ x \in Handler
      BY <1>0 DEF Entry, Handler, Places, Outcomes, NoRequest
    <2>3. Frame(r) /\ Outputs(r)' = Outputs(r)
      BY <1>3, LedgerAssumption DEF Bind, Lost, Frame, Aside, Refuses, Still, Outputs, Control, TypeOK
    <2>4. /\ q.run = req[r].run /\ q.linked = TRUE /\ q.outcome = req[r].outcome
          /\ q.finished = req[r].finished /\ q.complete = req[r].complete /\ x.pc = "unbound"
          /\ x.hist = h[r].hist /\ x.usage = h[r].usage /\ x.end = "failed"
      BY <1>0 DEF Entry, Handler, NoRequest
    <2> HIDE DEF q, u, x
    <2>6. Sound(q, u, x, Outputs(r), life)
      BY <1>0, <1>3, <2>2, <2>4 DEF Bind, At, Sound, NoRequest, Calls, u
    <2>7. Marks(r, q, u, x)
      BY <1>0, <1>3, <2>4 DEF Bind, At, Aside, Marks, Marked, Sound, NoRequest, Control, TypeOK, u
    <2>8. Gates(r, u, x)
      BY <1>0, <1>3, <2>4 DEF Bind, At, Gates, Sound, Probe, Control, Calls, u
    <2>9. QED
      BY <2>1, <2>2, <2>3, <2>6, <2>7, <2>8, RequestStep DEF Lawful
  <1>4. QED
    BY <1>1, <1>2, <1>3 DEF Bind, Commit, Lost, Go

\* A request that was never armed is finished by its middleware.
LEMMA FinishUnboundKeeps ==
  ASSUME Control, NEW r \in Requests, FinishUnbound(r)
  PROVE  Control'
  <1>0. /\ req[r] \in Entry /\ rows[r] \in CallRows /\ h[r] \in Handler
        /\ life.run \in Nat \ {0} /\ life.up \in BOOLEAN /\ faults \in Nat
        /\ Sound(req[r], rows[r], h[r], Outputs(r), life)
    BY DEF Control, TypeOK, SoundAll
  <1>1. CASE Commit(r, [req[r] EXCEPT !.finished = TRUE, !.outcome = h[r].end], rows[r]) /\ Go(r, "done")
    <2> DEFINE q == [req[r] EXCEPT !.finished = TRUE, !.outcome = h[r].end]
               u == rows[r]
               x == [h[r] EXCEPT !.pc = "done"]
    <2>1. Moves(r, q, u, x)
      BY <1>0, <1>1 DEF Moves, Commit, Go, Control, TypeOK
    <2>2. q \in Entry /\ u \in CallRows /\ x \in Handler
      BY <1>0 DEF Entry, Handler, Places, Outcomes, NoRequest
    <2>3. Frame(r) /\ Outputs(r)' = Outputs(r)
      BY <1>1, LedgerAssumption DEF FinishUnbound, Commit, Go, Frame, Aside, Refuses, Still, Outputs, Control, TypeOK
    <2>4. /\ q.run = req[r].run /\ q.linked = req[r].linked /\ q.outcome = h[r].end
          /\ q.finished = TRUE /\ q.complete = req[r].complete /\ x.pc = "done"
          /\ x.hist = h[r].hist /\ x.usage = h[r].usage /\ x.end = h[r].end
      BY <1>0 DEF Entry, Handler, NoRequest
    <2> HIDE DEF q, u, x
    <2>6. Sound(q, u, x, Outputs(r), life)
      BY <1>0, <1>1, <2>2, <2>4 DEF FinishUnbound, At, Sound, NoRequest, Calls, u
    <2>7. Marks(r, q, u, x)
      BY <1>0, <1>1, <2>4 DEF FinishUnbound, At, Aside, Marks, Marked, Sound, NoRequest, Control, TypeOK, u
    <2>8. Gates(r, u, x)
      BY <1>0, <1>1, <2>4 DEF FinishUnbound, At, Gates, Sound, Probe, Control, Calls, u
    <2>9. QED
      BY <2>1, <2>2, <2>3, <2>6, <2>7, <2>8, RequestStep DEF Lawful
  <1>2. CASE Lost /\ Go(r, "done")
    <2> DEFINE q == req[r]
               u == rows[r]
               x == [h[r] EXCEPT !.pc = "done"]
    <2>1. Moves(r, q, u, x)
      BY <1>0, <1>2 DEF Moves, Lost, Go, Control, TypeOK
    <2>2. q \in Entry /\ u \in CallRows /\ x \in Handler
      BY <1>0 DEF Entry, Handler, Places, Outcomes, NoRequest
    <2>3. Frame(r) /\ Outputs(r)' = Outputs(r)
      BY <1>2, LedgerAssumption DEF FinishUnbound, Lost, Go, Frame, Aside, Refuses, Still, Outputs, Control, TypeOK
    <2>4. /\ x.pc = "done" /\ x.hist = h[r].hist /\ x.usage = h[r].usage
          /\ x.end = h[r].end
      BY <1>0 DEF Entry, Handler, NoRequest
    <2> HIDE DEF q, u, x
    <2>6. Sound(q, u, x, Outputs(r), life)
      BY <1>0, <1>2, <2>2, <2>4 DEF FinishUnbound, At, Sound, NoRequest, Calls, u, q
    <2>7. Marks(r, q, u, x)
      BY <1>0, <1>2, <2>4 DEF FinishUnbound, At, Aside, Marks, Marked, Sound, NoRequest, Control, TypeOK, u, q
    <2>8. Gates(r, u, x)
      BY <1>0, <1>2, <2>4 DEF FinishUnbound, At, Gates, Sound, Probe, Control, Calls, u
    <2>9. QED
      BY <2>1, <2>2, <2>3, <2>6, <2>7, <2>8, RequestStep DEF Lawful
  <1>3. QED
    BY <1>1, <1>2 DEF FinishUnbound, Commit, Lost, Go

\* The first request of a process starts the probe, or is refused.
LEMMA BeginVerifyKeeps ==
  ASSUME Control, NEW r \in Requests, BeginVerify(r)
  PROVE  Control'
  <1>0. /\ req[r] \in Entry /\ rows[r] \in CallRows /\ h[r] \in Handler
        /\ life.run \in Nat \ {0} /\ life.up \in BOOLEAN /\ faults \in Nat
        /\ Sound(req[r], rows[r], h[r], Outputs(r), life)
    BY DEF Control, TypeOK, SoundAll
  <1>1. CASE RefusePhase(r)
    <2> DEFINE q == req[r]
               u == rows[r]
               x == [h[r] EXCEPT !.pc = "finishing", !.end = "failed"]
    <2>1. Moves(r, q, u, x)
      BY <1>0, <1>1 DEF Moves, RefusePhase, End, Table, Control, TypeOK
    <2>2. q \in Entry /\ u \in CallRows /\ x \in Handler
      BY <1>0 DEF Entry, Handler, Places, Outcomes, NoRequest
    <2>3. Frame(r) /\ Outputs(r)' = Outputs(r)
      BY <1>1, LedgerAssumption DEF BeginVerify, RefusePhase, End, Frame, Aside, Refuses, Outputs, Control, TypeOK
    <2>4. /\ x.pc = "finishing" /\ x.hist = h[r].hist /\ x.usage = h[r].usage
          /\ x.end = "failed"
      BY <1>0 DEF Entry, Handler, NoRequest
    <2> HIDE DEF q, u, x
    <2>6. Sound(q, u, x, Outputs(r), life)
      BY <1>0, <1>1, <2>2, <2>4 DEF BeginVerify, At, Sound, NoRequest, Calls, u, q
    <2>7. Marks(r, q, u, x)
      BY <1>0, <1>1, <2>4 DEF BeginVerify, RefusePhase, Refuses, At, Aside, Marks, Marked, Sound, NoRequest, Control, TypeOK, u, q
    <2>8. Gates(r, u, x)
      BY <1>0, <1>1, <2>4 DEF BeginVerify, RefusePhase, At, Gates, Sound, Probe, Control, Calls, u
    <2>9. QED
      BY <2>1, <2>2, <2>3, <2>6, <2>7, <2>8, RequestStep DEF Lawful
  <1>2. CASE flag' = flag /\ gate' = "running" /\ RecordCall(r, "verifyState", FALSE) /\ Go(r, "verifying")
    <2> DEFINE q == req[r]
               u == Recorded(rows[r], "verifyState", FALSE)
               x == [h[r] EXCEPT !.pc = "verifying"]
    <2>1. Moves(r, q, u, x)
      BY <1>0, <1>2 DEF Moves, RecordCall, Commit, Go, Control, TypeOK
    <2>2. q \in Entry /\ u \in CallRows /\ x \in Handler
      BY <1>0, RecordedRows DEF Entry, Handler, Places, Outcomes, NoRequest, Calls
    <2>3. Frame(r) /\ Outputs(r)' = Outputs(r)
      BY <1>2, LedgerAssumption DEF BeginVerify, RecordCall, Commit, Go, Frame, Aside, Refuses, Still, Outputs, Control, TypeOK
    <2>4. /\ x.pc = "verifying" /\ x.hist = h[r].hist /\ x.usage = h[r].usage
          /\ x.end = h[r].end
      BY <1>0 DEF Entry, Handler, NoRequest
    <2>5. /\ u["verifyState"] = (IF rows[r]["verifyState"] = "none" THEN "seen" ELSE rows[r]["verifyState"])
          /\ u["verify"] = rows[r]["verify"]
          /\ u["answerState"] = rows[r]["answerState"]
          /\ u["answer"] = rows[r]["answer"]
      BY DEF Recorded, Calls, Billed, StateOf
    <2> HIDE DEF q, u, x
    <2>6. Sound(q, u, x, Outputs(r), life)
      BY <1>0, <1>2, <2>2, <2>4, <2>5 DEF BeginVerify, At, Sound, Probe, Control, q
    <2>7. Marks(r, q, u, x)
      BY <1>0, <1>2, <2>4, <2>5 DEF BeginVerify, At, Aside, Marks, Marked, Sound, Control, TypeOK, q
    <2>8. Gates(r, u, x)
      BY <1>0, <1>2, <2>4, <2>5 DEF BeginVerify, At, Gates, Sound, Probe, Control
    <2>9. QED
      BY <2>1, <2>2, <2>3, <2>6, <2>7, <2>8, RequestStep DEF Lawful
  <1>3. CASE flag' = flag /\ gate' = "running" /\ Lost /\ h' = [h EXCEPT ![r].pc = "verifying", ![r].hist = FALSE]
    <2> DEFINE q == req[r]
               u == rows[r]
               x == [h[r] EXCEPT !.pc = "verifying", !.hist = FALSE]
    <2>1. Moves(r, q, u, x)
      BY <1>0, <1>3 DEF Moves, Lost, Control, TypeOK
    <2>2. q \in Entry /\ u \in CallRows /\ x \in Handler
      BY <1>0 DEF Entry, Handler, Places, Outcomes, NoRequest
    <2>3. Frame(r) /\ Outputs(r)' = Outputs(r)
      BY <1>3, LedgerAssumption DEF BeginVerify, Lost, Frame, Aside, Refuses, Still, Outputs, Control, TypeOK
    <2>4. /\ x.pc = "verifying" /\ x.hist = FALSE /\ x.usage = h[r].usage
          /\ x.end = h[r].end
      BY <1>0 DEF Entry, Handler, NoRequest
    <2> HIDE DEF q, u, x
    <2>6. Sound(q, u, x, Outputs(r), life)
      BY <1>0, <1>3, <2>2, <2>4 DEF BeginVerify, At, Sound, NoRequest, Calls, Probe, Control, u, q
    <2>7. Marks(r, q, u, x)
      BY <1>0, <1>3, <2>4 DEF BeginVerify, At, Aside, Marks, Marked, Sound, NoRequest, Control, TypeOK, u, q
    <2>8. Gates(r, u, x)
      BY <1>0, <1>3, <2>4 DEF BeginVerify, At, Gates, Sound, Probe, Control, Calls, u
    <2>9. QED
      BY <2>1, <2>2, <2>3, <2>6, <2>7, <2>8, RequestStep DEF Lawful
  <1>4. QED
    BY <1>1, <1>2, <1>3 DEF BeginVerify

\* An armed request goes on to its answer, or is refused.
LEMMA BeginAnswerKeeps ==
  ASSUME Control, NEW r \in Requests, BeginAnswer(r)
  PROVE  Control'
  <1>0. /\ req[r] \in Entry /\ rows[r] \in CallRows /\ h[r] \in Handler
        /\ life.run \in Nat \ {0} /\ life.up \in BOOLEAN /\ faults \in Nat
        /\ Sound(req[r], rows[r], h[r], Outputs(r), life)
    BY DEF Control, TypeOK, SoundAll
  <1>1. CASE RefusePhase(r)
    <2> DEFINE q == req[r]
               u == rows[r]
               x == [h[r] EXCEPT !.pc = "finishing", !.end = "failed"]
    <2>1. Moves(r, q, u, x)
      BY <1>0, <1>1 DEF Moves, RefusePhase, End, Table, Control, TypeOK
    <2>2. q \in Entry /\ u \in CallRows /\ x \in Handler
      BY <1>0 DEF Entry, Handler, Places, Outcomes, NoRequest
    <2>3. Frame(r) /\ Outputs(r)' = Outputs(r)
      BY <1>1, LedgerAssumption DEF BeginAnswer, RefusePhase, End, Frame, Aside, Refuses, Outputs, Control, TypeOK
    <2>4. /\ x.pc = "finishing" /\ x.hist = h[r].hist /\ x.usage = h[r].usage
          /\ x.end = "failed"
      BY <1>0 DEF Entry, Handler, NoRequest
    <2> HIDE DEF q, u, x
    <2>6. Sound(q, u, x, Outputs(r), life)
      BY <1>0, <1>1, <2>2, <2>4 DEF BeginAnswer, At, Sound, NoRequest, Calls, u, q
    <2>7. Marks(r, q, u, x)
      BY <1>0, <1>1, <2>4 DEF BeginAnswer, RefusePhase, Refuses, At, Aside, Marks, Marked, Sound, NoRequest, Control, TypeOK, u, q
    <2>8. Gates(r, u, x)
      BY <1>0, <1>1, <2>4 DEF BeginAnswer, RefusePhase, At, Gates, Sound, Probe, Control, Calls, u
    <2>9. QED
      BY <2>1, <2>2, <2>3, <2>6, <2>7, <2>8, RequestStep DEF Lawful
  <1>2. CASE Go(r, "answering") /\ Still /\ UNCHANGED <<flag, gate>>
    <2> DEFINE q == req[r]
               u == rows[r]
               x == [h[r] EXCEPT !.pc = "answering"]
    <2>1. Moves(r, q, u, x)
      BY <1>0, <1>2 DEF Moves, Go, Still, Control, TypeOK
    <2>2. q \in Entry /\ u \in CallRows /\ x \in Handler
      BY <1>0 DEF Entry, Handler, Places, Outcomes, NoRequest
    <2>3. Frame(r) /\ Outputs(r)' = Outputs(r)
      BY <1>2, LedgerAssumption DEF BeginAnswer, Go, Still, Frame, Aside, Outputs, Control, TypeOK
    <2>4. /\ x.pc = "answering" /\ x.hist = h[r].hist /\ x.usage = h[r].usage
          /\ x.end = h[r].end
      BY <1>0 DEF Entry, Handler, NoRequest
    <2> HIDE DEF q, u, x
    <2>6. Sound(q, u, x, Outputs(r), life)
      BY <1>0, <1>2, <2>2, <2>4 DEF BeginAnswer, At, Sound, NoRequest, Calls, u, q
    <2>7. Marks(r, q, u, x)
      BY <1>0, <1>2, <2>4 DEF BeginAnswer, At, Aside, Marks, Marked, Sound, NoRequest, Control, TypeOK, u, q
    <2>8. Gates(r, u, x)
      BY <1>0, <1>2, <2>4 DEF BeginAnswer, At, Gates, Sound, Probe, Control, Calls, u
    <2>9. QED
      BY <2>1, <2>2, <2>3, <2>6, <2>7, <2>8, RequestStep DEF Lawful
  <1>3. QED
    BY <1>1, <1>2 DEF BeginAnswer

\* The provider's usage record is written, or its write fails.
LEMMA ObserveUsageKeeps ==
  ASSUME Control, NEW r \in Requests, ObserveUsage(r)
  PROVE  Control'
  <1>0. /\ req[r] \in Entry /\ rows[r] \in CallRows /\ h[r] \in Handler
        /\ life.run \in Nat \ {0} /\ life.up \in BOOLEAN /\ faults \in Nat
        /\ Sound(req[r], rows[r], h[r], Outputs(r), life)
    BY DEF Control, TypeOK, SoundAll
  <1>1. CASE h[r].pc = "verifying" /\ RecordCall(r, "verify", FALSE) /\ h' = [h EXCEPT ![r].usage = TRUE]
    <2> DEFINE q == req[r]
               u == Recorded(rows[r], "verify", FALSE)
               x == [h[r] EXCEPT !.usage = TRUE]
    <2>1. Moves(r, q, u, x)
      BY <1>0, <1>1 DEF Moves, RecordCall, Commit, Control, TypeOK
    <2>2. q \in Entry /\ u \in CallRows /\ x \in Handler
      BY <1>0, RecordedRows DEF Entry, Handler, Places, Outcomes, NoRequest, Calls
    <2>3. Frame(r) /\ Outputs(r)' = Outputs(r)
      BY <1>1, LedgerAssumption DEF ObserveUsage, RecordCall, Commit, Frame, Aside, Refuses, Still, Outputs, Control, TypeOK
    <2>4. /\ x.pc = h[r].pc /\ x.hist = h[r].hist /\ x.usage = TRUE
          /\ x.end = h[r].end
      BY <1>0 DEF Entry, Handler, NoRequest
    <2>5. /\ u["verifyState"] = rows[r]["verifyState"]
          /\ u["verify"] = (IF rows[r]["verify"] = "none" THEN "seen" ELSE rows[r]["verify"])
          /\ u["answerState"] = rows[r]["answerState"]
          /\ u["answer"] = rows[r]["answer"]
      BY DEF Recorded, Calls, Billed, StateOf
    <2> HIDE DEF q, u, x
    <2>6. Sound(q, u, x, Outputs(r), life)
      BY <1>0, <1>1, <2>2, <2>4, <2>5 DEF ObserveUsage, At, Sound, q
    <2>7. Marks(r, q, u, x)
      BY <1>0, <1>1, <2>4, <2>5 DEF ObserveUsage, At, Aside, Marks, Marked, Sound, Control, TypeOK, q
    <2>8. Gates(r, u, x)
      BY <1>0, <1>1, <2>4, <2>5 DEF ObserveUsage, At, Gates, Sound, Probe, Control
    <2>9. QED
      BY <2>1, <2>2, <2>3, <2>6, <2>7, <2>8, RequestStep DEF Lawful
  <1>2. CASE h[r].pc = "answering" /\ RecordCall(r, "answer", FALSE) /\ h' = [h EXCEPT ![r].usage = TRUE]
    <2> DEFINE q == req[r]
               u == Recorded(rows[r], "answer", FALSE)
               x == [h[r] EXCEPT !.usage = TRUE]
    <2>1. Moves(r, q, u, x)
      BY <1>0, <1>2 DEF Moves, RecordCall, Commit, Control, TypeOK
    <2>2. q \in Entry /\ u \in CallRows /\ x \in Handler
      BY <1>0, RecordedRows DEF Entry, Handler, Places, Outcomes, NoRequest, Calls
    <2>3. Frame(r) /\ Outputs(r)' = Outputs(r)
      BY <1>2, LedgerAssumption DEF ObserveUsage, RecordCall, Commit, Frame, Aside, Refuses, Still, Outputs, Control, TypeOK
    <2>4. /\ x.pc = h[r].pc /\ x.hist = h[r].hist /\ x.usage = TRUE
          /\ x.end = h[r].end
      BY <1>0 DEF Entry, Handler, NoRequest
    <2>5. /\ u["verifyState"] = rows[r]["verifyState"]
          /\ u["verify"] = rows[r]["verify"]
          /\ u["answerState"] = rows[r]["answerState"]
          /\ u["answer"] = (IF rows[r]["answer"] = "none" THEN "seen" ELSE rows[r]["answer"])
      BY DEF Recorded, Calls, Billed, StateOf
    <2> HIDE DEF q, u, x
    <2>6. Sound(q, u, x, Outputs(r), life)
      BY <1>0, <1>2, <2>2, <2>4, <2>5 DEF ObserveUsage, At, Sound, q
    <2>7. Marks(r, q, u, x)
      BY <1>0, <1>2, <2>4, <2>5 DEF ObserveUsage, At, Aside, Marks, Marked, Sound, Control, TypeOK, q
    <2>8. Gates(r, u, x)
      BY <1>0, <1>2, <2>4, <2>5 DEF ObserveUsage, At, Gates, Sound, Probe, Control
    <2>9. QED
      BY <2>1, <2>2, <2>3, <2>6, <2>7, <2>8, RequestStep DEF Lawful
  <1>3. CASE Lost /\ h' = [h EXCEPT ![r].usage = TRUE, ![r].hist = FALSE]
    <2> DEFINE q == req[r]
               u == rows[r]
               x == [h[r] EXCEPT !.usage = TRUE, !.hist = FALSE]
    <2>1. Moves(r, q, u, x)
      BY <1>0, <1>3 DEF Moves, Lost, Control, TypeOK
    <2>2. q \in Entry /\ u \in CallRows /\ x \in Handler
      BY <1>0 DEF Entry, Handler, Places, Outcomes, NoRequest
    <2>3. Frame(r) /\ Outputs(r)' = Outputs(r)
      BY <1>3, LedgerAssumption DEF ObserveUsage, Lost, Frame, Aside, Refuses, Still, Outputs, Control, TypeOK
    <2>4. /\ x.pc = h[r].pc /\ x.hist = FALSE /\ x.usage = TRUE
          /\ x.end = h[r].end
      BY <1>0 DEF Entry, Handler, NoRequest
    <2> HIDE DEF q, u, x
    <2>6. Sound(q, u, x, Outputs(r), life)
      BY <1>0, <1>3, <2>2, <2>4 DEF ObserveUsage, At, Sound, NoRequest, Calls, Phase, Calling, Started, u, q
    <2>7. Marks(r, q, u, x)
      BY <1>0, <1>3, <2>4 DEF ObserveUsage, At, Aside, Marks, Marked, Sound, NoRequest, Control, TypeOK, u, q
    <2>8. Gates(r, u, x)
      BY <1>0, <1>3, <2>4 DEF ObserveUsage, At, Gates, Sound, Probe, Control, Calls, u
    <2>9. QED
      BY <2>1, <2>2, <2>3, <2>6, <2>7, <2>8, RequestStep DEF Lawful
  <1>4. QED
    BY <1>1, <1>2, <1>3 DEF ObserveUsage, RecordCall, Commit, Lost, Phase, Calling

\* The call is accepted; after a probe the request is armed again.
LEMMA RecordBillingKeeps ==
  ASSUME Control, NEW r \in Requests, RecordBilling(r)
  PROVE  Control'
  <1>0. /\ req[r] \in Entry /\ rows[r] \in CallRows /\ h[r] \in Handler
        /\ life.run \in Nat \ {0} /\ life.up \in BOOLEAN /\ faults \in Nat
        /\ Sound(req[r], rows[r], h[r], Outputs(r), life)
    BY DEF Control, TypeOK, SoundAll
  <1>1. CASE h[r].pc = "answering" /\ gate' = gate /\ RecordCall(r, "answer", TRUE) /\ h' = [h EXCEPT ![r].pc = "finishing", ![r].end = "succeeded"]
    <2> DEFINE q == req[r]
               u == Recorded(rows[r], "answer", TRUE)
               x == [h[r] EXCEPT !.pc = "finishing", !.end = "succeeded"]
    <2>1. Moves(r, q, u, x)
      BY <1>0, <1>1 DEF Moves, RecordCall, Commit, Control, TypeOK
    <2>2. q \in Entry /\ u \in CallRows /\ x \in Handler
      BY <1>0, RecordedRows DEF Entry, Handler, Places, Outcomes, NoRequest, Calls
    <2>3. Frame(r) /\ Outputs(r)' = Outputs(r)
      BY <1>1, LedgerAssumption DEF RecordBilling, RecordCall, Commit, Frame, Aside, Refuses, Still, Outputs, Control, TypeOK
    <2>4. /\ x.pc = "finishing" /\ x.hist = h[r].hist /\ x.usage = h[r].usage
          /\ x.end = "succeeded"
      BY <1>0 DEF Entry, Handler, NoRequest
    <2>5. /\ u["verifyState"] = rows[r]["verifyState"]
          /\ u["verify"] = rows[r]["verify"]
          /\ u["answerState"] = (IF rows[r]["answerState"] = "seen" THEN "accepted" ELSE rows[r]["answerState"])
          /\ u["answer"] = "accepted"
      BY DEF Recorded, Calls, Billed, StateOf
    <2> HIDE DEF q, u, x
    <2>6. Sound(q, u, x, Outputs(r), life)
      BY <1>0, <1>1, <2>2, <2>4, <2>5 DEF RecordBilling, At, Sound, q
    <2>7. Marks(r, q, u, x)
      BY <1>0, <1>1, <2>4, <2>5 DEF RecordBilling, At, Aside, Marks, Marked, Sound, Control, TypeOK, q
    <2>8. Gates(r, u, x)
      BY <1>0, <1>1, <2>4, <2>5 DEF RecordBilling, At, Gates, Sound, Probe, Control
    <2>9. QED
      BY <2>1, <2>2, <2>3, <2>6, <2>7, <2>8, RequestStep DEF Lawful
  <1>2. CASE h[r].pc = "answering" /\ gate' = gate /\ Lost /\ h' = [h EXCEPT ![r].pc = "finishing", ![r].end = "succeeded", ![r].hist = FALSE]
    <2> DEFINE q == req[r]
               u == rows[r]
               x == [h[r] EXCEPT !.pc = "finishing", !.end = "succeeded", !.hist = FALSE]
    <2>1. Moves(r, q, u, x)
      BY <1>0, <1>2 DEF Moves, Lost, Control, TypeOK
    <2>2. q \in Entry /\ u \in CallRows /\ x \in Handler
      BY <1>0 DEF Entry, Handler, Places, Outcomes, NoRequest
    <2>3. Frame(r) /\ Outputs(r)' = Outputs(r)
      BY <1>2, LedgerAssumption DEF RecordBilling, Lost, Frame, Aside, Refuses, Still, Outputs, Control, TypeOK
    <2>4. /\ x.pc = "finishing" /\ x.hist = FALSE /\ x.usage = h[r].usage
          /\ x.end = "succeeded"
      BY <1>0 DEF Entry, Handler, NoRequest
    <2> HIDE DEF q, u, x
    <2>6. Sound(q, u, x, Outputs(r), life)
      BY <1>0, <1>2, <2>2, <2>4 DEF RecordBilling, At, Sound, NoRequest, Calls, u, q
    <2>7. Marks(r, q, u, x)
      BY <1>0, <1>2, <2>4 DEF RecordBilling, At, Aside, Marks, Marked, Sound, NoRequest, Control, TypeOK, u, q
    <2>8. Gates(r, u, x)
      BY <1>0, <1>2, <2>4 DEF RecordBilling, At, Gates, Sound, Probe, Control, Calls, u
    <2>9. QED
      BY <2>1, <2>2, <2>3, <2>6, <2>7, <2>8, RequestStep DEF Lawful
  <1>3. CASE h[r].pc = "verifying" /\ gate' = "passed" /\ RecordProbe(r)
    <2> DEFINE q == req[r]
               v(first) == IF first THEN Recorded(rows[r], "verify", TRUE) ELSE rows[r]
               w(first, second) ==
                 IF second THEN Recorded(v(first), "verifyState", TRUE) ELSE v(first)
               y(first, second) ==
                 [h[r] EXCEPT !.pc = "armed", !.usage = FALSE, !.hist = @ /\ first /\ second]
    <2>0. PICK first, second \in BOOLEAN :
            /\ rows' = [rows EXCEPT ![r] = w(first, second)] /\ UNCHANGED req
            /\ IF first /\ second THEN UNCHANGED faults ELSE faults < MaxFaults /\ faults' = faults + 1
            /\ h' = [h EXCEPT ![r].pc = "armed", ![r].usage = FALSE, ![r].hist = @ /\ first /\ second]
      BY <1>3 DEF RecordProbe
    <2> DEFINE u == w(first, second)
               x == y(first, second)
    <2>1. Moves(r, q, u, x)
      BY <1>0, <1>3, <2>0 DEF Moves, Control, TypeOK
    <2>2. q \in Entry /\ u \in CallRows /\ x \in Handler
      <3>1. v(first) \in CallRows
        BY <1>0, RecordedRows DEF Calls
      <3>2. u \in CallRows
        BY <3>1, RecordedRows DEF Calls
      <3>3. x \in Handler
        BY <1>0, <2>0 DEF Handler, Places
      <3>4. QED
        BY <1>0, <3>2, <3>3
    <2>3. Frame(r) /\ Outputs(r)' = Outputs(r)
      BY <1>3, <2>0, LedgerAssumption DEF RecordBilling, Frame, Aside, Outputs, Control, TypeOK
    <2>4. /\ x.pc = "armed" /\ x.hist = (h[r].hist /\ first /\ second) /\ x.usage = FALSE
          /\ x.end = h[r].end
      BY <1>0, <2>0 DEF Handler
    <2>5. /\ u["verifyState"] = IF second \/ (first /\ rows[r]["verifyState"] = "seen")
                                THEN "accepted" ELSE rows[r]["verifyState"]
          /\ u["verify"] = IF first THEN "accepted" ELSE rows[r]["verify"]
          /\ u["answerState"] = rows[r]["answerState"]
          /\ u["answer"] = rows[r]["answer"]
      <3>1. /\ v(first)["verify"] = IF first THEN "accepted" ELSE rows[r]["verify"]
            /\ v(first)["verifyState"] = IF first /\ rows[r]["verifyState"] = "seen"
                                         THEN "accepted" ELSE rows[r]["verifyState"]
            /\ v(first)["answerState"] = rows[r]["answerState"]
            /\ v(first)["answer"] = rows[r]["answer"]
        BY DEF Recorded, Calls, Billed, StateOf
      <3> HIDE DEF v
      <3>2. CASE second = TRUE
        BY <3>1, <3>2 DEF Recorded, Calls, Billed, StateOf
      <3>3. CASE second = FALSE
        BY <3>1, <3>3
      <3>4. QED
        BY <3>2, <3>3
    <2> HIDE DEF q, v, w, y, u, x
    <2>6. Sound(q, u, x, Outputs(r), life)
      BY <1>0, <1>3, <2>0, <2>2, <2>4, <2>5 DEF RecordBilling, At, Sound, q
    <2>7. Marks(r, q, u, x)
      BY <1>0, <1>3, <2>0, <2>4, <2>5 DEF RecordBilling, At, Aside, Marks, Marked, Sound, Control, TypeOK, q
    <2>8. Gates(r, u, x)
      BY <1>0, <1>3, <2>4, <2>5 DEF RecordBilling, At, Gates, Sound, Probe, Control
    <2>9. QED
      BY <2>1, <2>2, <2>3, <2>6, <2>7, <2>8, RequestStep DEF Lawful
  <1>4. QED
    BY <1>1, <1>2, <1>3 DEF RecordBilling, RecordCall, Commit, Lost, End, Phase, Calling

\* What marks a request as unresolved is what the gate reads.
LEMMA OwedShut ==
  ASSUME Control
  PROVE  UnresolvedStaysShut
  <1> SUFFICES ASSUME owed, life.up, ~flag
               PROVE  Unresolved
    BY DEF UnresolvedStaysShut
  <1>1. PICK r \in Requests : Marked(req[r], rows[r], h[r]) /\ req[r].run # life.run
    BY DEF Control, OwedMarked
  <1>2. QED
    BY <1>1 DEF Marked, Unresolved

\* A call breaks: reported with output it pauses the session; unreported it is
\* left to a policy, which may prepare a STOP.
LEMMA BreaksKeeps ==
  ASSUME Control, NEW r \in Requests, Breaks(r)
  PROVE  Control'
  <1>0. /\ req[r] \in Entry /\ rows[r] \in CallRows /\ h[r] \in Handler
        /\ life.run \in Nat \ {0} /\ life.up \in BOOLEAN /\ faults \in Nat
        /\ Sound(req[r], rows[r], h[r], Outputs(r), life)
    BY DEF Control, TypeOK, SoundAll
  <1>1. CASE h[r].pc = "verifying" /\ stop' = stop /\ flag' = TRUE /\ owed' = TRUE /\ RecordCall(r, "verifyState", FALSE) /\ h' = [h EXCEPT ![r].pc = "finishing", ![r].end = "failed"]
    <2> DEFINE q == req[r]
               u == Recorded(rows[r], "verifyState", FALSE)
               x == [h[r] EXCEPT !.pc = "finishing", !.end = "failed"]
    <2>1. Moves(r, q, u, x)
      BY <1>0, <1>1 DEF Moves, RecordCall, Commit, Control, TypeOK
    <2>2. q \in Entry /\ u \in CallRows /\ x \in Handler
      BY <1>0, RecordedRows DEF Entry, Handler, Places, Outcomes, NoRequest, Calls
    <2>3. Frame(r) /\ Outputs(r)' = Outputs(r)
      BY <1>1, LedgerAssumption DEF Breaks, RecordCall, Commit, Frame, Aside, Refuses, Still, Outputs, Control, TypeOK
    <2>4. /\ x.pc = "finishing" /\ x.hist = h[r].hist /\ x.usage = h[r].usage
          /\ x.end = "failed"
      BY <1>0 DEF Entry, Handler, NoRequest
    <2>5. /\ u["verifyState"] = (IF rows[r]["verifyState"] = "none" THEN "seen" ELSE rows[r]["verifyState"])
          /\ u["verify"] = rows[r]["verify"]
          /\ u["answerState"] = rows[r]["answerState"]
          /\ u["answer"] = rows[r]["answer"]
      BY DEF Recorded, Calls, Billed, StateOf
    <2> HIDE DEF q, u, x
    <2>6. Sound(q, u, x, Outputs(r), life)
      BY <1>0, <1>1, <2>2, <2>4, <2>5 DEF Breaks, At, Sound, q
    <2>7. Marks(r, q, u, x)
      BY <1>0, <1>1, <2>4, <2>5 DEF Breaks, At, Aside, Marks, Marked, Sound, Control, TypeOK, q
    <2>8. Gates(r, u, x)
      BY <1>0, <1>1, <2>4, <2>5 DEF Breaks, At, Gates, Sound, Probe, Control
    <2>9. QED
      BY <2>1, <2>2, <2>3, <2>6, <2>7, <2>8, RequestStep DEF Lawful
  <1>2. CASE h[r].pc = "answering" /\ stop' = stop /\ flag' = TRUE /\ owed' = TRUE /\ RecordCall(r, "answerState", FALSE) /\ h' = [h EXCEPT ![r].pc = "finishing", ![r].end = "failed"]
    <2> DEFINE q == req[r]
               u == Recorded(rows[r], "answerState", FALSE)
               x == [h[r] EXCEPT !.pc = "finishing", !.end = "failed"]
    <2>1. Moves(r, q, u, x)
      BY <1>0, <1>2 DEF Moves, RecordCall, Commit, Control, TypeOK
    <2>2. q \in Entry /\ u \in CallRows /\ x \in Handler
      BY <1>0, RecordedRows DEF Entry, Handler, Places, Outcomes, NoRequest, Calls
    <2>3. Frame(r) /\ Outputs(r)' = Outputs(r)
      BY <1>2, LedgerAssumption DEF Breaks, RecordCall, Commit, Frame, Aside, Refuses, Still, Outputs, Control, TypeOK
    <2>4. /\ x.pc = "finishing" /\ x.hist = h[r].hist /\ x.usage = h[r].usage
          /\ x.end = "failed"
      BY <1>0 DEF Entry, Handler, NoRequest
    <2>5. /\ u["verifyState"] = rows[r]["verifyState"]
          /\ u["verify"] = rows[r]["verify"]
          /\ u["answerState"] = (IF rows[r]["answerState"] = "none" THEN "seen" ELSE rows[r]["answerState"])
          /\ u["answer"] = rows[r]["answer"]
      BY DEF Recorded, Calls, Billed, StateOf
    <2> HIDE DEF q, u, x
    <2>6. Sound(q, u, x, Outputs(r), life)
      BY <1>0, <1>2, <2>2, <2>4, <2>5 DEF Breaks, At, Sound, q
    <2>7. Marks(r, q, u, x)
      BY <1>0, <1>2, <2>4, <2>5 DEF Breaks, At, Aside, Marks, Marked, Sound, Control, TypeOK, q
    <2>8. Gates(r, u, x)
      BY <1>0, <1>2, <2>4, <2>5 DEF Breaks, At, Gates, Sound, Probe, Control
    <2>9. QED
      BY <2>1, <2>2, <2>3, <2>6, <2>7, <2>8, RequestStep DEF Lawful
  <1>3. CASE h[r].pc \in {"verifying", "answering"} /\ stop' = stop /\ flag' = TRUE /\ owed' = TRUE /\ Lost /\ h' = [h EXCEPT ![r].pc = "finishing", ![r].end = "failed", ![r].hist = FALSE]
    <2> DEFINE q == req[r]
               u == rows[r]
               x == [h[r] EXCEPT !.pc = "finishing", !.end = "failed", !.hist = FALSE]
    <2>1. Moves(r, q, u, x)
      BY <1>0, <1>3 DEF Moves, Lost, Control, TypeOK
    <2>2. q \in Entry /\ u \in CallRows /\ x \in Handler
      BY <1>0 DEF Entry, Handler, Places, Outcomes, NoRequest
    <2>3. Frame(r) /\ Outputs(r)' = Outputs(r)
      BY <1>3, LedgerAssumption DEF Breaks, Lost, Frame, Aside, Refuses, Still, Outputs, Control, TypeOK
    <2>4. /\ x.pc = "finishing" /\ x.hist = FALSE /\ x.usage = h[r].usage
          /\ x.end = "failed"
      BY <1>0 DEF Entry, Handler, NoRequest
    <2> HIDE DEF q, u, x
    <2>6. Sound(q, u, x, Outputs(r), life)
      BY <1>0, <1>3, <2>2, <2>4 DEF Breaks, At, Sound, NoRequest, Calls, u, q
    <2>7. Marks(r, q, u, x)
      BY <1>0, <1>3, <2>4 DEF Breaks, At, Aside, Marks, Marked, Sound, NoRequest, Control, TypeOK, u, q
    <2>8. Gates(r, u, x)
      BY <1>0, <1>3, <2>4 DEF Breaks, At, Gates, Sound, Probe, Control, Calls, u
    <2>9. QED
      BY <2>1, <2>2, <2>3, <2>6, <2>7, <2>8, RequestStep DEF Lawful
  <1>4. CASE h[r].pc = "verifying" /\ stop' = stop /\ ~Started(r) /\ flag' = flag /\ owed' = owed /\ RecordCall(r, "verifyState", TRUE) /\ h' = [h EXCEPT ![r].pc = "finishing", ![r].end = "failed"]
    <2> DEFINE q == req[r]
               u == Recorded(rows[r], "verifyState", TRUE)
               x == [h[r] EXCEPT !.pc = "finishing", !.end = "failed"]
    <2>1. Moves(r, q, u, x)
      BY <1>0, <1>4 DEF Moves, RecordCall, Commit, Control, TypeOK
    <2>2. q \in Entry /\ u \in CallRows /\ x \in Handler
      BY <1>0, RecordedRows DEF Entry, Handler, Places, Outcomes, NoRequest, Calls
    <2>3. Frame(r) /\ Outputs(r)' = Outputs(r)
      BY <1>4, LedgerAssumption DEF Breaks, RecordCall, Commit, Frame, Aside, Refuses, Still, Outputs, Control, TypeOK
    <2>4. /\ x.pc = "finishing" /\ x.hist = h[r].hist /\ x.usage = h[r].usage
          /\ x.end = "failed"
      BY <1>0 DEF Entry, Handler, NoRequest
    <2>5. /\ u["verifyState"] = "accepted"
          /\ u["verify"] = rows[r]["verify"]
          /\ u["answerState"] = rows[r]["answerState"]
          /\ u["answer"] = rows[r]["answer"]
      BY DEF Recorded, Calls, Billed, StateOf
    <2> HIDE DEF q, u, x
    <2>6. Sound(q, u, x, Outputs(r), life)
      BY <1>0, <1>4, <2>2, <2>4, <2>5 DEF Breaks, At, Sound, Phase, Calling, Started, Outputs, q
    <2>7. Marks(r, q, u, x)
      BY <1>0, <1>4, <2>4, <2>5 DEF Breaks, At, Aside, Marks, Marked, Sound, Control, TypeOK, q
    <2>8. Gates(r, u, x)
      BY <1>0, <1>4, <2>4, <2>5 DEF Breaks, At, Gates, Sound, Probe, Control
    <2>9. QED
      BY <2>1, <2>2, <2>3, <2>6, <2>7, <2>8, RequestStep DEF Lawful
  <1>5. CASE h[r].pc = "verifying" /\ stop' = stop /\ flag' = flag /\ owed' = owed /\ Lost /\ h' = [h EXCEPT ![r].pc = "finishing", ![r].end = "failed", ![r].hist = FALSE]
    <2> DEFINE q == req[r]
               u == rows[r]
               x == [h[r] EXCEPT !.pc = "finishing", !.end = "failed", !.hist = FALSE]
    <2>1. Moves(r, q, u, x)
      BY <1>0, <1>5 DEF Moves, Lost, Control, TypeOK
    <2>2. q \in Entry /\ u \in CallRows /\ x \in Handler
      BY <1>0 DEF Entry, Handler, Places, Outcomes, NoRequest
    <2>3. Frame(r) /\ Outputs(r)' = Outputs(r)
      BY <1>5, LedgerAssumption DEF Breaks, Lost, Frame, Aside, Refuses, Still, Outputs, Control, TypeOK
    <2>4. /\ x.pc = "finishing" /\ x.hist = FALSE /\ x.usage = h[r].usage
          /\ x.end = "failed"
      BY <1>0 DEF Entry, Handler, NoRequest
    <2> HIDE DEF q, u, x
    <2>6. Sound(q, u, x, Outputs(r), life)
      BY <1>0, <1>5, <2>2, <2>4 DEF Breaks, At, Sound, NoRequest, Calls, u, q
    <2>7. Marks(r, q, u, x)
      BY <1>0, <1>5, <2>4 DEF Breaks, At, Aside, Marks, Marked, Sound, NoRequest, Control, TypeOK, u, q
    <2>8. Gates(r, u, x)
      BY <1>0, <1>5, <2>4 DEF Breaks, At, Gates, Sound, Probe, Control, Calls, u
    <2>9. QED
      BY <2>1, <2>2, <2>3, <2>6, <2>7, <2>8, RequestStep DEF Lawful
  <1>6. CASE h[r].pc = "answering" /\ stop' = stop /\ flag' = flag /\ owed' = owed /\ Still /\ h' = [h EXCEPT ![r].pc = "finishing", ![r].end = "failed"]
    <2> DEFINE q == req[r]
               u == rows[r]
               x == [h[r] EXCEPT !.pc = "finishing", !.end = "failed"]
    <2>1. Moves(r, q, u, x)
      BY <1>0, <1>6 DEF Moves, Still, Control, TypeOK
    <2>2. q \in Entry /\ u \in CallRows /\ x \in Handler
      BY <1>0 DEF Entry, Handler, Places, Outcomes, NoRequest
    <2>3. Frame(r) /\ Outputs(r)' = Outputs(r)
      BY <1>6, LedgerAssumption DEF Breaks, Still, Frame, Aside, Refuses, Still, Outputs, Control, TypeOK
    <2>4. /\ x.pc = "finishing" /\ x.hist = h[r].hist /\ x.usage = h[r].usage
          /\ x.end = "failed"
      BY <1>0 DEF Entry, Handler, NoRequest
    <2> HIDE DEF q, u, x
    <2>6. Sound(q, u, x, Outputs(r), life)
      BY <1>0, <1>6, <2>2, <2>4 DEF Breaks, At, Sound, NoRequest, Calls, u, q
    <2>7. Marks(r, q, u, x)
      BY <1>0, <1>6, <2>4 DEF Breaks, At, Aside, Marks, Marked, Sound, NoRequest, Control, TypeOK, u, q
    <2>8. Gates(r, u, x)
      BY <1>0, <1>6, <2>4 DEF Breaks, At, Gates, Sound, Probe, Control, Calls, u
    <2>9. QED
      BY <2>1, <2>2, <2>3, <2>6, <2>7, <2>8, RequestStep DEF Lawful
  <1>7. CASE /\ h[r].pc = "answering" /\ stop' = stop /\ flag' \in BOOLEAN /\ (flag => flag') /\ owed' = owed
            /\ faults' \in Nat /\ UNCHANGED Table
            /\ h' = [h EXCEPT ![r].pc = "finishing", ![r].end = "failed"]
    <2> DEFINE q == req[r]
               u == rows[r]
               x == [h[r] EXCEPT !.pc = "finishing", !.end = "failed"]
    <2>1. Moves(r, q, u, x)
      BY <1>0, <1>7 DEF Moves, Table, Control, TypeOK
    <2>2. q \in Entry /\ u \in CallRows /\ x \in Handler
      BY <1>0 DEF Entry, Handler, Places, Outcomes, NoRequest
    <2>3. Frame(r) /\ Outputs(r)' = Outputs(r)
      BY <1>0, <1>7 DEF Breaks, Frame, Outputs, Control, TypeOK
    <2>4. /\ x.pc = "finishing" /\ x.hist = h[r].hist /\ x.usage = h[r].usage
          /\ x.end = "failed"
      BY <1>0 DEF Entry, Handler, NoRequest
    <2> HIDE DEF q, u, x
    <2>6. Sound(q, u, x, Outputs(r), life)
      BY <1>0, <1>7, <2>2, <2>4 DEF Breaks, Sound, NoRequest, Calls, u, q
    <2>7. Marks(r, q, u, x)
      BY <1>0, <1>7, <2>4 DEF Breaks, Marks, Marked, Sound, NoRequest, Control, TypeOK, u, q
    <2>8. Gates(r, u, x)
      BY <1>0, <1>7, <2>4 DEF Breaks, Gates, Sound, Probe, Control, Calls, u
    <2>9. QED
      BY <2>1, <2>2, <2>3, <2>6, <2>7, <2>8, RequestStep DEF Lawful
  <1>8. CASE /\ h[r].pc = "answering" /\ stop' = "checked" /\ flag' = flag /\ owed' = owed /\ ~owed /\ life.up
            /\ faults' \in Nat /\ UNCHANGED Table
            /\ h' = [h EXCEPT ![r].pc = "stopping"]
    <2> DEFINE q == req[r]
               u == rows[r]
               x == [h[r] EXCEPT !.pc = "stopping"]
    <2>1. Moves(r, q, u, x)
      BY <1>0, <1>8 DEF Moves, Table, Control, TypeOK
    <2>2. q \in Entry /\ u \in CallRows /\ x \in Handler
      BY <1>0 DEF Entry, Handler, Places, Outcomes, NoRequest
    <2>3. Frame(r) /\ Outputs(r)' = Outputs(r)
      BY <1>0, <1>8 DEF Breaks, Frame, Outputs, Control, TypeOK
    <2>4. /\ x.pc = "stopping" /\ x.hist = h[r].hist /\ x.usage = h[r].usage
          /\ x.end = h[r].end
      BY <1>0 DEF Entry, Handler, NoRequest
    <2> HIDE DEF q, u, x
    <2>6. Sound(q, u, x, Outputs(r), life)
      BY <1>0, <1>8, <2>2, <2>4 DEF Breaks, Sound, NoRequest, Calls, u, q
    <2>7. Marks(r, q, u, x)
      BY <1>0, <1>8, <2>4 DEF Breaks, Marks, Marked, Sound, NoRequest, Control, TypeOK, u, q
    <2>8. Gates(r, u, x)
      BY <1>0, <1>8, <2>4 DEF Breaks, Gates, Sound, Probe, Control, Calls, u
    <2>9. QED
      BY <2>1, <2>2, <2>3, <2>6, <2>7, <2>8, RequestStep DEF Lawful
  <1>9. CASE BreaksUnreported(r)
    <2>1. h[r].pc = "answering" /\ life.up /\ UNCHANGED Table /\ owed' = owed
      BY <1>9 DEF Breaks, BreaksUnreported, Calling, Phase
    <2>2. ASSUME NEW pending \in BOOLEAN, Refuses(pending)
          PROVE  /\ flag' \in BOOLEAN /\ (flag => flag') /\ faults' \in Nat
                 /\ ~pending => flag' = flag /\ ~owed
      BY <1>0, <2>1, <2>2, OwedShut DEF Refuses, UnresolvedStaysShut, Control, TypeOK
    <2>3. CASE End(r, "failed") /\ UNCHANGED <<flag, faults, stop>>
      BY <1>0, <1>7, <2>1, <2>3 DEF End, Control, TypeOK
    <2>4. CASE \E pending \in BOOLEAN : Refuses(pending) /\ End(r, "failed") /\ UNCHANGED stop
      BY <1>7, <2>1, <2>2, <2>4 DEF End
    <2>5. CASE \E pending \in BOOLEAN : Refuses(pending) /\ ~pending /\ stop' = "checked" /\ Go(r, "stopping")
      BY <1>8, <2>1, <2>2, <2>5 DEF Go
    <2>6. QED
      BY <1>9, <2>3, <2>4, <2>5 DEF BreaksUnreported
  <1>10. CASE Started(r) /\ Pause(r) /\ UNCHANGED stop
    BY <1>1, <1>2, <1>3, <1>10 DEF Breaks, Pause, RecordCall, Commit, Lost, End, Phase, Calling, StateOf
  <1>11. CASE ~Started(r) /\ BreaksEarly(r) /\ UNCHANGED stop
    BY <1>4, <1>5, <1>6, <1>11 DEF Breaks, BreaksEarly, RecordCall, Commit, Lost, End, Phase, Calling, StateOf
  <1>12. QED
    BY <1>9, <1>10, <1>11 DEF Breaks

\* An incomplete history is marked before the request is finished.
LEMMA FinishKeeps ==
  ASSUME Control, NEW r \in Requests, Finish(r)
  PROVE  Control'
  <1>0. /\ req[r] \in Entry /\ rows[r] \in CallRows /\ h[r] \in Handler
        /\ life.run \in Nat \ {0} /\ life.up \in BOOLEAN /\ faults \in Nat
        /\ Sound(req[r], rows[r], h[r], Outputs(r), life)
    BY DEF Control, TypeOK, SoundAll
  <1>1. CASE h[r].hist /\ Commit(r, [req[r] EXCEPT !.finished = TRUE, !.outcome = h[r].end], rows[r]) /\ Go(r, "done")
    <2> DEFINE q == [req[r] EXCEPT !.finished = TRUE, !.outcome = h[r].end]
               u == rows[r]
               x == [h[r] EXCEPT !.pc = "done"]
    <2>1. Moves(r, q, u, x)
      BY <1>0, <1>1 DEF Moves, Commit, Go, Control, TypeOK
    <2>2. q \in Entry /\ u \in CallRows /\ x \in Handler
      BY <1>0 DEF Entry, Handler, Places, Outcomes, NoRequest
    <2>3. Frame(r) /\ Outputs(r)' = Outputs(r)
      BY <1>1, LedgerAssumption DEF Finish, Commit, Go, Frame, Aside, Refuses, Still, Outputs, Control, TypeOK
    <2>4. /\ q.run = req[r].run /\ q.linked = req[r].linked /\ q.outcome = h[r].end
          /\ q.finished = TRUE /\ q.complete = req[r].complete /\ x.pc = "done"
          /\ x.hist = h[r].hist /\ x.usage = h[r].usage /\ x.end = h[r].end
      BY <1>0 DEF Entry, Handler, NoRequest
    <2> HIDE DEF q, u, x
    <2>6. Sound(q, u, x, Outputs(r), life)
      BY <1>0, <1>1, <2>2, <2>4 DEF Finish, At, Sound, NoRequest, Calls, u
    <2>7. Marks(r, q, u, x)
      BY <1>0, <1>1, <2>4 DEF Finish, At, Aside, Marks, Marked, Sound, NoRequest, Control, TypeOK, u
    <2>8. Gates(r, u, x)
      BY <1>0, <1>1, <2>4 DEF Finish, At, Gates, Sound, Probe, Control, Calls, u
    <2>9. QED
      BY <2>1, <2>2, <2>3, <2>6, <2>7, <2>8, RequestStep DEF Lawful
  <1>2. CASE Lost /\ Go(r, "done")
    <2> DEFINE q == req[r]
               u == rows[r]
               x == [h[r] EXCEPT !.pc = "done"]
    <2>1. Moves(r, q, u, x)
      BY <1>0, <1>2 DEF Moves, Lost, Go, Control, TypeOK
    <2>2. q \in Entry /\ u \in CallRows /\ x \in Handler
      BY <1>0 DEF Entry, Handler, Places, Outcomes, NoRequest
    <2>3. Frame(r) /\ Outputs(r)' = Outputs(r)
      BY <1>2, LedgerAssumption DEF Finish, Lost, Go, Frame, Aside, Refuses, Still, Outputs, Control, TypeOK
    <2>4. /\ x.pc = "done" /\ x.hist = h[r].hist /\ x.usage = h[r].usage
          /\ x.end = h[r].end
      BY <1>0 DEF Entry, Handler, NoRequest
    <2> HIDE DEF q, u, x
    <2>6. Sound(q, u, x, Outputs(r), life)
      BY <1>0, <1>2, <2>2, <2>4 DEF Finish, At, Sound, NoRequest, Calls, u, q
    <2>7. Marks(r, q, u, x)
      BY <1>0, <1>2, <2>4 DEF Finish, At, Aside, Marks, Marked, Sound, NoRequest, Control, TypeOK, u, q
    <2>8. Gates(r, u, x)
      BY <1>0, <1>2, <2>4 DEF Finish, At, Gates, Sound, Probe, Control, Calls, u
    <2>9. QED
      BY <2>1, <2>2, <2>3, <2>6, <2>7, <2>8, RequestStep DEF Lawful
  <1>3. CASE ~h[r].hist /\ Commit(r, [req[r] EXCEPT !.complete = FALSE], rows[r]) /\ h' = [h EXCEPT ![r].hist = TRUE]
    <2> DEFINE q == [req[r] EXCEPT !.complete = FALSE]
               u == rows[r]
               x == [h[r] EXCEPT !.hist = TRUE]
    <2>1. Moves(r, q, u, x)
      BY <1>0, <1>3 DEF Moves, Commit, Control, TypeOK
    <2>2. q \in Entry /\ u \in CallRows /\ x \in Handler
      BY <1>0 DEF Entry, Handler, Places, Outcomes, NoRequest
    <2>3. Frame(r) /\ Outputs(r)' = Outputs(r)
      BY <1>3, LedgerAssumption DEF Finish, Commit, Frame, Aside, Refuses, Still, Outputs, Control, TypeOK
    <2>4. /\ q.run = req[r].run /\ q.linked = req[r].linked /\ q.outcome = req[r].outcome
          /\ q.finished = req[r].finished /\ q.complete = FALSE /\ x.pc = h[r].pc
          /\ x.hist = TRUE /\ x.usage = h[r].usage /\ x.end = h[r].end
      BY <1>0 DEF Entry, Handler, NoRequest
    <2> HIDE DEF q, u, x
    <2>6. Sound(q, u, x, Outputs(r), life)
      BY <1>0, <1>3, <2>2, <2>4 DEF Finish, At, Sound, NoRequest, Calls, u
    <2>7. Marks(r, q, u, x)
      BY <1>0, <1>3, <2>4 DEF Finish, At, Aside, Marks, Marked, Sound, NoRequest, Control, TypeOK, u
    <2>8. Gates(r, u, x)
      BY <1>0, <1>3, <2>4 DEF Finish, At, Gates, Sound, Probe, Control, Calls, u
    <2>9. QED
      BY <2>1, <2>2, <2>3, <2>6, <2>7, <2>8, RequestStep DEF Lawful
  <1>4. QED
    BY <1>1, <1>2, <1>3 DEF Finish, Commit, Lost, Go

\* A request is refused before it is bound, or goes on to be bound.
LEMMA AdmitKeeps ==
  ASSUME Control, NEW r \in Requests, Admit(r)
  PROVE  Control'
  <1>0. /\ req[r] \in Entry /\ rows[r] \in CallRows /\ h[r] \in Handler
        /\ life.run \in Nat \ {0} /\ life.up \in BOOLEAN /\ faults \in Nat
        /\ Sound(req[r], rows[r], h[r], Outputs(r), life)
    BY DEF Control, TypeOK, SoundAll
  <1>1. PICK pending \in BOOLEAN, how \in {"failed", "rejected", "cancelled", "bind"} :
          /\ Refuses(pending)
          /\ h' = [h EXCEPT ![r].pc = IF how = "bind" THEN "bind" ELSE "unbound", ![r].end = how]
    BY DEF Admit
  <1> DEFINE x == [h[r] EXCEPT !.pc = IF how = "bind" THEN "bind" ELSE "unbound", !.end = how]
  <1>2. Moves(r, req[r], rows[r], x)
    BY <1>0, <1>1 DEF Admit, Refuses, Moves, Table, Still, Control, TypeOK
  <1>3. x \in Handler /\ x.pc \in {"bind", "unbound"} /\ x.hist = h[r].hist
    BY <1>0, <1>1 DEF Handler, Places, Outcomes
  <1>4. Frame(r) /\ Outputs(r)' = Outputs(r)
    BY <1>1, LedgerAssumption DEF Admit, Refuses, Frame, Aside, Refuses, Still, Outputs, Control, TypeOK
  <1> HIDE DEF x
  <1>5. Sound(req[r], rows[r], x, Outputs(r), life)
    BY <1>0, <1>1, <1>3 DEF Admit, At, Sound, NoRequest, Calls
  <1>6. Marks(r, req[r], rows[r], x)
    BY <1>0, <1>1, <1>3 DEF Admit, At, Aside, Refuses, Marks, Marked, Sound, NoRequest, Control, TypeOK
  <1>7. Gates(r, rows[r], x)
    BY <1>0, <1>1, <1>3 DEF Admit, At, Gates, Sound, Probe, Control, Calls
  <1>8. QED
    BY <1>0, <1>2, <1>3, <1>4, <1>5, <1>6, <1>7, RequestStep DEF Lawful

\* The consumer leaves an armed or running request.
LEMMA AbandonKeeps ==
  ASSUME Control, NEW r \in Requests, Abandon(r)
  PROVE  Control'
  <1>0. /\ req[r] \in Entry /\ rows[r] \in CallRows /\ h[r] \in Handler
        /\ life.run \in Nat \ {0} /\ life.up \in BOOLEAN /\ faults \in Nat
        /\ Sound(req[r], rows[r], h[r], Outputs(r), life)
    BY DEF Control, TypeOK, SoundAll
  <1>1. PICK how \in {"cancelled", "failed"} :
          h' = [h EXCEPT ![r].pc = "finishing", ![r].end = how]
    BY DEF Abandon, End
  <1> DEFINE x == [h[r] EXCEPT !.pc = "finishing", !.end = how]
  <1>2. Moves(r, req[r], rows[r], x)
    BY <1>0, <1>1 DEF Abandon, End, Moves, Table, Still, Control, TypeOK
  <1>3. x \in Handler /\ x.pc = "finishing" /\ x.hist = h[r].hist
    BY <1>0, <1>1 DEF Handler, Places, Outcomes
  <1>4. Frame(r) /\ Outputs(r)' = Outputs(r)
    BY <1>1, LedgerAssumption DEF Abandon, End, Frame, Aside, Refuses, Still, Outputs, Control, TypeOK
  <1> HIDE DEF x
  <1>5. Sound(req[r], rows[r], x, Outputs(r), life)
    BY <1>0, <1>1, <1>3 DEF Abandon, At, Sound, NoRequest, Calls
  <1>6. Marks(r, req[r], rows[r], x)
    BY <1>0, <1>1, <1>3 DEF Abandon, At, Aside, Refuses, Marks, Marked, Sound, NoRequest, Control, TypeOK
  <1>7. Gates(r, rows[r], x)
    BY <1>0, <1>1, <1>3 DEF Abandon, At, Gates, Sound, Probe, Control, Calls
  <1>8. QED
    BY <1>0, <1>2, <1>3, <1>4, <1>5, <1>6, <1>7, RequestStep DEF Lawful

\* The provider produces output.
LEMMA OutputKeeps ==
  ASSUME Control, NEW r \in Requests, Output(r)
  PROVE  Control'
  <1>0. /\ req[r] \in Entry /\ rows[r] \in CallRows /\ h[r] \in Handler
        /\ life.run \in Nat \ {0} /\ life.up \in BOOLEAN /\ faults \in Nat
        /\ Sound(req[r], rows[r], h[r], Outputs(r), life)
    BY DEF Control, TypeOK, SoundAll
  <1>1. h[r].pc \in {"verifying", "answering"}
    BY DEF Output, Calling
  <1>2. Moves(r, req[r], rows[r], h[r])
    BY <1>0 DEF Output, Still, Moves, Control, TypeOK
  <1>3. Outputs(r)' = Outputs(r) \cup {Phase(r)} /\ Phase(r) \in Billed
    BY DEF Output, Outputs, Phase, Billed
  <1>4. Frame(r)
    BY <1>3 DEF Output, Still, Frame, Outputs, Control, TypeOK
  <1>5. Sound(req[r], rows[r], h[r], Outputs(r)', life)
    BY <1>0, <1>1, <1>3 DEF Sound, Phase
  <1>6. Marks(r, req[r], rows[r], h[r])
    BY DEF Output, Marks, Control, TypeOK
  <1>7. Gates(r, rows[r], h[r])
    BY <1>1 DEF Output, Gates
  <1>8. QED
    BY <1>0, <1>2, <1>4, <1>5, <1>6, <1>7, RequestStep DEF Lawful

-----------------------------------------------------------------------------
(***************************************************************************)
(* The automatic STOP, crashes and restarts.                               *)
(***************************************************************************)
\* The check of the STOP.
LEMMA CheckStopKeeps ==
  ASSUME Control, CheckStop
  PROVE  Control'
  <1>1. PICK pending \in BOOLEAN : Refuses(pending) /\ stop' = IF pending THEN "none" ELSE "checked"
    BY DEF CheckStop
  <1>2. /\ UNCHANGED <<req, rows, life, gate, h, output, owed>>
        /\ flag' \in BOOLEAN /\ (flag => flag') /\ faults' \in Nat /\ life.up
        /\ stop' \in {"none", "checked"}
    BY <1>1, LedgerAssumption DEF CheckStop, Refuses, Control, TypeOK
  <1>3. stop' = "checked" => ~owed
    BY <1>1, OwedShut DEF Refuses, UnresolvedStaysShut, CheckStop
  <1>4. TypeOK' /\ StopGuarded'
    BY <1>2, <1>3 DEF Control, TypeOK, StopGuarded
  <1>5. SoundAll' /\ Probe'
    BY <1>2 DEF Control, SoundAll, Probe, Outputs
  <1>6. OwedMarked'
    BY <1>2 DEF Control, OwedMarked
  <1>7. QED
    BY <1>4, <1>5, <1>6 DEF Control

\* The STOP is sent, or vetoed.
LEMMA SendStopKeeps ==
  ASSUME Control, SendStop
  PROVE  Control'
  <1>1. UNCHANGED <<req, rows, life, gate, output, owed, flag, faults>> /\ stop' \in {"none", "sent"}
    BY DEF SendStop, SendOrVeto, Still
  <1>2. \A r \in Requests :
          /\ h'[r] \in Handler /\ h'[r].hist = h[r].hist
          /\ h'[r].pc = IF h[r].pc = "stopping" THEN "finishing" ELSE h[r].pc
    BY DEF SendStop, Control, TypeOK, Handler, Places, Outcomes
  <1>3. TypeOK' /\ StopGuarded'
    BY <1>1, <1>2 DEF SendStop, Control, TypeOK, StopGuarded
  <1>4. SoundAll'
    <2> SUFFICES ASSUME NEW r \in Requests
                 PROVE  Sound(req[r], rows[r], h'[r], Outputs(r), life)
      BY <1>1 DEF SoundAll, Outputs
    <2>1. Sound(req[r], rows[r], h[r], Outputs(r), life)
      BY DEF Control, SoundAll
    <2>2. QED
      BY <1>2, <2>1 DEF Sound
  <1>5. Probe'
    BY <1>1, <1>2 DEF Control, Probe
  <1>6. OwedMarked'
    <2>1. ASSUME NEW r \in Requests, Marked(req[r], rows[r], h[r])
          PROVE  Marked(req[r], rows[r], h'[r])
      BY <1>2, <2>1 DEF Marked
    <2>2. QED
      BY <1>1, <2>1 DEF Control, OwedMarked
  <1>7. QED
    BY <1>3, <1>4, <1>5, <1>6 DEF Control

\* A crash ends every handler; a request it cuts off stays unfinished.
LEMMA CrashKeeps ==
  ASSUME Control, Crash
  PROVE  Control'
  <1>1. /\ UNCHANGED <<req, rows, output, faults>> /\ life.up
        /\ life'.up = FALSE /\ life'.run = life.run /\ life' \in [run : Nat \ {0}, up : BOOLEAN]
        /\ flag' = FALSE /\ gate' = "open" /\ stop' \in {"none", "sent"} /\ owed' \in BOOLEAN
    BY DEF Crash, Still, Control, TypeOK
  <1>2. \A r \in Requests :
          /\ h'[r] = IF h[r].pc = "new" THEN h[r] ELSE [Fresh EXCEPT !.pc = "done"]
          /\ h'[r] \in Handler /\ h'[r].pc = IF h[r].pc = "new" THEN "new" ELSE "done"
    BY DEF Crash, Control, TypeOK, Fresh, Handler, Places, Outcomes
  <1>3. TypeOK'
    BY <1>1, <1>2 DEF Control, TypeOK, Crash
  <1>4. SoundAll'
    <2> SUFFICES ASSUME NEW r \in Requests
                 PROVE  Sound(req[r], rows[r], h'[r], Outputs(r), life')
      BY <1>1 DEF SoundAll, Outputs
    <2>1. Sound(req[r], rows[r], h[r], Outputs(r), life)
      BY DEF Control, SoundAll
    <2>2. h'[r].pc = IF h[r].pc = "new" THEN "new" ELSE "done"
      BY <1>2
    <2>3. QED
      BY <1>1, <2>1, <2>2 DEF Sound, NoRequest
  <1>5. Probe' /\ StopGuarded'
    BY <1>1, <1>2 DEF Probe, StopGuarded
  <1>6. OwedMarked'
    <2> SUFFICES ASSUME owed'
                 PROVE  \E r \in Requests : Marked(req[r], rows[r], h'[r])
      BY <1>1 DEF OwedMarked
    <2>1. CASE owed
      <3>1. PICK r \in Requests : Marked(req[r], rows[r], h[r])
        BY <2>1 DEF Control, OwedMarked
      <3>2. Sound(req[r], rows[r], h[r], Outputs(r), life)
        BY DEF Control, SoundAll
      <3>3. h[r].pc # "new"
        BY <3>1, <3>2 DEF Sound, Marked, NoRequest
      <3>4. QED
        BY <1>2, <3>1, <3>3 DEF Marked
    <2>2. CASE ~owed
      <3>1. PICK r \in Requests : Calling(r)
        BY <2>2 DEF Crash
      <3>2. Sound(req[r], rows[r], h[r], Outputs(r), life)
        BY DEF Control, SoundAll
      <3>3. QED
        BY <1>2, <3>1, <3>2 DEF Marked, Sound, Calling
    <2>3. QED
      BY <2>1, <2>2
  <1>7. QED
    BY <1>3, <1>4, <1>5, <1>6 DEF Control

\* A restart marks what it finds in progress as interrupted.
LEMMA RestartKeeps ==
  ASSUME Control, Restart
  PROVE  Control'
  <1>1. /\ UNCHANGED <<rows, flag, gate, h, stop, faults, output, owed>> /\ ~life.up
        /\ life.run \in Nat \ {0} /\ life'.run = life.run + 1 /\ life'.up = TRUE
        /\ life' \in [run : Nat \ {0}, up : BOOLEAN]
    BY DEF Restart, Control, TypeOK
  <1>2. ASSUME NEW r \in Requests
        PROVE  /\ req'[r] \in Entry /\ req'[r].run = req[r].run /\ req'[r].linked = req[r].linked
               /\ req'[r].finished = req[r].finished /\ req'[r].complete = req[r].complete
               /\ req'[r] = NoRequest <=> req[r] = NoRequest
    <2>1. req[r] \in Entry /\ req'[r] = IF req[r].outcome = "in_progress"
                                        THEN [req[r] EXCEPT !.outcome = "interrupted"] ELSE req[r]
      BY DEF Restart, Control, TypeOK
    <2>2. CASE req[r].outcome = "in_progress"
      <3>1. req'[r] = [req[r] EXCEPT !.outcome = "interrupted"]
        BY <2>1, <2>2
      <3>2. /\ req'[r] \in Entry /\ req'[r].outcome = "interrupted" /\ req'[r].run = req[r].run
            /\ req'[r].linked = req[r].linked /\ req'[r].finished = req[r].finished
            /\ req'[r].complete = req[r].complete
        BY <2>1, <3>1 DEF Entry, Outcomes
      <3>3. NoRequest.outcome = "none"
        BY DEF NoRequest
      <3>4. req'[r] # NoRequest /\ req[r] # NoRequest
        BY <2>2, <3>2, <3>3
      <3>5. QED
        BY <3>2, <3>4
    <2>3. CASE req[r].outcome # "in_progress"
      BY <2>1, <2>3
    <2>4. QED
      BY <2>2, <2>3
  <1>3. TypeOK'
    BY <1>1, <1>2 DEF Control, TypeOK, Restart
  <1>4. SoundAll'
    <2> SUFFICES ASSUME NEW r \in Requests
                 PROVE  Sound(req'[r], rows[r], h[r], Outputs(r), life')
      BY <1>1 DEF SoundAll, Outputs
    <2>1. Sound(req[r], rows[r], h[r], Outputs(r), life) /\ req[r].run \in Nat
      BY DEF Control, SoundAll, TypeOK, Entry
    <2>2. QED
      BY <1>1, <1>2, <2>1 DEF Sound
  <1>5. Probe'
    BY <1>1 DEF Probe, Control
  <1>6. OwedMarked'
    <2> SUFFICES ASSUME owed
                 PROVE  \E r \in Requests : Marked(req'[r], rows[r], h[r]) /\ req'[r].run # life'.run
      BY <1>1 DEF OwedMarked
    <2>1. PICK r \in Requests : Marked(req[r], rows[r], h[r])
      BY DEF Control, OwedMarked
    <2>2. Sound(req[r], rows[r], h[r], Outputs(r), life) /\ req[r].run \in Nat
      BY DEF Control, SoundAll, TypeOK, Entry
    <2>3. req[r].run <= life.run
      BY <1>1, <2>1, <2>2 DEF Sound, Marked, NoRequest
    <2>4. QED
      BY <1>1, <1>2, <2>1, <2>3, <2>2 DEF Marked
  <1>7. StopGuarded'
    BY <1>1 DEF Control, StopGuarded
  <1>8. QED
    BY <1>3, <1>4, <1>5, <1>6, <1>7 DEF Control

\* The history starts empty.
LEMMA InitControl == Init => Control
  <1> SUFFICES ASSUME Init
               PROVE  Control
    OBVIOUS
  <1>1. TypeOK
    <2>1. NoRequest \in Entry
      BY DEF NoRequest, Entry, Outcomes
    <2>2. Fresh \in Handler
      BY DEF Fresh, Handler, Places, Outcomes
    <2>3. [c \in Calls |-> "none"] \in CallRows
      BY DEF CallRows, RowStates
    <2>4. req \in [Requests -> Entry] /\ h \in [Requests -> Handler]
      BY <2>1, <2>2 DEF Init
    <2>5. rows \in [Requests -> CallRows]
      BY <2>3 DEF Init
    <2>6. life \in [run : Nat \ {0}, up : BOOLEAN]
      BY DEF Init
    <2>7. QED
      BY <2>4, <2>5, <2>6 DEF Init, TypeOK
  <1>2. SoundAll
    <2> SUFFICES ASSUME NEW r \in Requests
                 PROVE  Sound(req[r], rows[r], h[r], Outputs(r), life)
      BY DEF SoundAll
    <2>1. /\ req[r] = NoRequest /\ h[r].pc = "new" /\ Outputs(r) = {} /\ ~NoRequest.linked
          /\ ~NoRequest.finished /\ \A c \in Calls : rows[r][c] = "none"
      BY DEF Init, Fresh, Outputs, NoRequest
    <2>2. QED
      BY <2>1 DEF Sound, Calls
  <1>3. Probe /\ OwedMarked /\ StopGuarded
    BY DEF Init, Probe, OwedMarked, StopGuarded, Fresh
  <1>4. QED
    BY <1>1, <1>2, <1>3 DEF Control

\* Every step keeps the control part of the invariant.
LEMMA NextControl == Control /\ [Next]_vars => Control'
  <1> SUFFICES ASSUME Control, [Next]_vars
               PROVE  Control'
    OBVIOUS
  <1>1. ASSUME NEW r \in Requests,
               \/ Start(r) \/ Admit(r) \/ Bind(r) \/ FinishUnbound(r) \/ BeginVerify(r)
               \/ BeginAnswer(r) \/ Output(r) \/ ObserveUsage(r) \/ RecordBilling(r) \/ Breaks(r)
               \/ Abandon(r) \/ Finish(r)
        PROVE  Control'
    BY <1>1, StartKeeps, AdmitKeeps, BindKeeps, FinishUnboundKeeps, BeginVerifyKeeps,
       BeginAnswerKeeps, OutputKeeps, ObserveUsageKeeps, RecordBillingKeeps, BreaksKeeps,
       AbandonKeeps, FinishKeeps
  <1>2. CASE UNCHANGED vars
    BY <1>2 DEF vars, Control, TypeOK, SoundAll, Outputs, Probe, OwedMarked, StopGuarded
  <1>3. QED
    BY <1>1, <1>2, CheckStopKeeps, SendStopKeeps, CrashKeeps, RestartKeeps DEF Next
-----------------------------------------------------------------------------
(***************************************************************************)
(* The counters.  A commit changes what one request adds to them: the sums *)
(* are split into the share of that request and the share of the others.   *)
(***************************************************************************)
Paid(v)          == {p \in Requests \X Billed : v[p[1]][p[2]] = "accepted"}
OthersPaid(v, r) == {p \in Requests \X Billed : p[1] # r /\ v[p[1]][p[2]] = "accepted"}
PaidCalls(u)     == {c \in Billed : u[c] = "accepted"}
Open(q, v)       == {s \in Requests : q[s] # NoRequest /\ RequestTotals(q[s], v[s]).incomplete = 1}
OthersOpen(q, v, r) == Open(q, v) \ {r}

\* Adding an element under a condition.
LEMMA AddIf ==
  ASSUME NEW S, IsFiniteSet(S), NEW x, x \notin S, NEW b \in BOOLEAN
  PROVE  LET T == S \cup (IF b THEN {x} ELSE {})
         IN  IsFiniteSet(T) /\ Cardinality(T) = Cardinality(S) + (IF b THEN 1 ELSE 0)
  <1>1. Cardinality(S) \in Nat
    BY FS_CardinalityType
  <1>2. CASE b
    BY <1>2, FS_AddElement
  <1>3. CASE ~b
    <2>1. S \cup {} = S
      OBVIOUS
    <2>2. QED
      BY <1>1, <1>3, <2>1
  <1>4. QED
    BY <1>2, <1>3

LEMMA OthersPaidFinite ==
  ASSUME NEW v, NEW r \in Requests
  PROVE  IsFiniteSet(OthersPaid(v, r)) /\ Cardinality(OthersPaid(v, r)) \in Nat
  <1>1. IsFiniteSet(Billed)
    <2>1. Billed = {"verify"} \cup {"answer"} /\ IsFiniteSet({"verify"})
      BY FS_Singleton DEF Billed
    <2>2. QED
      BY <2>1, FS_AddElement
  <1>2. IsFiniteSet(Requests \X Billed)
    BY <1>1, FS_Product, LedgerAssumption
  <1>3. OthersPaid(v, r) \subseteq Requests \X Billed
    BY DEF OthersPaid
  <1>4. QED
    BY <1>2, <1>3, FS_Subset, FS_CardinalityType

\* The charged calls of one request.
LEMMA PaidCallsCount ==
  ASSUME NEW u
  PROVE  Cardinality(PaidCalls(u)) = (IF u["verify"] = "accepted" THEN 1 ELSE 0)
                                     + (IF u["answer"] = "accepted" THEN 1 ELSE 0)
  <1> DEFINE S == {} \cup (IF u["verify"] = "accepted" THEN {"verify"} ELSE {})
             T == S \cup (IF u["answer"] = "accepted" THEN {"answer"} ELSE {})
  <1>1. PaidCalls(u) = T
    BY DEF PaidCalls, Billed
  <1>2. IsFiniteSet(S) /\ Cardinality(S) = 0 + (IF u["verify"] = "accepted" THEN 1 ELSE 0)
    BY FS_EmptySet, AddIf
  <1>3. "answer" \notin S
    OBVIOUS
  <1> HIDE DEF S
  <1>4. Cardinality(T) = Cardinality(S) + (IF u["answer"] = "accepted" THEN 1 ELSE 0)
    BY <1>2, <1>3, AddIf
  <1>5. QED
    BY <1>1, <1>2, <1>4

\* The charged calls of a request and those of the others.
LEMMA PaidSplit ==
  ASSUME NEW v, NEW r \in Requests
  PROVE  Cardinality(Paid(v)) = Cardinality(OthersPaid(v, r)) + Cardinality(PaidCalls(v[r]))
  <1> DEFINE O == OthersPaid(v, r)
             S == O \cup (IF v[r]["verify"] = "accepted" THEN {<<r, "verify">>} ELSE {})
             T == S \cup (IF v[r]["answer"] = "accepted" THEN {<<r, "answer">>} ELSE {})
  <1>1. Paid(v) = T
    BY DEF Paid, OthersPaid, Billed
  <1>2. <<r, "verify">> \notin O /\ <<r, "answer">> \notin S
    BY DEF OthersPaid
  <1>3. IsFiniteSet(O) /\ Cardinality(O) \in Nat
    BY OthersPaidFinite
  <1> HIDE DEF O
  <1>4. IsFiniteSet(S) /\ Cardinality(S) = Cardinality(O) + (IF v[r]["verify"] = "accepted" THEN 1 ELSE 0)
    BY <1>2, <1>3, AddIf
  <1> HIDE DEF S
  <1>5. Cardinality(T) = Cardinality(S) + (IF v[r]["answer"] = "accepted" THEN 1 ELSE 0)
    BY <1>2, <1>4, AddIf
  <1> HIDE DEF T
  <1>6. Cardinality(PaidCalls(v[r])) = (IF v[r]["verify"] = "accepted" THEN 1 ELSE 0)
                                     + (IF v[r]["answer"] = "accepted" THEN 1 ELSE 0)
    BY PaidCallsCount
  <1>7. QED
    BY <1>1, <1>3, <1>4, <1>5, <1>6 DEF O

\* The incomplete requests with and without one.
LEMMA OpenSplit ==
  ASSUME NEW q, NEW v, NEW r \in Requests
  PROVE  /\ Cardinality(OthersOpen(q, v, r)) \in Nat
         /\ Cardinality(Open(q, v)) = Cardinality(OthersOpen(q, v, r))
              + (IF q[r] # NoRequest THEN RequestTotals(q[r], v[r]).incomplete ELSE 0)
  <1> DEFINE O == OthersOpen(q, v, r)
             b == q[r] # NoRequest /\ RequestTotals(q[r], v[r]).incomplete = 1
  <1>1. IsFiniteSet(O) /\ Cardinality(O) \in Nat
    BY FS_Subset, FS_CardinalityType, LedgerAssumption DEF OthersOpen, Open
  <1>2. Open(q, v) = O \cup (IF b THEN {r} ELSE {}) /\ r \notin O
    BY DEF OthersOpen, Open
  <1>3. RequestTotals(q[r], v[r]).incomplete \in {0, 1}
    BY DEF RequestTotals
  <1> HIDE DEF O
  <1>4. Cardinality(Open(q, v)) = Cardinality(O) + (IF b THEN 1 ELSE 0)
    BY <1>1, <1>2, AddIf
  <1>5. QED
    BY <1>1, <1>3, <1>4 DEF O

\* A commit of row q and calls u for request r, or the same two writes outside
\* a transaction.
Before(r) == IF req[r] = NoRequest THEN Nothing ELSE RequestTotals(req[r], rows[r])
Booked(r, q, u) ==
  /\ req' = [req EXCEPT ![r] = q] /\ rows' = [rows EXCEPT ![r] = u]
  /\ totals' = Update(Before(r), RequestTotals(q, u))
  /\ q.run # 0 /\ (req[r].linked => q.linked)

\* Such a commit keeps the counters exact.
LEMMA BookedExact ==
  ASSUME LedgerInv, Control', NEW r \in Requests, NEW q, NEW u, Booked(r, q, u)
  PROVE  Counters'
  <1>1. /\ req'[r] = q /\ rows'[r] = u /\ q \in Entry /\ u \in CallRows
        /\ req[r] \in Entry /\ rows[r] \in CallRows
        /\ \A s \in Requests \ {r} : req'[s] = req[s] /\ rows'[s] = rows[s]
    BY DEF LedgerInv, Control, TypeOK, Booked
  <1>2. /\ q.linked \in BOOLEAN /\ req[r].linked \in BOOLEAN
        /\ ~req[r].linked => PaidCalls(rows[r]) = {}
        /\ ~q.linked => PaidCalls(u) = {}
    <2>1. Sound(req[r], rows[r], h[r], Outputs(r), life) /\ Sound(q, u, h'[r], Outputs(r)', life')
      BY <1>1 DEF LedgerInv, Control, SoundAll
    <2>2. QED
      BY <1>1, <2>1 DEF Sound, PaidCalls, Billed, Calls, Entry
  <1>3. q # NoRequest /\ ~NoRequest.linked
    BY DEF Booked, NoRequest
  <1> DEFINE before == Before(r)
             after == RequestTotals(q, u)
             was == Cardinality(PaidCalls(rows[r]))
             is == Cardinality(PaidCalls(u))
             others == Cardinality(OthersPaid(rows, r))
             open == Cardinality(OthersOpen(req, rows, r))
  <1>4. /\ after.incomplete \in {0, 1} /\ after.linked = q.linked /\ after.charged = is
    BY DEF RequestTotals, PaidCalls
  <1>5. /\ was \in Nat /\ is \in Nat /\ others \in Nat /\ open \in Nat
        /\ (~req[r].linked => was = 0) /\ (~q.linked => is = 0)
    <2>1. was \in Nat /\ is \in Nat
      BY PaidCallsCount
    <2>2. others \in Nat /\ open \in Nat
      BY OthersPaidFinite, OpenSplit
    <2>3. (~req[r].linked => was = 0) /\ (~q.linked => is = 0)
      BY <1>2, FS_EmptySet
    <2>4. QED
      BY <2>1, <2>2, <2>3
  <1>6. /\ before.charged = was /\ (before.linked <=> req[r].linked)
        /\ before.incomplete = IF req[r] # NoRequest
                               THEN RequestTotals(req[r], rows[r]).incomplete ELSE 0
    <2>1. CASE req[r] = NoRequest
      <3>1. before = Nothing /\ was = 0 /\ ~req[r].linked
        BY <1>3, <1>5, <2>1 DEF Before
      <3>2. QED
        BY <2>1, <3>1, <1>2 DEF Nothing
    <2>2. CASE req[r] # NoRequest
      BY <2>2 DEF Before, RequestTotals, PaidCalls
    <2>3. QED
      BY <2>1, <2>2
  <1>7. before.incomplete \in {0, 1}
    BY <1>6 DEF RequestTotals
  <1>8. /\ totals.charged = others + was
        /\ totals.incomplete = open + before.incomplete
        /\ totals.deal = totals.charged
    <2>1. totals.charged = Cardinality(Paid(rows)) /\ totals.deal = totals.charged
      BY DEF LedgerInv, Counters, TotalsExact, Paid
    <2>2. totals.incomplete = Cardinality(Open(req, rows))
      <3>1. Open(req, rows) = {s \in Known : Recomputed(s).incomplete = 1}
        BY DEF Open, Known, Recomputed
      <3>2. QED
        BY <3>1 DEF LedgerInv, Counters, TotalsExact
    <2>3. QED
      BY <1>6, <2>1, <2>2, PaidSplit, OpenSplit
  <1>9. /\ Cardinality(Paid(rows')) = others + is
        /\ Cardinality(Open(req', rows')) = open + after.incomplete
    <2>1. OthersPaid(rows', r) = OthersPaid(rows, r)
      BY <1>1 DEF OthersPaid
    <2>2. OthersOpen(req', rows', r) = OthersOpen(req, rows, r)
      BY <1>1 DEF OthersOpen, Open
    <2>3. Cardinality(Paid(rows')) = Cardinality(OthersPaid(rows', r)) + Cardinality(PaidCalls(rows'[r]))
      BY PaidSplit
    <2>4. Cardinality(Open(req', rows')) = Cardinality(OthersOpen(req', rows', r))
            + (IF req'[r] # NoRequest THEN RequestTotals(req'[r], rows'[r]).incomplete ELSE 0)
      BY OpenSplit
    <2>5. QED
      BY <1>1, <1>3, <2>1, <2>2, <2>3, <2>4
  <1>10. /\ totals' = [incomplete |-> totals.incomplete - before.incomplete + after.incomplete,
                       charged |-> totals.charged - before.charged + after.charged,
                       deal |-> IF ~after.linked THEN totals.deal
                                ELSE totals.deal - (IF before.linked THEN before.charged ELSE 0)
                                     + after.charged]
         /\ (req[r].linked => q.linked)
    BY DEF Booked, Update
  <1> HIDE DEF before, after, was, is, others, open
  <1>11. /\ totals' \in [incomplete : Nat, charged : Nat, deal : Nat]
         /\ totals'.incomplete = open + after.incomplete
         /\ totals'.charged = others + is /\ totals'.deal = totals'.charged
    <2>1. totals.incomplete - before.incomplete + after.incomplete = open + after.incomplete
      BY <1>4, <1>5, <1>7, <1>8
    <2>2. totals.charged - before.charged + after.charged = others + is
      BY <1>4, <1>5, <1>6, <1>8
    <2>3. (IF ~after.linked THEN totals.deal
           ELSE totals.deal - (IF before.linked THEN before.charged ELSE 0) + after.charged) = others + is
      BY <1>2, <1>4, <1>5, <1>6, <1>8, <1>10
    <2>4. open + after.incomplete \in Nat /\ others + is \in Nat
      BY <1>4, <1>5
    <2>5. totals' = [incomplete |-> open + after.incomplete, charged |-> others + is, deal |-> others + is]
      BY <1>10, <2>1, <2>2, <2>3
    <2>6. QED
      BY <2>4, <2>5
  <1>12. Open(req', rows') = {s \in Known : Recomputed(s).incomplete = 1}'
    BY DEF Open, Known, Recomputed
  <1>13. QED
    BY <1>9, <1>11, <1>12 DEF Counters, TotalsExact, Paid

\* A request whose handler is under way has its row.
LEMMA HasRow ==
  ASSUME Control, NEW r \in Requests, h[r].pc \notin {"new", "done"}
  PROVE  req[r] \in Entry /\ req[r] # NoRequest /\ req[r].run # 0
  <1>1. Sound(req[r], rows[r], h[r], Outputs(r), life) /\ req[r] \in Entry
    BY DEF Control, SoundAll, TypeOK
  <1>2. life.run \in Nat
    BY DEF Control, TypeOK
  <1>3. QED
    BY <1>1, <1>2 DEF Sound

\* What a commit of a request's own row, changed or not, books.
LEMMA CommitBooks ==
  ASSUME NEW r \in Requests, NEW q, NEW u, Commit(r, q, u), q.run # 0, req[r].linked => q.linked
  PROVE  Booked(r, q, u)
  BY DEF Commit, Booked, Before

LEMMA RecordBooks ==
  ASSUME Control, NEW r \in Requests, h[r].pc \notin {"new", "done"}, NEW call, NEW accepted,
         RecordCall(r, call, accepted)
  PROVE  \E q, u : Booked(r, q, u)
  BY HasRow, CommitBooks DEF RecordCall

\* A request changes the tables by such a commit or not at all.
Books(r) == UNCHANGED Table \/ \E q, u : Booked(r, q, u)

LEMMA FinishBooks ==
  ASSUME Control, NEW r \in Requests, h[r].pc \notin {"new", "done"},
         \/ Commit(r, [req[r] EXCEPT !.finished = TRUE, !.outcome = h[r].end], rows[r])
         \/ Commit(r, [req[r] EXCEPT !.complete = FALSE], rows[r])
         \/ Commit(r, [req[r] EXCEPT !.linked = TRUE], rows[r])
  PROVE  \E q, u : Booked(r, q, u)
  <1>1. req[r] \in Entry /\ req[r].run # 0
    BY HasRow
  <1>2. ASSUME NEW q, Commit(r, q, rows[r]), q.run = req[r].run, req[r].linked => q.linked
        PROVE  \E p, u : Booked(r, p, u)
    BY <1>1, <1>2, CommitBooks
  <1>3. CASE Commit(r, [req[r] EXCEPT !.finished = TRUE, !.outcome = h[r].end], rows[r])
    <2> DEFINE q == [req[r] EXCEPT !.finished = TRUE, !.outcome = h[r].end]
    <2>1. q.run = req[r].run /\ q.linked = req[r].linked
      BY <1>1 DEF Entry
    <2>2. QED
      BY <1>2, <1>3, <2>1
  <1>4. CASE Commit(r, [req[r] EXCEPT !.complete = FALSE], rows[r])
    <2> DEFINE q == [req[r] EXCEPT !.complete = FALSE]
    <2>1. q.run = req[r].run /\ q.linked = req[r].linked
      BY <1>1 DEF Entry
    <2>2. QED
      BY <1>2, <1>4, <2>1
  <1>5. CASE Commit(r, [req[r] EXCEPT !.linked = TRUE], rows[r])
    <2> DEFINE q == [req[r] EXCEPT !.linked = TRUE]
    <2>1. q.run = req[r].run /\ q.linked = TRUE
      BY <1>1 DEF Entry
    <2>2. QED
      BY <1>2, <1>5, <2>1
  <1>6. QED
    BY <1>3, <1>4, <1>5

LEMMA StartBooks ==
  ASSUME Control, NEW r \in Requests, Start(r)
  PROVE  Books(r)
  <1> DEFINE q == [NoRequest EXCEPT !.run = life.run, !.outcome = "in_progress"]
  <1>1. q.run # 0
    BY DEF NoRequest, Control, TypeOK
  <1>2. ~req[r].linked
    <2>1. Sound(req[r], rows[r], h[r], Outputs(r), life) /\ h[r].pc = "new"
      BY DEF Control, SoundAll, Start, At
    <2>2. QED
      BY <2>1 DEF Sound, NoRequest
  <1>3. CASE Commit(r, q, rows[r])
    BY <1>1, <1>2, <1>3, CommitBooks DEF Books
  <1>4. CASE Lost
    BY <1>4 DEF Lost, Books, Table
  <1>5. QED
    BY <1>3, <1>4 DEF Start

LEMMA BindBooks ==
  ASSUME Control, NEW r \in Requests, Bind(r)
  PROVE  Books(r)
  <1>1. /\ h[r].pc \notin {"new", "done"} /\ req[r] \in Entry /\ req[r] # NoRequest
        /\ req[r].run # 0 /\ rows[r] \in CallRows /\ rows \in [Requests -> CallRows]
    BY HasRow DEF Bind, At, Control, TypeOK
  <1> DEFINE q == [req[r] EXCEPT !.linked = TRUE]
  <1>2. q.run = req[r].run /\ q.linked = TRUE
    BY <1>1 DEF Entry
  <1>3. CASE Commit(r, q, rows[r])
    BY <1>1, <1>3, FinishBooks DEF Books
  <1>4. CASE Lost
    BY <1>4 DEF Lost, Books, Table
  <1>5. CASE /\ req' = [req EXCEPT ![r] = q] /\ UNCHANGED rows
             /\ totals' = Update(RequestTotals(req[r], rows[r]), RequestTotals(q, rows[r]))
    <2> HIDE DEF q
    <2>1. rows' = [rows EXCEPT ![r] = rows[r]] /\ Before(r) = RequestTotals(req[r], rows[r])
      BY <1>1, <1>5 DEF Before
    <2>2. Booked(r, q, rows[r])
      BY <1>1, <1>2, <1>5, <2>1 DEF Booked
    <2>3. QED
      BY <2>2 DEF Books
  <1>6. QED
    BY <1>3, <1>4, <1>5 DEF Bind

LEMMA RecordBillingBooks ==
  ASSUME Control, NEW r \in Requests, RecordBilling(r)
  PROVE  Books(r)
  <1>1. /\ h[r].pc \notin {"new", "done"} /\ req[r] # NoRequest /\ req[r].run # 0
        /\ rows \in [Requests -> CallRows] /\ req \in [Requests -> Entry]
    BY HasRow DEF RecordBilling, Calling, Control, TypeOK
  <1>2. CASE RecordCall(r, "answer", TRUE) \/ RecordCall(r, "verify", TRUE)
    BY <1>1, <1>2, RecordBooks DEF Books
  <1>3. CASE UNCHANGED Table \/ Lost
    BY <1>3 DEF Lost, Books, Table
  <1>4. CASE RecordProbe(r)
    <2> DEFINE v(first) == IF first THEN Recorded(rows[r], "verify", TRUE) ELSE rows[r]
               w(first, second) ==
                 IF second THEN Recorded(v(first), "verifyState", TRUE) ELSE v(first)
    <2>0. PICK first, second \in BOOLEAN :
            /\ rows' = [rows EXCEPT ![r] = w(first, second)] /\ UNCHANGED req
            /\ totals' = Update(RequestTotals(req[r], rows[r]), RequestTotals(req[r], w(first, second)))
      BY <1>4 DEF RecordProbe
    <2> DEFINE u == w(first, second)
    <2>1. /\ rows' = [rows EXCEPT ![r] = u] /\ rows'[r] = u /\ req' = [req EXCEPT ![r] = req[r]]
          /\ Before(r) = RequestTotals(req[r], rows[r])
      BY <1>1, <2>0 DEF Before
    <2> HIDE DEF v, w, u
    <2>2. Booked(r, req[r], u)
      BY <1>1, <2>0, <2>1 DEF Booked, u
    <2>3. QED
      BY <2>2 DEF Books
  <1>5. QED
    BY <1>2, <1>3, <1>4 DEF RecordBilling

\* The other actions commit once, or leave the tables alone.
LEMMA RequestBooks ==
  ASSUME Control, NEW r \in Requests,
         \/ Admit(r) \/ FinishUnbound(r) \/ BeginVerify(r) \/ BeginAnswer(r) \/ Output(r)
         \/ ObserveUsage(r) \/ Breaks(r) \/ Abandon(r) \/ Finish(r)
  PROVE  Books(r)
  <1>1. CASE UNCHANGED Table \/ Lost \/ Still
    BY <1>1 DEF Lost, Still, Books, Table
  <1>2. h[r].pc \notin {"new", "done"}
    BY DEF Admit, FinishUnbound, BeginVerify, BeginAnswer, Output, ObserveUsage, Breaks, Abandon,
           Finish, At, Calling
  <1>3. CASE \E call \in Calls, accepted \in BOOLEAN : RecordCall(r, call, accepted)
    BY <1>2, <1>3, RecordBooks DEF Books
  <1>4. CASE \/ Commit(r, [req[r] EXCEPT !.finished = TRUE, !.outcome = h[r].end], rows[r])
             \/ Commit(r, [req[r] EXCEPT !.complete = FALSE], rows[r])
    BY <1>2, <1>4, FinishBooks DEF Books
  <1>5. CASE Admit(r) \/ BeginAnswer(r) \/ Output(r) \/ Abandon(r)
    BY <1>1, <1>5 DEF Admit, BeginAnswer, RefusePhase, Output, Abandon
  <1>6. CASE FinishUnbound(r) \/ Finish(r)
    BY <1>1, <1>4, <1>6 DEF FinishUnbound, Finish
  <1>7. CASE BeginVerify(r)
    BY <1>1, <1>3, <1>7 DEF BeginVerify, RefusePhase, Calls
  <1>8. CASE ObserveUsage(r)
    BY <1>1, <1>3, <1>8 DEF ObserveUsage, Phase, Calls
  <1>9. CASE Breaks(r)
    BY <1>1, <1>3, <1>9 DEF Breaks, BreaksUnreported, Pause, BreaksEarly, StateOf, Calls
  <1>10. QED
    BY <1>5, <1>6, <1>7, <1>8, <1>9

\* A restart renames outcomes and changes no sum.
LEMMA RestartExact ==
  ASSUME LedgerInv, Restart
  PROVE  Counters'
  <1>1. UNCHANGED <<rows, totals>>
    BY DEF Restart
  <1>2. ASSUME NEW r \in Requests
        PROVE  /\ req'[r] = NoRequest <=> req[r] = NoRequest
               /\ Recomputed(r)'.incomplete = Recomputed(r).incomplete
    <2>1. req[r] \in Entry /\ req'[r] = IF req[r].outcome = "in_progress"
                                        THEN [req[r] EXCEPT !.outcome = "interrupted"] ELSE req[r]
      BY DEF Restart, LedgerInv, Control, TypeOK
    <2>2. CASE req[r].outcome = "in_progress"
      <3>1. /\ req'[r].outcome = "interrupted" /\ req'[r].linked = req[r].linked
            /\ req'[r].finished = req[r].finished /\ req'[r].complete = req[r].complete
        BY <2>1, <2>2 DEF Entry
      <3>2. NoRequest.outcome = "none"
        BY DEF NoRequest
      <3>3. req'[r] # NoRequest /\ req[r] # NoRequest
        BY <2>2, <3>1, <3>2
      <3>4. Recomputed(r)'.incomplete = Recomputed(r).incomplete
        BY <1>1, <2>2, <3>1 DEF Recomputed, RequestTotals
      <3>5. QED
        BY <3>3, <3>4
    <2>3. CASE req[r].outcome # "in_progress"
      BY <1>1, <2>1, <2>3 DEF Recomputed
    <2>4. QED
      BY <2>2, <2>3
  <1>3. {r \in Known : Recomputed(r).incomplete = 1}' = {r \in Known : Recomputed(r).incomplete = 1}
    BY <1>2 DEF Known
  <1>4. QED
    BY <1>1, <1>3 DEF LedgerInv, Counters, TotalsExact

\* A step that leaves the tables alone.
LEMMA TableStill ==
  ASSUME Counters, UNCHANGED Table
  PROVE  Counters'
  BY DEF Table, Counters, TotalsExact, Known, Recomputed

LEMMA InitLedger == Init => LedgerInv
  <1> SUFFICES ASSUME Init
               PROVE  Counters
    BY InitControl DEF LedgerInv
  <1>1. {r \in Known : Recomputed(r).incomplete = 1} = {}
    BY DEF Init, Known
  <1>2. {p \in Requests \X Billed : rows[p[1]][p[2]] = "accepted"} = {}
    BY DEF Init, Billed, Calls
  <1>3. totals = [incomplete |-> 0, charged |-> 0, deal |-> 0]
    BY DEF Init
  <1>4. QED
    BY <1>1, <1>2, <1>3, FS_EmptySet DEF Counters, TotalsExact

LEMMA NextLedger == LedgerInv /\ [Next]_vars => LedgerInv'
  <1> SUFFICES ASSUME LedgerInv, [Next]_vars
               PROVE  Counters'
    BY NextControl DEF LedgerInv
  <1>1. Control /\ Counters /\ Control'
    BY NextControl DEF LedgerInv
  <1>2. ASSUME NEW r \in Requests, Books(r)
        PROVE  Counters'
    BY <1>1, <1>2, BookedExact, TableStill DEF Books
  <1>3. ASSUME NEW r \in Requests,
               \/ Start(r) \/ Admit(r) \/ Bind(r) \/ FinishUnbound(r) \/ BeginVerify(r)
               \/ BeginAnswer(r) \/ Output(r) \/ ObserveUsage(r) \/ RecordBilling(r) \/ Breaks(r)
               \/ Abandon(r) \/ Finish(r)
        PROVE  Counters'
    BY <1>1, <1>2, <1>3, StartBooks, BindBooks, RecordBillingBooks, RequestBooks
  <1>4. CASE CheckStop \/ SendStop \/ Crash \/ UNCHANGED vars
    <2>1. UNCHANGED Table
      BY <1>4 DEF CheckStop, SendStop, Crash, Still, Table, vars
    <2>2. QED
      BY <1>1, <2>1, TableStill
  <1>5. CASE Restart
    BY <1>5, RestartExact
  <1>6. QED
    BY <1>3, <1>4, <1>5 DEF Next
-----------------------------------------------------------------------------
(***************************************************************************)
(* The theorems.                                                           *)
(***************************************************************************)
\* The inductive invariant holds in every reachable state.
THEOREM LedgerInvariant == Spec => []LedgerInv
  BY InitLedger, NextLedger, PTL DEF Spec

\* The counters of the admission page are what the history adds up to, for any
\* number of requests and failed writes (update_totals_in).
THEOREM CountersExact == Spec => []TotalsExact
  <1>1. LedgerInv => TotalsExact
    BY DEF LedgerInv, Counters
  <1>2. QED
    BY <1>1, LedgerInvariant, PTL

\* When the counters say that no request is incomplete, every call that
\* produced output is accepted (mark_request_history_incomplete,
\* finish_delivery).
THEOREM CompleteMissesNothing == Spec => []NothingMissingWhenComplete
  <1>1. LedgerInv => NothingMissingWhenComplete
    <2> SUFFICES ASSUME LedgerInv, totals.incomplete = 0, NEW o \in output
                 PROVE  rows[o[1]][o[2]] = "accepted"
      BY DEF NothingMissingWhenComplete
    <2>1. PICK r \in Requests, c \in Billed : o = <<r, c>>
      BY DEF LedgerInv, Control, TypeOK
    <2>2. {s \in Known : Recomputed(s).incomplete = 1} = {}
      <3>1. IsFiniteSet({s \in Known : Recomputed(s).incomplete = 1})
        BY LedgerAssumption, FS_Subset DEF Known
      <3>2. QED
        BY <3>1, FS_EmptySet DEF LedgerInv, Counters, TotalsExact
    <2>3. Sound(req[r], rows[r], h[r], Outputs(r), life) /\ rows[r] \in CallRows
      BY DEF LedgerInv, Control, SoundAll, TypeOK
    <2>4. c \in Outputs(r)
      BY <2>1 DEF Outputs
    <2>5. req[r].linked
      BY <2>3, <2>4 DEF Sound
    <2>6. Recomputed(r).incomplete # 1
      BY <2>2, <2>5 DEF Known, NoRequest
    <2>7. /\ req[r].finished /\ req[r].complete /\ \A d \in Calls : rows[r][d] # "seen"
          /\ rows[r]["answer"] # "none" \/ rows[r]["answerState"] # "none"
      BY <2>5, <2>6 DEF Recomputed, RequestTotals
    <2>8. \A d \in Calls : rows[r][d] \in {"none", "accepted"}
      BY <2>3, <2>7 DEF CallRows, RowStates
    <2>9. CASE c = "answer"
      BY <2>1, <2>3, <2>7, <2>8, <2>9 DEF Sound, Calls
    <2>10. CASE c = "verify"
      BY <2>1, <2>3, <2>4, <2>7, <2>8, <2>10 DEF Sound, Calls
    <2>11. QED
      BY <2>9, <2>10 DEF Billed
  <1>2. QED
    BY <1>1, LedgerInvariant, PTL

\* Output whose break the provider reported, probe output that broke off and
\* output cut off by a crash keep the deal shut, in this process and the next
\* (pause_unresolved_usage, has_unresolved_output_usage).
THEOREM OwedStaysShut == Spec => []UnresolvedStaysShut
  <1>1. LedgerInv => UnresolvedStaysShut
    BY OwedShut DEF LedgerInv
  <1>2. QED
    BY <1>1, LedgerInvariant, PTL

\* No step sends an automatic STOP of a deal with such output, that of another
\* request's failure policy included (usage_stop_guard, accepted_output_guard).
THEOREM OwedIsNotStopped == Spec => NoStopWhileOwed
  <1>1. LedgerInv /\ [Next]_vars => [stop' = "sent" /\ stop # "sent" => ~owed]_vars
    <2> SUFFICES ASSUME LedgerInv, Next, stop' = "sent", stop # "sent"
                 PROVE  ~owed
      OBVIOUS
    <2>1. SendStop
      BY DEF Next, Start, Admit, Bind, FinishUnbound, BeginVerify, BeginAnswer, Output, ObserveUsage,
             RecordBilling, Breaks, BreaksUnreported, Abandon, Finish, CheckStop, Crash, Restart, Aside
    <2>2. QED
      BY <2>1 DEF SendStop, SendOrVeto, LedgerInv, Control, StopGuarded
  <1>2. QED
    BY <1>1, LedgerInvariant, PTL DEF Spec, NoStopWhileOwed
=============================================================================
