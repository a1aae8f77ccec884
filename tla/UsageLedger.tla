----------------------------- MODULE UsageLedger -----------------------------
(***************************************************************************)
(* What a buyer's usage history says of the paid work on one deal          *)
(* (buyer/usage.rs, buyer/usage_snapshot.rs, buyer/api/usage.rs and the    *)
(* request guard of buyer/api/mod.rs).  Requests run concurrently: each is *)
(* admitted, bound to the deal, runs the identity probe once per process,  *)
(* streams its answer and is finished.  Every write to the history may     *)
(* fail, a consumer may leave at any moment, the process may crash.        *)
(*                                                                         *)
(* A provider call either produces output and ends with a usage record, or *)
(* breaks.  A break is reported by the provider (a gateway status with the *)
(* output marker), or only seen by the buyer: a transport error, an answer *)
(* without a usage record, a bill that is refused.  Output of a reported   *)
(* break is owed a usage record and pauses the deal; the other breaks of   *)
(* an answer are left to the failure policies of the buyer, which may send *)
(* an automatic STOP or serve on.  Each accepted call is charged one unit. *)
(* The two probes of the code follow the same steps; one stands for both.  *)
(***************************************************************************)
EXTENDS Naturals, FiniteSets

CONSTANTS
  Requests,
  MaxFaults,   \* bound: writes that fail
  MaxRuns      \* bound: lives of the process

ASSUME LedgerAssumption ==
  IsFiniteSet(Requests) /\ MaxFaults \in Nat /\ MaxRuns \in Nat \ {0}

Calls == {"verifyState", "verify", "answerState", "answer"}
Billed == {"verify", "answer"}
StateOf(call) == IF call = "verify" THEN "verifyState" ELSE "answerState"

VARIABLES
  req,      \* the requests table
  rows,     \* the request_usage table: "none", "seen" or "accepted"
  totals,   \* the admission counters kept beside them
  life,     \* the process: its number, and whether it runs
  flag,     \* unresolved_output_usage of the session
  gate,     \* the identity probe: "open", "running", "passed"
  h,        \* the handler of each request
  stop,     \* the automatic STOP: "none", "checked", "sent"
  faults,
  output,   \* the calls with output the buyer has seen or was told of
  owed      \* output is owed a usage record that never came

vars == <<req, rows, totals, life, flag, gate, h, stop, faults, output, owed>>

NoRequest == [run |-> 0, linked |-> FALSE, outcome |-> "none", finished |-> FALSE,
              complete |-> TRUE]
Fresh == [pc |-> "new", hist |-> TRUE, usage |-> FALSE, end |-> "none"]

Init ==
  /\ req = [r \in Requests |-> NoRequest]
  /\ rows = [r \in Requests |-> [c \in Calls |-> "none"]]
  /\ totals = [incomplete |-> 0, charged |-> 0, deal |-> 0]
  /\ life = [run |-> 1, up |-> TRUE]
  /\ flag = FALSE /\ gate = "open" /\ stop = "none" /\ faults = 0
  /\ h = [r \in Requests |-> Fresh]
  /\ output = {} /\ owed = FALSE

-----------------------------------------------------------------------------
(* The history                                                             *)

\* What one request adds to the counters.
RequestTotals(q, u) ==
  LET whole == /\ q.finished /\ q.complete
               /\ \A c \in Calls : u[c] # "seen"
               /\ \/ u["answer"] # "none" \/ u["answerState"] # "none"
                  \/ q.outcome = "rejected" /\ ~q.linked
  IN  [incomplete |-> IF whole THEN 0 ELSE 1, linked |-> q.linked,
       charged |-> Cardinality({c \in Billed : u[c] = "accepted"})]

Nothing == [incomplete |-> 0, linked |-> FALSE, charged |-> 0]

\* Slip: what a request was charged is added to the deal again by each of its
\* later writes.
UpdateLate(before, after) ==
  [incomplete |-> totals.incomplete - before.incomplete + after.incomplete,
   charged |-> totals.charged - before.charged + after.charged,
   deal |-> totals.deal + after.charged]

Update(before, after) ==
  [incomplete |-> totals.incomplete - before.incomplete + after.incomplete,
   charged |-> totals.charged - before.charged + after.charged,
   deal |-> IF ~after.linked THEN totals.deal
            ELSE totals.deal - (IF before.linked THEN before.charged ELSE 0) + after.charged]

\* A transaction: the request, its calls and the counters change together, or
\* the write fails and nothing changes.
Commit(r, q, u) ==
  /\ req' = [req EXCEPT ![r] = q]
  /\ rows' = [rows EXCEPT ![r] = u]
  /\ totals' = Update(IF req[r] = NoRequest THEN Nothing ELSE RequestTotals(req[r], rows[r]),
                      RequestTotals(q, u))
  /\ UNCHANGED faults

Lost ==
  /\ faults < MaxFaults /\ faults' = faults + 1
  /\ UNCHANGED <<req, rows, totals>>

Still == UNCHANGED <<req, rows, totals, faults>>

\* An accepted call completes the state row of its phase; a row is never
\* taken back.
Recorded(u, call, accepted) ==
  [c \in Calls |->
     IF c = call THEN (IF accepted THEN "accepted" ELSE IF u[c] = "none" THEN "seen" ELSE u[c])
     ELSE IF accepted /\ call \in Billed /\ c = StateOf(call) /\ u[c] = "seen" THEN "accepted"
     ELSE u[c]]

RecordCall(r, call, accepted) == Commit(r, req[r], Recorded(rows[r], call, accepted))

\* Slip: an interrupted request of an earlier process does not count.
UnresolvedHere ==
  \E r \in Requests :
    /\ req[r].linked
    /\ \/ ~req[r].complete
       \/ rows[r]["answerState"] = "seen"
       \/ rows[r]["verifyState"] = "seen" /\ req[r].finished

Unresolved ==
  \E r \in Requests :
    /\ req[r].linked
    /\ \/ ~req[r].complete
       \/ ~req[r].finished /\ req[r].run # life.run
       \/ rows[r]["answerState"] = "seen"
       \/ rows[r]["verifyState"] = "seen" /\ (req[r].finished \/ req[r].run # life.run)

\* The gate in front of every paid phase and automatic chain write.  A history
\* that cannot be read counts as unresolved, and the answer is remembered.
Refuses(pending) ==
  /\ \/ pending = (flag \/ Unresolved) /\ UNCHANGED faults
     \/ pending /\ ~flag /\ faults < MaxFaults /\ faults' = faults + 1
  /\ flag' = (flag \/ pending)

-----------------------------------------------------------------------------
(* A request                                                               *)

At(r, pc) == life.up /\ h[r].pc = pc
Go(r, pc) == h' = [h EXCEPT ![r].pc = pc]
End(r, how) == h' = [h EXCEPT ![r].pc = "finishing", ![r].end = how]
Table == <<req, rows, totals>>
Aside == <<life, stop, output, owed>>

Start(r) ==
  /\ At(r, "new")
  /\ \/ Commit(r, [NoRequest EXCEPT !.run = life.run, !.outcome = "in_progress"], rows[r])
        /\ Go(r, "started")
     \/ Lost /\ Go(r, "done")
  /\ UNCHANGED Aside /\ UNCHANGED <<flag, gate>>

\* Before it is bound a request can be refused for the gate, or for its own
\* content, or be given up by its consumer.
Admit(r) ==
  /\ At(r, "started")
  /\ \E pending \in BOOLEAN :
       /\ Refuses(pending)
       /\ \E how \in {"failed", "rejected", "cancelled", "bind"} :
            /\ pending => how # "bind"
            /\ h' = [h EXCEPT ![r].pc = IF how = "bind" THEN "bind" ELSE "unbound", ![r].end = how]
  /\ UNCHANGED Table /\ UNCHANGED Aside /\ UNCHANGED gate

\* Binding is two writes; the request is armed only after both.
Bind(r) ==
  /\ At(r, "bind")
  /\ LET linked == [req[r] EXCEPT !.linked = TRUE]
         drop == h' = [h EXCEPT ![r].pc = "unbound", ![r].end = "failed"]
     IN  \/ Commit(r, linked, rows[r]) /\ Go(r, "armed")
         \/ Lost /\ drop
         \/ /\ faults < MaxFaults /\ faults' = faults + 1
            /\ req' = [req EXCEPT ![r] = linked] /\ UNCHANGED rows
            /\ totals' = Update(RequestTotals(req[r], rows[r]), RequestTotals(linked, rows[r]))
            /\ drop
  /\ UNCHANGED Aside /\ UNCHANGED <<flag, gate>>

\* A request that was never armed is finished by its middleware.
FinishUnbound(r) ==
  /\ At(r, "unbound")
  /\ \/ Commit(r, [req[r] EXCEPT !.finished = TRUE, !.outcome = h[r].end], rows[r])
     \/ Lost
  /\ Go(r, "done")
  /\ UNCHANGED Aside /\ UNCHANGED <<flag, gate>>

\* Before a paid phase the gate is asked again, and a session that a policy has
\* closed meanwhile refuses as well; a closed session may be opened again
\* (cancel_recovery_without_post), so closing is a choice here.
RefusePhase(r) ==
  /\ \E pending \in BOOLEAN : Refuses(pending)
  /\ End(r, "failed")
  /\ UNCHANGED Table /\ UNCHANGED gate

\* The first request of a process runs the probe; the others wait for it.
\* Its state row is written before the call.
BeginVerify(r) ==
  /\ At(r, "armed") /\ gate = "open"
  /\ \/ RefusePhase(r)
     \/ /\ ~flag /\ ~Unresolved
        /\ gate' = "running" /\ UNCHANGED flag
        /\ \/ RecordCall(r, "verifyState", FALSE) /\ Go(r, "verifying")
           \/ Lost /\ h' = [h EXCEPT ![r].pc = "verifying", ![r].hist = FALSE]
  /\ UNCHANGED Aside

BeginAnswer(r) ==
  /\ At(r, "armed") /\ gate = "passed"
  /\ \/ RefusePhase(r)
     \/ /\ ~flag /\ ~Unresolved
        /\ Go(r, "answering") /\ Still /\ UNCHANGED <<flag, gate>>
  /\ UNCHANGED Aside

Phase(r) == IF h[r].pc = "verifying" THEN "verify" ELSE "answer"
Calling(r) == life.up /\ h[r].pc \in {"verifying", "answering"}
Started(r) == <<r, Phase(r)>> \in output

Output(r) ==
  /\ Calling(r) /\ ~Started(r)
  /\ output' = output \cup {<<r, Phase(r)>>}
  /\ Still /\ UNCHANGED <<h, life, flag, gate, stop, owed>>

\* The provider's usage record is written before it is accepted.
ObserveUsage(r) ==
  /\ Calling(r) /\ Started(r) /\ ~h[r].usage
  /\ \/ RecordCall(r, Phase(r), FALSE) /\ h' = [h EXCEPT ![r].usage = TRUE]
     \/ Lost /\ h' = [h EXCEPT ![r].usage = TRUE, ![r].hist = FALSE]
  /\ UNCHANGED Aside /\ UNCHANGED <<flag, gate>>

\* The call is accepted.  A probe is recorded by two writes, the second for its
\* state row, and either of them can fail.
RecordProbe(r) ==
  \E first, second \in BOOLEAN :
    /\ LET u == IF first THEN Recorded(rows[r], "verify", TRUE) ELSE rows[r]
           w == IF second THEN Recorded(u, "verifyState", TRUE) ELSE u
       IN  /\ rows' = [rows EXCEPT ![r] = w] /\ UNCHANGED req
           /\ totals' = Update(RequestTotals(req[r], rows[r]), RequestTotals(req[r], w))
    /\ IF first /\ second THEN UNCHANGED faults ELSE faults < MaxFaults /\ faults' = faults + 1
    /\ h' = [h EXCEPT ![r].pc = "armed", ![r].usage = FALSE, ![r].hist = @ /\ first /\ second]

RecordBilling(r) ==
  /\ Calling(r) /\ h[r].usage
  /\ IF Phase(r) = "answer"
     THEN /\ \/ RecordCall(r, "answer", TRUE) /\ End(r, "succeeded")
             \/ Lost
                /\ h' = [h EXCEPT ![r].pc = "finishing", ![r].end = "succeeded", ![r].hist = FALSE]
          /\ UNCHANGED gate
     ELSE gate' = "passed" /\ RecordProbe(r)
  /\ UNCHANGED Aside /\ UNCHANGED flag

\* Output without usage: the session is paused first, then the state row is
\* written; if that write fails the request's history is incomplete.
Pause(r) ==
  /\ flag' = TRUE /\ owed' = TRUE
  /\ \/ RecordCall(r, StateOf(Phase(r)), FALSE) /\ End(r, "failed")
     \/ Lost /\ h' = [h EXCEPT ![r].pc = "finishing", ![r].end = "failed", ![r].hist = FALSE]

\* A call that breaks before any output completes its state row.
BreaksEarly(r) ==
  /\ \/ /\ Phase(r) = "verify"
        /\ \/ RecordCall(r, "verifyState", TRUE) /\ End(r, "failed")
           \/ Lost /\ h' = [h EXCEPT ![r].pc = "finishing", ![r].end = "failed", ![r].hist = FALSE]
     \/ Phase(r) = "answer" /\ End(r, "failed") /\ Still
  /\ UNCHANGED <<flag, owed>>

\* An answer that breaks without the provider's report, or whose bill is
\* refused, is left to a failure policy (dead_gateway before any output, else
\* seller_stalls_mid_stream): the request just fails (keep_open, fail_closed), or
\* the gate is asked and then a dispute is opened or, under the settlement lock,
\* a STOP is prepared; the handler waits for it.
BreaksUnreported(r) ==
  /\ Phase(r) = "answer"
  /\ \/ End(r, "failed") /\ UNCHANGED <<flag, faults, stop>>
     \/ \E pending \in BOOLEAN :
          /\ Refuses(pending)
          /\ \/ End(r, "failed") /\ UNCHANGED stop
             \/ ~pending /\ stop = "none" /\ stop' = "checked" /\ Go(r, "stopping")
  /\ UNCHANGED Table /\ UNCHANGED owed

\* After output a probe is held to be owed whoever reports the break.
Breaks(r) ==
  /\ Calling(r)
  /\ \/ Started(r) /\ Pause(r) /\ UNCHANGED stop
     \/ ~Started(r) /\ BreaksEarly(r) /\ UNCHANGED stop
     \/ BreaksUnreported(r)
  /\ gate' = IF gate = "running" /\ h[r].pc = "verifying" THEN "open" ELSE gate
  /\ UNCHANGED <<life, output>>

\* The consumer leaves, or the answer is refused for its content.  A handler
\* that is dropped drops the STOP it was preparing.
Abandon(r) ==
  /\ life.up /\ h[r].pc \in {"armed", "verifying", "answering", "stopping"}
  /\ \E how \in {"cancelled", "failed"} : (h[r].pc = "answering" \/ how = "cancelled") /\ End(r, how)
  /\ gate' = IF h[r].pc = "verifying" THEN "open" ELSE gate
  /\ stop' = IF h[r].pc = "stopping" /\ stop = "checked" THEN "none" ELSE stop
  /\ Still /\ UNCHANGED <<life, flag, output, owed>>

\* Slip: the request is finished although its history could not be marked.
FinishAnyway(r) ==
  /\ At(r, "finishing")
  /\ \/ Commit(r, [req[r] EXCEPT !.finished = TRUE, !.outcome = h[r].end], rows[r])
     \/ Lost
  /\ Go(r, "done")
  /\ UNCHANGED Aside /\ UNCHANGED <<flag, gate>>

\* An incomplete history is marked before the request is finished; without the
\* mark the request stays unfinished.
Finish(r) ==
  /\ At(r, "finishing")
  /\ IF h[r].hist
     THEN /\ \/ Commit(r, [req[r] EXCEPT !.finished = TRUE, !.outcome = h[r].end], rows[r])
             \/ Lost
          /\ Go(r, "done")
     ELSE \/ Commit(r, [req[r] EXCEPT !.complete = FALSE], rows[r])
             /\ h' = [h EXCEPT ![r].hist = TRUE]
          \/ Lost /\ Go(r, "done")
  /\ UNCHANGED Aside /\ UNCHANGED <<flag, gate>>

-----------------------------------------------------------------------------
(* The automatic STOP, crashes                                             *)

\* The other automatic STOPs: at the end of the session and after a failed
\* check of an answer's content.  Each is checked against the history.
CheckStop ==
  /\ life.up /\ stop = "none"
  /\ \E pending \in BOOLEAN : Refuses(pending) /\ stop' = IF pending THEN "none" ELSE "checked"
  /\ UNCHANGED <<req, rows, totals, life, gate, h, output, owed>>

\* Slip: the veto is not asked again.
SendUnasked == stop' = "sent"

\* Just before it is sent a STOP is vetoed when the session is paused.
SendOrVeto == stop' = IF flag THEN "none" ELSE "sent"

\* A STOP can also fail unsent, or be given up because accepted output arrived.
SendStop ==
  /\ life.up /\ stop = "checked" /\ (SendOrVeto \/ stop' = "none")
  /\ h' = [r \in Requests |-> IF h[r].pc = "stopping"
                              THEN [h[r] EXCEPT !.pc = "finishing", !.end = "failed"] ELSE h[r]]
  /\ Still /\ UNCHANGED <<life, flag, gate, output, owed>>

Crash ==
  /\ life.up /\ life.run < MaxRuns
  /\ life' = [life EXCEPT !.up = FALSE]
  /\ owed' = (owed \/ \E r \in Requests : Calling(r) /\ Started(r))
  /\ h' = [r \in Requests |-> IF h[r].pc = "new" THEN h[r] ELSE [Fresh EXCEPT !.pc = "done"]]
  /\ flag' = FALSE /\ gate' = "open" /\ stop' = IF stop = "sent" THEN "sent" ELSE "none"
  /\ Still /\ UNCHANGED output

Restart ==
  /\ ~life.up
  /\ life' = [run |-> life.run + 1, up |-> TRUE]
  /\ req' = [r \in Requests |->
       IF req[r].outcome = "in_progress" THEN [req[r] EXCEPT !.outcome = "interrupted"] ELSE req[r]]
  /\ UNCHANGED <<rows, totals, flag, gate, h, stop, faults, output, owed>>

Next ==
  \/ \E r \in Requests :
       \/ Start(r) \/ Admit(r) \/ Bind(r) \/ FinishUnbound(r) \/ BeginVerify(r)
       \/ BeginAnswer(r) \/ Output(r) \/ ObserveUsage(r) \/ RecordBilling(r) \/ Breaks(r)
       \/ Abandon(r) \/ Finish(r)
  \/ CheckStop \/ SendStop \/ Crash \/ Restart

Spec == Init /\ [][Next]_vars

-----------------------------------------------------------------------------

Recomputed(r) == RequestTotals(req[r], rows[r])
Known == {r \in Requests : req[r] # NoRequest}

\* The counters /v1/usage/admission reads are exactly what the history adds up
\* to, after any order of bindings, acceptances, second writes, incompleteness
\* marks, failed writes and restarts of concurrent requests (update_totals_in).
TotalsExact ==
  /\ totals.incomplete = Cardinality({r \in Known : Recomputed(r).incomplete = 1})
  /\ totals.charged = Cardinality({p \in Requests \X Billed : rows[p[1]][p[2]] = "accepted"})
  /\ totals.deal = totals.charged

\* "A missing paid phase cannot later appear as a confirmed zero": when the
\* counters say that no request is incomplete, every call that produced output
\* is accepted and counted (mark_request_history_incomplete, finish_delivery).
NothingMissingWhenComplete ==
  totals.incomplete = 0 => \A o \in output : rows[o[1]][o[2]] = "accepted"

\* Output whose break the provider reported, probe output that broke off, and
\* output cut off by a crash keep the deal closed to paid work, in this process
\* and in the next, whichever of the writes that should say so failed
\* (pause_unresolved_usage, has_unresolved_output_usage).
UnresolvedStaysShut == owed /\ life.up => flag \/ Unresolved

\* No automatic STOP leaves for a deal with such output, neither at the end of the
\* session nor for another request's failure policy, also when the output breaks
\* off after the STOP was checked (usage_stop_guard, accepted_output_guard).
NoStopWhileOwed == [][stop' = "sent" /\ stop # "sent" => ~owed]_vars
=============================================================================
