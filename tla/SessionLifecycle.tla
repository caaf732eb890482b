-------------------------- MODULE SessionLifecycle --------------------------
(***************************************************************************)
(* The life of an operation session: the request handlers start, pause,    *)
(* resume, stop, cancel and area-summary of app/routes/sessions.py, run by *)
(* concurrent threadpool workers against one PostgreSQL database, together *)
(* with the writers of GPS readings whose rows the charge is computed from.*)
(*                                                                         *)
(* Atomicity.  The database runs READ COMMITTED and the handlers take no   *)
(* explicit lock.  A handler is split at every point where another         *)
(* transaction can commit in a way it can notice: after the first SELECT   *)
(* (its guard), inside BUFFER.flush() (a transaction of its own) and after *)
(* the SELECT of close_open_pause.  Whoever stores readings resolves their *)
(* session in one step and commits the rows in a later one.                *)
(* From its first UPDATE to its COMMIT a                                   *)
(* handler holds the row lock of its session: other handlers of the same   *)
(* session wait at their own UPDATE and read only committed rows, so that  *)
(* section is one action, and a rolled back one is Fail.  An UPDATE writes *)
(* the changed columns only; the others keep their committed values.       *)
(***************************************************************************)
EXTENDS Billing

CONSTANTS
  Requests,     \* workers, each running one request at a time
  Writers,      \* HTTP poller / fetch-through threads storing readings
  Sessions,     \* session ids
  Legacy,       \* the sessions that predate the rate lock
  Operators,    \* users with the role operator
  Rates,        \* usable rates of the owner's rate card
  ClockLag,     \* seconds the application's clock is behind the database's
  MaxPauses     \* bound on the pause rows of one session

ASSUME SessionsAssumption ==
  /\ Legacy \subseteq Sessions
  /\ Sessions \cap {Null, "future", "cloud", "buffer", "detached"} = {}
ASSUME RequestsAssumption == Null \notin Requests
ASSUME RatesAssumption == Rates \subseteq Nat \ {0}
ASSUME ClockLagAssumption == ClockLag \in Nat
ASSUME MaxPausesAssumption == MaxPauses \in Nat

VARIABLES
  now,      \* the application's clock
  row,      \* the committed row of each session
  pauses,   \* the committed session_pauses rows of each session, oldest first
  fix,      \* where the GPS fix of each instant is
  flush,    \* the flush that holds BUFFER's write lock
  card,     \* the owner's rate card (operation_charges)
  req,      \* what each worker holds in memory
  writer    \* what each ingestion transaction outside the buffer holds

vars == <<now, row, pauses, fix, flush, card, req, writer>>

Attachable == {"active", "paused"}
Terminal == {"completed", "aborted"}
Statuses == {"none"} \cup Attachable \cup Terminal

NoRow ==
  [status |-> "none", operator |-> Null, kind |-> Null, startedAt |-> Null,
   endedAt |-> Null, unit |-> Null, rate |-> Null, area |-> Null,
   hours |-> Null, total |-> Null, fin |-> FALSE]

Idle == [pc |-> "idle", s |-> Null, obj |-> NoRow, at |-> Null, open |-> 0]

IdleWriter == [batch |-> {}, target |-> Null]

\* The worker that called flush() has its name in `by`; the poller's timer and the closing
\* broker link have none.
NoFlush == [by |-> Null, batch |-> {}, target |-> Null]

\* Where a worker stands that stops or cancels: it has passed its guard, flushed, and read
\* the end.
Closing == {"stop", "cancel"}
FlushedPc(call) == IF call = "stop" THEN "stopFlushed" ELSE "cancelFlushed"
EndedPc(call) == IF call = "stop" THEN "stopEnded" ELSE "cancelEnded"

\* A fix is "future" until the machine records it, then at Adafruit ("cloud"), in
\* BUFFER ("buffer"), stored with no session ("detached") or stored on a session.
Stored == Sessions \cup {"detached"}
FixesOf(s) == {t \in Time : fix[t] = s}
Buffered == {t \in Time : fix[t] = "buffer"}

\* Terminated rows the migration left unfinalized, and sessions that were running when
\* it was applied: none has a charge, some have a rate.
LegacyRow(st, o, k, rt, a) ==
  [status |-> st, operator |-> o, kind |-> k, startedAt |-> 0,
   endedAt |-> IF st \in Terminal THEN 0 ELSE Null,
   unit |-> IF rt = Null THEN Null ELSE ChargeUnitFor(k), rate |-> rt,
   area |-> IF st \in Terminal THEN a ELSE Null,
   hours |-> Null, total |-> Null, fin |-> FALSE]

LegacyRows ==
  {LegacyRow(st, o, k, rt, a) :
     st \in Attachable \cup Terminal, o \in Operators, k \in OperationTypes,
     rt \in Maybe(Rates), a \in {Null, 1}}

Init ==
  /\ now = 0
  /\ row \in {r \in [Sessions -> LegacyRows \cup {NoRow}] :
                \A s \in Sessions : (s \in Legacy) <=> (r[s] # NoRow)}
  /\ pauses = [s \in Sessions |-> <<>>]
  /\ fix = [t \in Time |-> IF t = 0 THEN "cloud" ELSE "future"]
  /\ card \in [OperationTypes -> Maybe(Rates)]
  /\ req = [r \in Requests |-> Idle]
  /\ flush = NoFlush
  /\ writer = [w \in Writers |-> IdleWriter]

-----------------------------------------------------------------------------
(* The clock, the machine and the owner. *)

Tick ==
  /\ now < MaxTime
  /\ now' = now + 1
  /\ fix' = [fix EXCEPT ![now + 1] = "cloud"]
  /\ UNCHANGED <<row, pauses, flush, card, req, writer>>

\* Upsert, patch or delete of one row of the rate card.
EditRateCard(k, v) ==
  /\ card[k] # v
  /\ card' = [card EXCEPT ![k] = v]
  /\ UNCHANGED <<now, row, pauses, fix, flush, req, writer>>

-----------------------------------------------------------------------------
(* Readings: the buffer fed by MQTT and the transactions that bypass it. *)

\* Mutant: the status filter of resolve_target_session is dropped.
TargetsAnyStatus ==
  LET open == {s \in Sessions : row[s].status # "none"}
  IN  IF open = {} THEN {"detached"}
      ELSE {s \in open : \A u \in open : row[u].startedAt <= row[s].startedAt}

\* resolve_target_session without a preferred id: the most recently started attachable
\* session, or none.
Targets ==
  LET open == {s \in Sessions : row[s].status \in Attachable}
  IN  IF open = {} THEN {"detached"}
      ELSE {s \in open : \A u \in open : row[u].startedAt <= row[s].startedAt}

\* _handle_payload: the newest fix reaches BUFFER.add, once.
DeliverFix ==
  /\ fix[now] = "cloud"
  /\ now \notin flush.batch
  /\ fix' = [fix EXCEPT ![now] = "buffer"]
  /\ UNCHANGED <<now, row, pauses, flush, card, req, writer>>

\* Mutant: rows that were stored meanwhile are written again.
StoreBatchAgain(batch, place) == [t \in Time |-> IF t \in batch THEN place ELSE fix[t]]

\* ids that are stored already are skipped.
StoreBatch(batch, place) ==
  [t \in Time |-> IF t \in batch /\ fix[t] \notin Stored THEN place ELSE fix[t]]

\* BUFFER.flush() takes the write lock and the buffer with it; what it holds is at Adafruit
\* and in its memory only ...
TakeBuffer(by) ==
  /\ flush = NoFlush
  /\ Buffered # {}
  /\ flush' = [by |-> by, batch |-> Buffered, target |-> Null]
  /\ fix' = [t \in Time |-> IF fix[t] = "buffer" THEN "cloud" ELSE fix[t]]
  /\ UNCHANGED <<now, row, pauses, card, req, writer>>

\* The flushes no handler asked for: the poller's timer and MQTT's disconnect.
BackgroundFlush == TakeBuffer(Null)

\* ... resolves the session of the batch ...
FlushResolve(target) ==
  /\ flush # NoFlush
  /\ flush.target = Null
  /\ target \in Targets
  /\ flush' = [flush EXCEPT !.target = target]
  /\ UNCHANGED <<now, row, pauses, fix, card, req, writer>>

\* The lock is released and a handler that called flush() goes on.
FlushReturns ==
  /\ flush' = NoFlush
  /\ req' = IF flush.by = Null THEN req
            ELSE [req EXCEPT ![flush.by].pc = FlushedPc(@)]
  /\ UNCHANGED <<now, row, pauses, card, writer>>

\* ... and commits the rows later,
FlushCommit ==
  /\ flush.target # Null
  /\ fix' = StoreBatch(flush.batch, flush.target)
  /\ FlushReturns

\* or fails: the batch is dropped, and left for the backfill.
FlushDrop ==
  /\ flush # NoFlush
  /\ UNCHANGED fix
  /\ FlushReturns

\* store_readings: the poller, a fetch-through or the warm-up of a started session has
\* fetched fixes and resolves their session ...
WriterResolve(w, batch, target) ==
  /\ writer[w] = IdleWriter
  /\ batch # {}
  /\ \A t \in batch : fix[t] \in {"cloud", "buffer"}
  /\ target \in Targets
  /\ writer' = [writer EXCEPT ![w] = [batch |-> batch, target |-> target]]
  /\ UNCHANGED <<now, row, pauses, fix, flush, card, req>>

\* ... and commits them later.
WriterCommit(w) ==
  /\ writer[w] # IdleWriter
  /\ fix' = StoreBatch(writer[w].batch, writer[w].target)
  /\ writer' = [writer EXCEPT ![w] = IdleWriter]
  /\ UNCHANGED <<now, row, pauses, flush, card, req>>

-----------------------------------------------------------------------------
(* POST /sessions/start *)

NoOpenSession(o) ==
  \A s \in Sessions : row[s].operator = o => row[s].status \notin Attachable

\* The guards and the rate lock: no attachable session of this operator, and a usable
\* rate for the operation (422 otherwise).  startedAt is the transaction's now(), read
\* from the database's clock.
StartCheck(r, o, k) ==
  /\ req[r].pc = "idle"
  /\ NoOpenSession(o)
  /\ card[k] # Null
  /\ req' = [req EXCEPT ![r] =
       [Idle EXCEPT !.pc = "start",
                    !.obj = [NoRow EXCEPT !.status = "active", !.operator = o,
                                          !.kind = k, !.startedAt = now + ClockLag,
                                          !.unit = ChargeUnitFor(k), !.rate = card[k]]]]
  /\ UNCHANGED <<now, row, pauses, fix, flush, card, writer>>

StartCommit(r, s) ==
  /\ req[r].pc = "start"
  /\ row[s].status = "none"
  /\ row' = [row EXCEPT ![s] = req[r].obj]
  /\ req' = [req EXCEPT ![r] = Idle]
  /\ UNCHANGED <<now, pauses, fix, flush, card, writer>>

-----------------------------------------------------------------------------
(* PATCH /pause and /resume *)

PauseCheck(r, s) ==
  /\ req[r].pc = "idle"
  /\ row[s].status = "active"
  /\ Len(pauses[s]) < MaxPauses
  /\ req' = [req EXCEPT ![r] = [Idle EXCEPT !.pc = "pause", !.s = s, !.at = now]]
  /\ UNCHANGED <<now, row, pauses, fix, flush, card, writer>>

PauseCommit(r) ==
  LET s == req[r].s
  IN  /\ req[r].pc = "pause"
      /\ Len(pauses[s]) < MaxPauses
      /\ row' = [row EXCEPT ![s].status = "paused"]
      /\ pauses' = [pauses EXCEPT ![s] = Append(@, [from |-> req[r].at, to |-> Null])]
      /\ req' = [req EXCEPT ![r] = Idle]
      /\ UNCHANGED <<now, fix, flush, card, writer>>

ResumeCheck(r, s) ==
  /\ req[r].pc = "idle"
  /\ row[s].status = "paused"
  /\ req' = [req EXCEPT ![r] =
       [Idle EXCEPT !.pc = "resume", !.s = s, !.at = now,
                    !.open = LatestOpenPause(pauses[s])]]
  /\ UNCHANGED <<now, row, pauses, fix, flush, card, writer>>

ResumeCommit(r) ==
  LET s == req[r].s
  IN  /\ req[r].pc = "resume"
      /\ row' = [row EXCEPT ![s].status = "active"]
      /\ pauses' = [pauses EXCEPT ![s] = ClosePause(@, req[r].open, req[r].at)]
      /\ req' = [req EXCEPT ![r] = Idle]
      /\ UNCHANGED <<now, fix, flush, card, writer>>

-----------------------------------------------------------------------------
(* POST /stop and /cancel *)

MayClose(s) == row[s].status \in Attachable

CloseCheck(r, s, call) ==
  /\ req[r].pc = "idle"
  /\ MayClose(s)
  /\ req' = [req EXCEPT ![r] = [Idle EXCEPT !.pc = call, !.s = s]]
  /\ UNCHANGED <<now, row, pauses, fix, flush, card, writer>>

\* 1. BUFFER.flush() while the session is still attachable: it waits for a flush under way.
CloseFlush(r, call) ==
  /\ req[r].pc = call
  /\ TakeBuffer(r)

FlushNothing(r, call) ==
  /\ req[r].pc = call
  /\ flush = NoFlush
  /\ Buffered = {}
  /\ req' = [req EXCEPT ![r].pc = FlushedPc(call)]
  /\ UNCHANGED <<now, row, pauses, fix, flush, card, writer>>

\* 2. ended_at is read from the clock and close_open_pause selects the open interval.
CloseEnd(r, call) ==
  /\ req[r].pc = FlushedPc(call)
  /\ req' = [req EXCEPT ![r].pc = EndedPc(call), ![r].at = now,
                        ![r].open = LatestOpenPause(pauses[req[r].s])]
  /\ UNCHANGED <<now, row, pauses, fix, flush, card, writer>>

EndStatus(call) == IF call = "stop" THEN "completed" ELSE "aborted"

\* Mutant: cancelling issues the ordinary charge.
FinalizeAlways(call, r, ledger) == FinalizeSessionBilling(r, ledger)

Finalize(call, r, ledger) ==
  IF call = "stop" THEN FinalizeSessionBilling(r, ledger) ELSE FinalizeCancelledSession(r)

\* The row under its lock: status and ended_at are overwritten, the area is computed
\* from the stored fixes outside the pauses, and the charge is issued from the refreshed
\* row unless it is already final.
ClosedRow(s, call, at, ledger) ==
  Finalize(call,
           [row[s] EXCEPT !.status = EndStatus(call), !.endedAt = at,
                          !.area = AreaOf(FixesOf(s), ledger)],
           ledger)

\* 3. Close, measure, price and commit.
CloseCommit(r, call) ==
  LET s      == req[r].s
      ledger == ClosePause(pauses[s], req[r].open, req[r].at)
  IN  /\ req[r].pc = EndedPc(call)
      /\ row' = [row EXCEPT ![s] = ClosedRow(s, call, req[r].at, ledger)]
      /\ pauses' = [pauses EXCEPT ![s] = ledger]
      /\ req' = [req EXCEPT ![r] = Idle]
      /\ UNCHANGED <<now, fix, flush, card, writer>>

-----------------------------------------------------------------------------
(* GET /area-summary closes out a terminated session that has no charge. *)

BackfillCheck(r, s) ==
  /\ req[r].pc = "idle"
  /\ row[s].status \in Terminal
  /\ ~ row[s].fin
  /\ req' = [req EXCEPT ![r] = [Idle EXCEPT !.pc = "backfill", !.s = s, !.obj = row[s]]]
  /\ UNCHANGED <<now, row, pauses, fix, flush, card, writer>>

\* The billing columns are computed from the row as it was read, except that measuring
\* the area refreshes it first; columns that were not computed are not written.
WriteCharge(r, done) ==
  IF done.fin THEN [r EXCEPT !.hours = done.hours, !.total = done.total, !.fin = TRUE]
  ELSE r

\* Mutant: a session without a locked rate is priced from the current rate card.
BackfilledRowFromCard(s, obj) ==
  IF obj.status = "aborted" THEN WriteCharge(row[s], FinalizeCancelledSession(obj))
  ELSE FinalizeSessionBilling(
         [row[s] EXCEPT !.area = AreaOf(FixesOf(s), pauses[s]), !.rate = card[obj.kind]],
         pauses[s])

BackfilledRow(s, obj) ==
  IF obj.status = "aborted" THEN WriteCharge(row[s], FinalizeCancelledSession(obj))
  ELSE IF obj.area = Null
       THEN FinalizeSessionBilling(
              [row[s] EXCEPT !.area = AreaOf(FixesOf(s), pauses[s])], pauses[s])
       ELSE WriteCharge(row[s], FinalizeSessionBilling(obj, pauses[s]))

BackfillCommit(r) ==
  LET s == req[r].s
  IN  /\ req[r].pc = "backfill"
      /\ row' = [row EXCEPT ![s] = BackfilledRow(s, req[r].obj)]
      /\ req' = [req EXCEPT ![r] = Idle]
      /\ UNCHANGED <<now, pauses, fix, flush, card, writer>>

-----------------------------------------------------------------------------
(* Failure *)

\* An exception or a lost connection rolls the worker's transaction back; flush() raises none.
Fail(r) ==
  /\ req[r].pc # "idle"
  /\ flush.by # r
  /\ req' = [req EXCEPT ![r] = Idle]
  /\ UNCHANGED <<now, row, pauses, fix, flush, card, writer>>

\* The process is restarted: requests, open transactions and the buffer are gone.
Restart ==
  /\ fix' = [t \in Time |-> IF fix[t] = "buffer" THEN "cloud" ELSE fix[t]]
  /\ req' = [r \in Requests |-> Idle]
  /\ flush' = NoFlush
  /\ writer' = [w \in Writers |-> IdleWriter]
  /\ UNCHANGED <<now, row, pauses, card>>

RequestStep(r) ==
  \/ \E o \in Operators, k \in OperationTypes : StartCheck(r, o, k)
  \/ \E s \in Sessions : StartCommit(r, s)
  \/ \E s \in Sessions : PauseCheck(r, s) \/ ResumeCheck(r, s) \/ BackfillCheck(r, s)
  \/ PauseCommit(r)
  \/ ResumeCommit(r)
  \/ BackfillCommit(r)
  \/ \E call \in Closing :
       \/ \E s \in Sessions : CloseCheck(r, s, call)
       \/ CloseFlush(r, call)
       \/ FlushNothing(r, call)
       \/ CloseEnd(r, call)
       \/ CloseCommit(r, call)
  \/ Fail(r)

FlushStep ==
  \/ \E target \in Stored : FlushResolve(target)
  \/ FlushCommit
  \/ FlushDrop

WriterStep(w) ==
  \/ \E batch \in SUBSET Time, target \in Stored : WriterResolve(w, batch, target)
  \/ WriterCommit(w)

Next ==
  \/ Tick
  \/ \E k \in OperationTypes, v \in Maybe(Rates) : EditRateCard(k, v)
  \/ DeliverFix
  \/ BackgroundFlush
  \/ FlushStep
  \/ \E r \in Requests : RequestStep(r)
  \/ \E w \in Writers : WriterStep(w)
  \/ Restart

Spec == Init /\ [][Next]_vars
-----------------------------------------------------------------------------
(* Properties *)

RowType ==
  [status : Statuses, operator : Maybe(Operators), kind : Maybe(OperationTypes),
   startedAt : Maybe(0 .. MaxTime + ClockLag), endedAt : Maybe(Time),
   unit : Maybe({"per_ha", "per_hour"}), rate : Maybe(Rates), area : Maybe(Nat),
   hours : Maybe(Nat), total : Maybe(Nat), fin : BOOLEAN]

Pcs == {"idle", "start", "pause", "resume", "backfill"} \cup Closing
         \cup {FlushedPc(call) : call \in Closing} \cup {EndedPc(call) : call \in Closing}

ReqType ==
  [pc : Pcs, s : Maybe(Sessions), obj : RowType, at : Maybe(Time), open : Nat]

\* Every variable keeps its type: rows, pause ledgers, readings, rate card and what the
\* handlers of app/routes/sessions.py hold between two database calls.
TypeOK ==
  /\ now \in Time
  /\ row \in [Sessions -> RowType]
  /\ pauses \in [Sessions -> Seq(PauseRow)]
  /\ fix \in [Time -> {"future", "cloud", "buffer"} \cup Stored]
  /\ card \in [OperationTypes -> Maybe(Rates)]
  /\ req \in [Requests -> ReqType]
  /\ flush \in [by : Maybe(Requests), batch : SUBSET Time, target : Maybe(Stored)]
  /\ writer \in [Writers -> [batch : SUBSET Time, target : Maybe(Stored)]]

\* The charge promise of operation_cost_service.py, whatever the interleaving of stop,
\* cancel, pause, resume and backfill: the rate of a session is fixed when it is opened
\* and its charge is issued at most once and never moves afterwards.
Ledger == INSTANCE ChargeLedger WITH
  Sessions <- Sessions, Rates <- Rates, None <- Null,
  opened <- [s \in Sessions |-> row[s].status # "none"],
  rate   <- [s \in Sessions |-> row[s].rate],
  charge <- [s \in Sessions |-> IF row[s].fin THEN row[s].total ELSE Null]

ChargeLedgerSpec == Ledger!Spec

\* "Every session has a computable charge": a session started under the rate lock has
\* its final charge in every committed state in which it is completed or aborted, even
\* when stop, cancel and pause overwrite each other's status.
TerminatedIsPriced ==
  \A s \in Sessions \ Legacy : row[s].status \in Terminal => row[s].fin

\* The billed hours are written together with the charge computed from them: the row
\* never shows hours whose product with the locked rate is not its total.
HourlyBillReconciles ==
  \A s \in Sessions :
    row[s].hours # Null => row[s].fin /\ row[s].total = row[s].rate * row[s].hours

\* cancel_session: a cancelled session is terminated "at a final zero".
CancelledIsFree ==
  \A s \in Sessions : row[s].status = "aborted" /\ row[s].fin => row[s].total = 0

\* models/session.py on session_pauses: resumed_at IS NULL means "paused right now", so a
\* paused session has one open interval and no other session has any.
OpenPauseMeansPaused ==
  \A s \in Sessions \ Legacy :
    Cardinality(OpenPauses(pauses[s])) = IF row[s].status = "paused" THEN 1 ELSE 0

\* operation_cost_service.py: "rate x quantity = total can be verified by hand from the
\* summary alone", for a completed session in either unit.
BillReconciles ==
  \A s \in Sessions :
    row[s].status = "completed" /\ row[s].fin
    => row[s].total = row[s].rate * (IF row[s].unit = "per_hour" THEN row[s].hours
                                     ELSE row[s].area)

\* stop_session: the area is "computed over a complete set of readings": a fix attached to
\* a completed session and recorded outside its pauses is in its area.
Complete(s) == row[s].area = AreaOf(FixesOf(s), pauses[s])

AreaIsComplete ==
  \A s \in Sessions \ Legacy : row[s].status = "completed" => Complete(s)

\* A transaction that has resolved the session and not committed its rows.
Underway(s) == flush.target = s \/ \E w \in Writers : writer[w].target = s

\* Worked hours are the instants of the session outside every pause interval: a pause is
\* neither billed nor subtracted twice.
HoursAreWorkedTime ==
  \A s \in Sessions \ Legacy :
    row[s].status = "completed" /\ row[s].hours # Null =>
      row[s].hours =
        Cardinality({t \in row[s].startedAt .. row[s].endedAt - 1 :
                       \A i \in DOMAIN pauses[s] :
                         ~ (/\ pauses[s][i].from <= t
                            /\ pauses[s][i].to = Null \/ t < pauses[s][i].to)})

\* ingestion_pipeline.py: a reading is stored once, whichever of the buffer and the writers
\* that bypass it comes first, and is never moved to another session afterwards.
StoredReadingStays ==
  [][\A t \in Time : fix[t] \in Stored => fix'[t] = fix[t]]_vars

\* stop_session and resolve_target_session: what the area misses are the fixes of a
\* transaction that resolved the session before it ended and committed after.  A stop counts
\* all that is stored; once nothing of the session is under way, nothing more can come.
AreaMissesOnlyUnderway ==
  [][\A s \in Sessions :
       row'[s].status = "completed" =>
         IF row[s].status # "completed" THEN Complete(s)'
         ELSE Complete(s) /\ ~ Underway(s) => Complete(s)' /\ ~ Underway(s)']_vars

-----------------------------------------------------------------------------
(* What the proofs add to the properties to make them inductive. *)

\* A row that exists has a start, and a final one has a total.
RowShape ==
  \A s \in Sessions :
    /\ row[s].status = "none" => row[s] = NoRow
    /\ row[s].status # "none" => row[s].startedAt # Null
    /\ row[s].fin => row[s].total # Null

\* A worker past its check holds a session that exists and the times it has read; a
\* started row has its rate, and a backfill saw an unpriced row at its present rate.
Consistent(q) ==
  /\ q.pc \notin {"idle", "start"} => q.s \in Sessions /\ row[q.s].status # "none"
  /\ q.pc \in {"pause", "resume", "stopEnded", "cancelEnded"} => q.at # Null
  /\ q.pc = "start" =>
       /\ q.obj.status = "active" /\ q.obj.startedAt # Null /\ q.obj.rate # Null
       /\ q.obj.hours = Null /\ ~ q.obj.fin
  /\ q.pc = "backfill" =>
       /\ q.obj.startedAt # Null /\ q.obj.rate = row[q.s].rate
       /\ q.obj.hours = Null /\ ~ q.obj.fin

RequestShape == \A r \in Requests : Consistent(req[r])

WriterShape == \A w \in Writers : writer[w] # IdleWriter => writer[w].target \in Stored

\* A handler whose flush is under way has not gone on.
FlushShape ==
  /\ flush.by # Null => req[flush.by].pc \in Closing
  /\ flush.target # Null => flush # NoFlush

IInv == TypeOK /\ RowShape /\ RequestShape /\ WriterShape /\ FlushShape /\ HourlyBillReconciles

\* With the two clocks in step no session starts in the future, so a session that is
\* ended has a number of worked hours; one started under the rate lock has a rate.
StartsInThePast ==
  /\ \A s \in Sessions : row[s].status # "none" => row[s].startedAt <= now
  /\ \A r \in Requests : req[r].pc = "start" => req[r].obj.startedAt <= now
  /\ \A r \in Requests :
       req[r].pc \in {"stopEnded", "cancelEnded"} => row[req[r].s].startedAt <= req[r].at

RateIsLocked == \A s \in Sessions \ Legacy : row[s].status # "none" => row[s].rate # Null

PInv == StartsInThePast /\ RateIsLocked /\ TerminatedIsPriced

\* The machine records the fix of an instant when the clock reaches it, and a writer has
\* only fixes that were recorded.
FutureIsFuture ==
  /\ \A t \in Time : fix[t] = "future" <=> t > now
  /\ \A t \in flush.batch : fix[t] # "future"
  /\ \A w \in Writers : \A t \in writer[w].batch : fix[t] # "future"

\* A worker between two database calls of a request on a session.
Working(q) == q.pc \notin {"idle", "start"}

\* Requests overlap, but no two in flight concern one session: every client waits for its
\* answer, and only one person acts on a session.
Apart ==
  \A a, b \in Requests :
    a # b /\ Working(req[a]) /\ Working(req[b]) => req[a].s # req[b].s

=============================================================================
