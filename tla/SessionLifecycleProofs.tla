----------------------- MODULE SessionLifecycleProofs -----------------------
(***************************************************************************)
(* Theorems about SessionLifecycle, for every number of workers, writers,  *)
(* sessions, operators and rates, and every bound on time and pauses.      *)
(***************************************************************************)
EXTENDS SessionLifecycle, FiniteSetTheorems, TLAPS

\* The area of a session is a natural number: its fixes are finitely many.
LEMMA AreaIsNatural ==
  ASSUME NEW fixes \in SUBSET Time, NEW ledger
  PROVE  AreaOf(fixes, ledger) \in Nat
<1>1. IsFiniteSet(Time)
  BY TimeAssumption, FS_Interval DEF Time
<1>2. WorkedFixes(fixes, ledger) \subseteq Time
  BY DEF WorkedFixes
<1> QED
  BY <1>1, <1>2, FS_Subset, FS_CardinalityType DEF AreaOf

\* So is the paused time of a ledger, which has finitely many rows.
LEMMA PausedTimeIsNatural ==
  ASSUME NEW ledger \in Seq(PauseRow), NEW until
  PROVE  PausedTime(ledger, until) \in Nat
<1>1. IsFiniteSet(Time) /\ IsFiniteSet(DOMAIN ledger)
  <2>1. DOMAIN ledger = 1 .. Len(ledger) /\ Len(ledger) \in Nat
    OBVIOUS
  <2> QED
    BY <2>1, TimeAssumption, FS_Interval DEF Time
<1>2. IsFiniteSet((DOMAIN ledger) \X Time)
  BY <1>1, FS_Product
<1>3. PausedInstants(ledger, until) \subseteq (DOMAIN ledger) \X Time
  BY DEF PausedInstants
<1> QED
  BY <1>2, <1>3, FS_Subset, FS_CardinalityType DEF PausedTime

\* Billable hours are a natural number, or Null when the session has not ended or the
\* clock ran backwards.
LEMMA BillableHoursType ==
  ASSUME NEW r \in RowType, r.startedAt # Null, NEW ledger \in Seq(PauseRow)
  PROVE  BillableHours(r, ledger) \in Nat \cup {Null}
<1>1. PausedTime(ledger, r.endedAt) \in Nat
  BY PausedTimeIsNatural
<1>2. r.startedAt \in Int /\ r.endedAt \in Int \cup {Null}
  BY TimeAssumption, ClockLagAssumption DEF RowType, Time, Maybe, Statuses
<1> QED
  BY <1>1, <1>2 DEF BillableHours

\* Issuing a charge keeps the type of a row.
LEMMA IssueType ==
  ASSUME NEW r \in RowType, NEW total \in Maybe(Nat)
  PROVE  Issue(r, total) \in RowType
  BY DEF Issue, RowType

\* Pricing a row keeps its type, and an issued charge is a number.
LEMMA FinalizeType ==
  ASSUME NEW r \in RowType, r.startedAt # Null, NEW ledger \in Seq(PauseRow)
  PROVE  LET d == FinalizeSessionBilling(r, ledger)
         IN  /\ d \in RowType
             /\ ~ r.fin /\ d.fin => d.total # Null
<1> DEFINE q == Quantity(r, ledger)
<1>1. q \in Nat \cup {Null}
  BY BillableHoursType DEF Quantity, RowType, Maybe, Statuses
<1>2. CASE r.fin \/ r.rate = Null \/ q = Null
  BY <1>2 DEF FinalizeSessionBilling, PriceRow
<1>3. CASE ~(r.fin \/ r.rate = Null \/ q = Null)
  <2>1. FinalizeSessionBilling(r, ledger) = Issue(WithHours(r, q), r.rate * q)
    BY <1>3 DEF FinalizeSessionBilling, PriceRow
  <2>2. r.rate \in Nat
    BY <1>3, RatesAssumption DEF RowType, Maybe, Statuses
  <2> HIDE DEF q
  <2>3. r.rate * q \in Nat /\ r.rate * q # Null /\ r.rate * q \in Maybe(Nat)
    BY <1>1, <1>3, <2>2, NullAssumption DEF Maybe
  <2>4. q \in Maybe(Nat)
    BY <1>1 DEF Maybe
  <2>5. WithHours(r, q) \in RowType
    BY <2>4 DEF WithHours, RowType
  <2>6. Issue(WithHours(r, q), r.rate * q).total = r.rate * q
    BY <2>5 DEF Issue, RowType
  <2> QED
    BY <2>1, <2>3, <2>5, <2>6, IssueType
<1> QED
  BY <1>2, <1>3

LEMMA CancelledType ==
  ASSUME NEW r \in RowType
  PROVE  FinalizeCancelledSession(r) \in RowType
<1>1. 0 \in Maybe(Nat)
  BY DEF Maybe
<1> QED
  BY <1>1, IssueType DEF FinalizeCancelledSession

\* The charge of a row is the only part pricing changes; it is issued once, together with
\* the hours it was computed from.
LEMMA FinalizeEffect ==
  ASSUME NEW r \in RowType, NEW ledger
  PROVE  LET d == FinalizeSessionBilling(r, ledger)
         IN  /\ d.status = r.status /\ d.startedAt = r.startedAt /\ d.rate = r.rate
             /\ r.fin => d = r
             /\ ~ d.fin => d = r
             /\ ~ r.fin /\ d.fin /\ r.hours = Null /\ d.hours # Null
                  => d.total = r.rate * d.hours
  BY DEF FinalizeSessionBilling, PriceRow, Issue, WithHours, RowType, Maybe, Statuses

LEMMA CancelledEffect ==
  ASSUME NEW r \in RowType
  PROVE  LET d == FinalizeCancelledSession(r)
         IN  /\ d.status = r.status /\ d.startedAt = r.startedAt /\ d.rate = r.rate
             /\ d.hours = r.hours /\ d.fin
             /\ r.fin => d = r
  BY DEF FinalizeCancelledSession, Issue, RowType, Maybe, Statuses

-----------------------------------------------------------------------------
(* The inductive invariant. *)

LEMMA NoRowType == NoRow \in RowType
  BY DEF NoRow, RowType, Maybe, Statuses

LEMMA IdleType == Idle \in ReqType /\ Consistent(Idle)
  BY NoRowType DEF Idle, ReqType, Pcs, Consistent, Maybe

\* A step of one worker that changes nothing but what the worker holds.
LEMMA WorkerStep ==
  ASSUME IInv,
         NEW r \in Requests, NEW q \in ReqType, Consistent(q),
         req' = [req EXCEPT ![r] = q],
         flush.by = r => q.pc \in Closing,
         UNCHANGED <<now, row, pauses, fix, flush, card, writer>>
  PROVE  IInv'
<1>1. TypeOK'
  BY DEF IInv, TypeOK
<1>2. RequestShape'
  BY DEF IInv, TypeOK, RequestShape, Consistent
<1>3. RowShape' /\ WriterShape' /\ HourlyBillReconciles'
  BY DEF IInv, RowShape, WriterShape, HourlyBillReconciles
<1>4. FlushShape'
  BY DEF IInv, TypeOK, FlushShape, Maybe
<1> QED
  BY <1>1, <1>2, <1>3, <1>4 DEF IInv

\* A committing step of one worker: it overwrites the row of an existing session without
\* touching its rate, and leaves the worker idle.
LEMMA CommitStep ==
  ASSUME IInv,
         NEW r \in Requests, flush.by # r,
         NEW s \in Sessions, NEW new \in RowType, NEW ledger \in Seq(PauseRow),
         row[s].status # "none", new.status # "none", new.startedAt # Null,
         new.rate = row[s].rate, new.fin => new.total # Null,
         new.hours # Null => new.fin /\ new.total = new.rate * new.hours,
         row' = [row EXCEPT ![s] = new],
         pauses' = [pauses EXCEPT ![s] = ledger],
         req' = [req EXCEPT ![r] = Idle],
         UNCHANGED <<now, fix, flush, card, writer>>
  PROVE  IInv'
<1>1. TypeOK'
  BY IdleType DEF IInv, TypeOK
<1>2. RowShape' /\ HourlyBillReconciles'
  BY DEF IInv, TypeOK, RowShape, HourlyBillReconciles
<1>3. \A q \in ReqType : Consistent(q) => Consistent(q)'
  BY DEF IInv, TypeOK, Consistent
<1>4. RequestShape'
  <2>1. \A u \in Requests : req[u] \in ReqType /\ Consistent(req[u])
    BY DEF IInv, TypeOK, RequestShape
  <2>2. \A u \in Requests : req'[u] \in ReqType /\ Consistent(req'[u])
    BY <2>1, IdleType DEF IInv, TypeOK
  <2>3. ASSUME NEW u \in Requests PROVE Consistent(req[u])'
    BY <2>2, <1>3 DEF Consistent
  <2> QED
    BY <2>3 DEF RequestShape
<1>5. WriterShape' /\ FlushShape'
  BY DEF IInv, TypeOK, WriterShape, FlushShape, Maybe
<1> QED
  BY <1>1, <1>2, <1>4, <1>5 DEF IInv

\* The ledger operations keep the type of a ledger.
LEMMA LedgerType ==
  ASSUME NEW ledger \in Seq(PauseRow), NEW i, NEW at \in Time
  PROVE  /\ LatestOpenPause(ledger) \in Nat
         /\ ClosePause(ledger, i, at) \in Seq(PauseRow)
         /\ Append(ledger, [from |-> at, to |-> Null]) \in Seq(PauseRow)
<1>1. LatestOpenPause(ledger) \in Nat
  BY DEF LatestOpenPause, OpenPauses
<1>2. ClosePause(ledger, i, at) \in Seq(PauseRow)
  <2>1. CASE i \notin DOMAIN ledger
    <3>1. [ledger EXCEPT ![i].to = at] = ledger
      BY <2>1
    <3> QED
      BY <3>1 DEF ClosePause
  <2>2. CASE i \in DOMAIN ledger
    <3>0. ledger[i] \in PauseRow
      BY <2>2
    <3>1. [ledger[i] EXCEPT !.to = at] \in PauseRow
      BY <3>0 DEF PauseRow, Maybe
    <3>2. [ledger EXCEPT ![i].to = at] \in Seq(PauseRow)
      BY <2>2, <3>1
    <3> QED
      BY <3>2 DEF ClosePause
  <2> QED
    BY <2>1, <2>2
<1>3. [from |-> at, to |-> Null] \in PauseRow
  BY DEF PauseRow, Maybe
<1> QED
  BY <1>1, <1>2, <1>3

LEMMA InitInvariant == Init => IInv
<1> SUFFICES ASSUME Init PROVE IInv
  OBVIOUS
<1>1. ASSUME NEW r \in LegacyRows
      PROVE  /\ r \in RowType /\ r.startedAt = 0 /\ ~ r.fin /\ r.hours = Null
             /\ r.status # "none"
  <2>1. PICK st \in Attachable \cup Terminal, o \in Operators, k \in OperationTypes,
             rt \in Maybe(Rates), a \in {Null, 1} :
          r = LegacyRow(st, o, k, rt, a)
    BY <1>1 DEF LegacyRows
  <2>2. 0 \in Time /\ 0 \in 0 .. MaxTime + ClockLag /\ a \in Nat \cup {Null}
    BY TimeAssumption, ClockLagAssumption DEF Time
  <2>3. ChargeUnitFor(k) \in {"per_ha", "per_hour"}
    BY DEF ChargeUnitFor
  <2> QED
    BY <2>1, <2>2, <2>3 DEF LegacyRow, RowType, Attachable, Terminal, Maybe, Statuses
<1>2. NoRow.status = "none" /\ ~ NoRow.fin /\ NoRow.hours = Null
  BY DEF NoRow
<1>3. TypeOK
  BY <1>1, NoRowType, IdleType, TimeAssumption
  DEF Init, TypeOK, Time, Stored, NoFlush, IdleWriter, Maybe
<1>4. RowShape /\ HourlyBillReconciles
  BY <1>1, <1>2, NullAssumption DEF Init, RowShape, HourlyBillReconciles
<1>5. RequestShape /\ WriterShape /\ FlushShape
  BY IdleType DEF Init, RequestShape, WriterShape, FlushShape, IdleWriter, NoFlush
<1> QED
  BY <1>3, <1>4, <1>5 DEF IInv

\* What every commit to an existing session does to its row: its start, its rate and an
\* issued charge stay, and a total comes with the hours it was computed from.
GoodRow(s, new) ==
  /\ new \in RowType /\ new.status # "none"
  /\ new.startedAt = row[s].startedAt /\ new.rate = row[s].rate
  /\ row[s].fin => new.fin
  /\ new.fin => new.total # Null
  /\ new.hours # Null => new.fin /\ new.total = new.rate * new.hours

\* A priced row is a good row.
LEMMA PricedIsGood ==
  ASSUME NEW s, NEW r \in RowType, NEW ledger \in Seq(PauseRow),
         r.status # "none", r.startedAt # Null, r.startedAt = row[s].startedAt,
         r.rate = row[s].rate, row[s].fin => r.fin, r.fin => r.total # Null,
         r.hours # Null => r.fin /\ r.total = r.rate * r.hours
  PROVE  /\ GoodRow(s, FinalizeSessionBilling(r, ledger))
         /\ GoodRow(s, FinalizeCancelledSession(r))
<1>1. GoodRow(s, FinalizeSessionBilling(r, ledger))
  <2> DEFINE d == FinalizeSessionBilling(r, ledger)
  <2>1. d \in RowType /\ (~ r.fin /\ d.fin => d.total # Null)
    BY FinalizeType
  <2>2. /\ d.status = r.status /\ d.startedAt = r.startedAt /\ d.rate = r.rate
        /\ r.fin => d = r
        /\ ~ d.fin => d = r
        /\ ~ r.fin /\ d.fin /\ r.hours = Null /\ d.hours # Null
             => d.total = r.rate * d.hours
    BY FinalizeEffect
  <2> HIDE DEF d
  <2>3. d.hours # Null => d.fin /\ d.total = d.rate * d.hours
    <3>1. CASE r.fin \/ ~ d.fin
      BY <2>2, <3>1
    <3>2. CASE ~ r.fin /\ d.fin
      BY <2>2, <3>2
    <3> QED
      BY <3>1, <3>2, <2>1 DEF RowType, Maybe, Statuses
  <2>4. GoodRow(s, d)
    BY <2>1, <2>2, <2>3 DEF GoodRow
  <2> QED
    BY <2>4 DEF d
<1>2. GoodRow(s, FinalizeCancelledSession(r))
  <2>1. CASE r.fin
    BY <2>1 DEF GoodRow, FinalizeCancelledSession
  <2>2. CASE ~ r.fin
    <3> DEFINE d == FinalizeCancelledSession(r)
    <3>1. d \in RowType
      BY CancelledType
    <3>2. /\ d.status = r.status /\ d.startedAt = r.startedAt /\ d.rate = r.rate
          /\ d.hours = Null /\ d.total # Null /\ d.fin
      BY <2>2, NullAssumption DEF FinalizeCancelledSession, Issue, RowType, Maybe, Statuses
    <3> HIDE DEF d
    <3>3. GoodRow(s, d)
      BY <3>1, <3>2 DEF GoodRow
    <3> QED
      BY <3>3 DEF d
  <2> QED
    BY <2>1, <2>2
<1> QED
  BY <1>1, <1>2

LEMMA WriteChargeType ==
  ASSUME NEW r \in RowType, NEW done \in RowType
  PROVE  WriteCharge(r, done) \in RowType
<1> DEFINE h == done.hours
           t == done.total
<1>1. h \in Maybe(Nat) /\ t \in Maybe(Nat)
  BY DEF RowType
<1>2. WriteCharge(r, done) =
        IF done.fin THEN [r EXCEPT !.hours = h, !.total = t, !.fin = TRUE] ELSE r
  BY DEF WriteCharge
<1> HIDE DEF h, t
<1>3. [r EXCEPT !.hours = h, !.total = t, !.fin = TRUE] \in RowType
  BY <1>1 DEF RowType
<1> QED
  BY <1>2, <1>3

\* Writing the charge of a row that was priced from the same rate makes a good row.
LEMMA WrittenIsGood ==
  ASSUME NEW s \in Sessions, NEW done \in RowType,
         done.fin => done.total # Null,
         done.fin /\ done.hours # Null => done.total = row[s].rate * done.hours,
         row[s] \in RowType, row[s].status # "none", row[s].startedAt # Null,
         row[s].fin => row[s].total # Null,
         row[s].hours # Null => row[s].fin /\ row[s].total = row[s].rate * row[s].hours
  PROVE  GoodRow(s, WriteCharge(row[s], done))
<1>1. CASE ~ done.fin
  BY <1>1 DEF GoodRow, WriteCharge
<1>2. CASE done.fin
  <2> DEFINE new == [row[s] EXCEPT !.hours = done.hours, !.total = done.total, !.fin = TRUE]
  <2>1. /\ new.status = row[s].status /\ new.startedAt = row[s].startedAt
        /\ new.rate = row[s].rate /\ new.hours = done.hours /\ new.total = done.total
        /\ new.fin
    BY DEF RowType, Maybe, Statuses
  <2>2. WriteCharge(row[s], done) = new
    BY <1>2 DEF WriteCharge
  <2>3. new \in RowType
    BY <2>2, WriteChargeType
  <2> HIDE DEF new
  <2>4. GoodRow(s, new)
    BY <1>2, <2>1, <2>3 DEF GoodRow
  <2> QED
    BY <2>2, <2>4
<1> QED
  BY <1>1, <1>2

LEMMA ClosedRowIsGood ==
  ASSUME NEW s \in Sessions, NEW call \in Closing, NEW at \in Time,
         NEW ledger \in Seq(PauseRow),
         row[s] \in RowType, row[s].startedAt # Null, FixesOf(s) \subseteq Time,
         row[s].fin => row[s].total # Null,
         row[s].hours # Null => row[s].fin /\ row[s].total = row[s].rate * row[s].hours
  PROVE  GoodRow(s, ClosedRow(s, call, at, ledger))
<1> DEFINE r == [row[s] EXCEPT !.status = EndStatus(call), !.endedAt = at,
                               !.area = AreaOf(FixesOf(s), ledger)]
<1>1. AreaOf(FixesOf(s), ledger) \in Nat
  BY AreaIsNatural
<1>2. EndStatus(call) \in Terminal /\ EndStatus(call) # "none"
  BY DEF EndStatus, Terminal
<1>3. r \in RowType
  BY <1>1, <1>2 DEF RowType, Maybe, Statuses
<1>4. /\ r.status # "none" /\ r.startedAt = row[s].startedAt /\ r.rate = row[s].rate
      /\ r.fin = row[s].fin /\ r.total = row[s].total /\ r.hours = row[s].hours
  BY <1>2 DEF RowType, Maybe, Statuses
<1> HIDE DEF r
<1>5. GoodRow(s, FinalizeSessionBilling(r, ledger)) /\ GoodRow(s, FinalizeCancelledSession(r))
  BY <1>3, <1>4, PricedIsGood
<1> QED
  BY <1>5 DEF ClosedRow, Finalize, r

LEMMA BackfilledRowIsGood ==
  ASSUME NEW s \in Sessions, NEW obj \in RowType, FixesOf(s) \subseteq Time,
         pauses[s] \in Seq(PauseRow),
         obj.startedAt # Null, obj.rate = row[s].rate, obj.hours = Null, ~ obj.fin,
         row[s] \in RowType, row[s].status # "none", row[s].startedAt # Null,
         row[s].fin => row[s].total # Null,
         row[s].hours # Null => row[s].fin /\ row[s].total = row[s].rate * row[s].hours
  PROVE  GoodRow(s, BackfilledRow(s, obj))
<1>1. CASE obj.status = "aborted"
  <2>1. /\ FinalizeCancelledSession(obj).hours = Null
        /\ FinalizeCancelledSession(obj).total = 0
        /\ FinalizeCancelledSession(obj).fin
    BY DEF FinalizeCancelledSession, Issue, RowType, Maybe, Statuses
  <2>2. GoodRow(s, WriteCharge(row[s], FinalizeCancelledSession(obj)))
    BY <2>1, CancelledType, WrittenIsGood, NullAssumption
  <2> QED
    BY <1>1, <2>2 DEF BackfilledRow
<1>2. CASE obj.status # "aborted" /\ obj.area = Null
  <2> DEFINE a == AreaOf(FixesOf(s), pauses[s])
             r == [row[s] EXCEPT !.area = a]
  <2>0. a \in Maybe(Nat)
    BY AreaIsNatural DEF Maybe
  <2>3. BackfilledRow(s, obj) = FinalizeSessionBilling(r, pauses[s])
    BY <1>2 DEF BackfilledRow
  <2> HIDE DEF a
  <2>1. r \in RowType
    BY <2>0 DEF RowType
  <2>2. /\ r.status = row[s].status /\ r.startedAt = row[s].startedAt
        /\ r.rate = row[s].rate /\ r.fin = row[s].fin /\ r.total = row[s].total
        /\ r.hours = row[s].hours
    BY DEF RowType
  <2> HIDE DEF r
  <2> QED
    BY <2>1, <2>2, <2>3, PricedIsGood
<1>3. CASE obj.status # "aborted" /\ obj.area # Null
  <2> DEFINE d == FinalizeSessionBilling(obj, pauses[s])
  <2>1. d \in RowType /\ (d.fin => d.total # Null)
    BY FinalizeType
  <2>2. d.fin /\ d.hours # Null => d.total = row[s].rate * d.hours
    BY FinalizeEffect
  <2>3. BackfilledRow(s, obj) = WriteCharge(row[s], d)
    BY <1>3 DEF BackfilledRow
  <2> HIDE DEF d
  <2>4. GoodRow(s, WriteCharge(row[s], d))
    BY <2>1, <2>2, WrittenIsGood
  <2> QED
    BY <2>3, <2>4
<1> QED
  BY <1>1, <1>2, <1>3

-----------------------------------------------------------------------------
(* One lemma per group of actions: each preserves the inductive invariant. *)

\* Storing a batch leaves every fix in a place a fix can be, and so does emptying the buffer.
LEMMA FlushType ==
  ASSUME TypeOK
  PROVE  /\ \A batch, place :
              place \in Stored => StoreBatch(batch, place) \in
                                  [Time -> {"future", "cloud", "buffer"} \cup Stored]
         /\ [t \in Time |-> IF fix[t] = "buffer" THEN "cloud" ELSE fix[t]] \in
              [Time -> {"future", "cloud", "buffer"} \cup Stored]
  BY DEF StoreBatch, TypeOK

\* A step that leaves the sessions, the pause ledgers and the workers alone.
LEMMA OutsideStep ==
  ASSUME IInv, TypeOK', WriterShape', FlushShape', UNCHANGED <<row, pauses, req>>
  PROVE  IInv'
<1>1. RowShape' /\ HourlyBillReconciles'
  BY DEF IInv, RowShape, HourlyBillReconciles
<1>2. RequestShape'
  BY DEF IInv, RequestShape, Consistent
<1> QED
  BY <1>1, <1>2 DEF IInv

\* Taking the buffer: by a handler that stops or cancels, or by none.
LEMMA TakePreserves ==
  ASSUME IInv, NEW by \in Maybe(Requests), by # Null => req[by].pc \in Closing,
         TakeBuffer(by)
  PROVE  IInv'
<1> USE DEF IInv
<1>1. Buffered \in SUBSET Time
  BY DEF Buffered
<1>2. TypeOK'
  BY <1>1, FlushType DEF TakeBuffer, TypeOK, Maybe
<1>3. FlushShape' /\ WriterShape'
  BY <1>1 DEF TakeBuffer, FlushShape, WriterShape
<1> QED
  BY <1>2, <1>3, OutsideStep DEF TakeBuffer

LEMMA EnvironmentPreserves ==
  ASSUME IInv, Tick \/ (\E k \in OperationTypes, v \in Maybe(Rates) : EditRateCard(k, v))
               \/ DeliverFix \/ BackgroundFlush
  PROVE  IInv'
<1> USE DEF IInv
<1>1. CASE Tick
  <2>1. now + 1 \in Time
    BY <1>1, TimeAssumption DEF Tick, TypeOK, Time
  <2>2. TypeOK'
    BY <1>1, <2>1 DEF Tick, TypeOK
  <2> QED
    BY <1>1, <2>2, OutsideStep DEF Tick, WriterShape, FlushShape
<1>2. CASE \E k \in OperationTypes, v \in Maybe(Rates) : EditRateCard(k, v)
  BY <1>2, OutsideStep DEF EditRateCard, TypeOK, WriterShape, FlushShape
<1>3. CASE DeliverFix
  BY <1>3, OutsideStep DEF DeliverFix, TypeOK, WriterShape, FlushShape
<1>4. CASE BackgroundFlush
  BY <1>4, TakePreserves DEF BackgroundFlush, Maybe
<1> QED
  BY <1>1, <1>2, <1>3, <1>4

\* A handler whose flush has returned holds what it held, a step further on.
LEMMA FlushedType ==
  ASSUME NEW call \in Closing, NEW q \in ReqType, q.pc = call, Consistent(q)
  PROVE  LET d == [q EXCEPT !.pc = FlushedPc(call)] IN d \in ReqType /\ Consistent(d)
<1> DEFINE d == [q EXCEPT !.pc = FlushedPc(call)]
<1>1. call \in {"stop", "cancel"}
  BY DEF Closing
<1>2. d \in ReqType
  BY <1>1 DEF ReqType, Pcs, Closing, Maybe
<1>3. Consistent(d)
  BY <1>1 DEF Consistent, FlushedPc, ReqType, Maybe
<1> QED
  BY <1>2, <1>3

\* What a worker does when flush() returns.
Flushed(r, call) ==
  /\ req[r].pc = call
  /\ req' = [req EXCEPT ![r].pc = FlushedPc(call)]

\* No flush touches a session, and all it changes of the workers is that the one that
\* called it goes on.
LEMMA FlushEffect ==
  ASSUME IInv, BackgroundFlush \/ FlushStep
  PROVE  /\ UNCHANGED <<now, row, pauses, card, writer>>
         /\ \/ UNCHANGED req
            \/ \E r \in Requests, call \in Closing : flush.by = r /\ Flushed(r, call)
<1>1. CASE BackgroundFlush
  BY <1>1 DEF BackgroundFlush, TakeBuffer
<1>2. ASSUME NEW target \in Stored, FlushResolve(target)
      PROVE  UNCHANGED <<now, row, pauses, card, req, writer>>
  BY <1>2 DEF FlushResolve
<1>3. ASSUME FlushReturns
      PROVE  /\ UNCHANGED <<now, row, pauses, card, writer>>
             /\ \/ UNCHANGED req
                \/ \E r \in Requests, call \in Closing : flush.by = r /\ Flushed(r, call)
  <2>1. CASE flush.by = Null
    BY <1>3, <2>1 DEF FlushReturns
  <2>2. CASE flush.by # Null
    <3>1. flush.by \in Requests /\ req[flush.by].pc \in Closing
      BY <2>2 DEF IInv, TypeOK, FlushShape, Maybe
    <3>2. req' = [req EXCEPT ![flush.by].pc = FlushedPc(req[flush.by].pc)]
      BY <1>3, <2>2 DEF FlushReturns
    <3> QED
      BY <1>3, <3>1, <3>2 DEF FlushReturns, Flushed
  <2> QED
    BY <2>1, <2>2
<1> QED
  BY <1>1, <1>2, <1>3 DEF FlushStep, FlushCommit, FlushDrop

LEMMA FlushPreserves ==
  ASSUME IInv, FlushStep
  PROVE  IInv'
<1> USE DEF IInv
<1>1. ASSUME NEW target \in Stored, FlushResolve(target) PROVE IInv'
  <2>1. /\ flush' = [by |-> flush.by, batch |-> flush.batch, target |-> target]
        /\ flush'.by = flush.by /\ flush'.target = target
    BY <1>1 DEF FlushResolve, TypeOK
  <2>2. TypeOK'
    BY <1>1, <2>1 DEF FlushResolve, TypeOK, Maybe
  <2>3. FlushShape' /\ WriterShape'
    <3>1. target # Null => flush' # NoFlush
      BY <2>1 DEF NoFlush
    <3> QED
      BY <1>1, <2>1, <3>1 DEF FlushResolve, FlushShape, WriterShape
  <2> QED
    BY <1>1, <2>2, <2>3, OutsideStep DEF FlushResolve
<1>2. ASSUME FlushReturns, fix' \in [Time -> {"future", "cloud", "buffer"} \cup Stored],
             BackgroundFlush \/ FlushStep
      PROVE  IInv'
  <2>1. /\ UNCHANGED <<now, row, pauses, card, writer>>
        /\ \/ UNCHANGED req
           \/ \E r \in Requests, call \in Closing : Flushed(r, call)
    BY <1>2, FlushEffect
  <2>2. FlushShape' /\ WriterShape' /\ flush' = NoFlush
    BY <1>2, <2>1 DEF FlushReturns, FlushShape, WriterShape, NoFlush
  <2>3. NoFlush \in [by : Maybe(Requests), batch : SUBSET Time, target : Maybe(Stored)]
    BY DEF NoFlush, Maybe
  <2>4. CASE UNCHANGED req
    <3>1. TypeOK'
      BY <1>2, <2>1, <2>2, <2>3, <2>4 DEF TypeOK
    <3> QED
      BY <2>1, <2>2, <2>4, <3>1, OutsideStep
  <2>5. ASSUME NEW r \in Requests, NEW call \in Closing, Flushed(r, call)
        PROVE  IInv'
    <3> DEFINE d == [req[r] EXCEPT !.pc = FlushedPc(call)]
    <3>1. d \in ReqType /\ Consistent(d)
      BY <2>5, FlushedType DEF Flushed, TypeOK, RequestShape
    <3>2. req' = [req EXCEPT ![r] = d]
      BY <2>5 DEF Flushed
    <3> HIDE DEF d
    <3>3. TypeOK'
      BY <1>2, <2>1, <2>2, <2>3, <3>1, <3>2 DEF TypeOK
    <3>4. RequestShape'
      BY <2>1, <3>1, <3>2 DEF TypeOK, RequestShape, Consistent
    <3>5. RowShape' /\ HourlyBillReconciles'
      BY <2>1 DEF RowShape, HourlyBillReconciles
    <3> QED
      BY <2>2, <3>3, <3>4, <3>5
  <2> QED
    BY <2>1, <2>4, <2>5
<1>3. CASE FlushCommit
  <2>1. flush.target \in Stored
    BY <1>3 DEF FlushCommit, TypeOK, Maybe
  <2> QED
    BY <1>2, <1>3, <2>1, FlushType DEF FlushCommit, FlushStep
<1>4. CASE FlushDrop
  BY <1>2, <1>4 DEF FlushDrop, FlushStep, TypeOK
<1> QED
  BY <1>1, <1>3, <1>4 DEF FlushStep

LEMMA WriterPreserves ==
  ASSUME IInv, NEW w \in Writers, WriterStep(w)
  PROVE  IInv'
<1> USE DEF IInv
<1>1. ASSUME NEW batch \in SUBSET Time, NEW target \in Stored,
             WriterResolve(w, batch, target)
      PROVE  IInv'
  <2>1. TypeOK'
    BY <1>1 DEF WriterResolve, TypeOK, Maybe
  <2>2. WriterShape'
    BY <1>1 DEF WriterResolve, WriterShape, TypeOK
  <2> QED
    BY <1>1, <2>1, <2>2, OutsideStep DEF WriterResolve, FlushShape
<1>2. CASE WriterCommit(w)
  <2>1. StoreBatch(writer[w].batch, writer[w].target) \in
          [Time -> {"future", "cloud", "buffer"} \cup Stored]
    BY <1>2 DEF WriterCommit, WriterShape, StoreBatch, TypeOK
  <2>2. TypeOK'
    BY <1>2, <2>1 DEF WriterCommit, TypeOK, IdleWriter, Maybe
  <2>3. WriterShape'
    BY <1>2 DEF WriterCommit, WriterShape, IdleWriter, TypeOK
  <2> QED
    BY <1>2, <2>2, <2>3, OutsideStep DEF WriterCommit, FlushShape
<1> QED
  BY <1>1, <1>2 DEF WriterStep

LEMMA StartPreserves ==
  ASSUME IInv, NEW r \in Requests, NEW s \in Sessions, StartCommit(r, s)
  PROVE  IInv'
<1> USE DEF IInv
<1> DEFINE obj == req[r].obj
<1>1. /\ obj \in RowType /\ obj.status = "active" /\ obj.startedAt # Null
      /\ obj.hours = Null /\ ~ obj.fin /\ row[s].status = "none"
  BY DEF StartCommit, TypeOK, ReqType, RequestShape, Consistent, Maybe
<1>2. TypeOK'
  BY <1>1, IdleType DEF StartCommit, TypeOK
<1>3. RowShape' /\ HourlyBillReconciles'
  BY <1>1 DEF StartCommit, TypeOK, RowShape, HourlyBillReconciles
<1>4. ASSUME NEW u \in Requests PROVE Consistent(req[u])'
  <2>1. CASE u = r
    BY <2>1, IdleType DEF StartCommit, TypeOK, Consistent, Idle
  <2>2. CASE u # r
    <3>1. req'[u] = req[u] /\ Consistent(req[u])
      BY <2>2 DEF StartCommit, TypeOK, RequestShape
    <3>2. req[u].pc \notin {"idle", "start"} => row'[req[u].s] = row[req[u].s]
      BY <1>1, <3>1 DEF StartCommit, TypeOK, Consistent
    <3> QED
      BY <3>1, <3>2 DEF Consistent
  <2> QED
    BY <2>1, <2>2
<1>5. RequestShape' /\ WriterShape'
  BY <1>4 DEF StartCommit, RequestShape, WriterShape
<1>6. FlushShape'
  BY RequestsAssumption DEF StartCommit, FlushShape, TypeOK, Closing, Maybe
<1> QED
  BY <1>2, <1>3, <1>5, <1>6

\* The first SELECT of every handler, and the steps of stop and cancel before the commit.
LEMMA CheckPreserves ==
  ASSUME IInv, NEW r \in Requests,
         \/ \E o \in Operators, k \in OperationTypes : StartCheck(r, o, k)
         \/ \E s \in Sessions : PauseCheck(r, s) \/ ResumeCheck(r, s) \/ BackfillCheck(r, s)
         \/ \E call \in Closing, s \in Sessions : CloseCheck(r, s, call)
         \/ Fail(r)
  PROVE  IInv'
<1> USE DEF IInv
<1>0. now \in Time /\ now # Null
  BY NullAssumption, TimeAssumption DEF TypeOK, Time
<1>1. /\ now \in Time /\ \A s \in Sessions : row[s] \in RowType /\ pauses[s] \in Seq(PauseRow)
      /\ req[r].pc = "idle" => flush.by # r
  BY RequestsAssumption DEF FlushShape, Closing, TypeOK
<1>2. ASSUME NEW o \in Operators, NEW k \in OperationTypes, StartCheck(r, o, k)
      PROVE  IInv'
  <2> DEFINE obj == [NoRow EXCEPT !.status = "active", !.operator = o, !.kind = k,
                                  !.startedAt = now + ClockLag,
                                  !.unit = ChargeUnitFor(k), !.rate = card[k]]
             q == [Idle EXCEPT !.pc = "start", !.obj = obj]
  <2>1. now + ClockLag \in 0 .. MaxTime + ClockLag /\ now + ClockLag # Null
    BY <1>1, NullAssumption, TimeAssumption, ClockLagAssumption DEF Time
  <2>2. card[k] \in Rates
    BY <1>2 DEF StartCheck, TypeOK, Maybe
  <2>3. obj \in RowType
    BY <2>1, <2>2 DEF NoRow, RowType, ChargeUnitFor, Attachable, Maybe, Statuses
  <2>4. q \in ReqType
    BY <2>3 DEF Idle, ReqType, Pcs, Maybe
  <2>5. Consistent(q)
    BY <1>2, <2>1 DEF StartCheck, Consistent, Idle, NoRow
  <2> QED
    BY <1>1, <1>2, <2>4, <2>5, WorkerStep DEF StartCheck
<1>3. ASSUME NEW s \in Sessions, PauseCheck(r, s) PROVE IInv'
  <2> DEFINE q == [Idle EXCEPT !.pc = "pause", !.s = s, !.at = now]
  <2>1. q \in ReqType
    BY <1>0, NoRowType DEF Idle, ReqType, Pcs, Maybe
  <2>2. Consistent(q)
    BY <1>0, <1>3 DEF PauseCheck, Idle, Consistent
  <2> QED
    BY <1>1, <1>3, <2>1, <2>2, WorkerStep DEF PauseCheck
<1>4. ASSUME NEW s \in Sessions, ResumeCheck(r, s) PROVE IInv'
  <2> DEFINE q == [Idle EXCEPT !.pc = "resume", !.s = s, !.at = now,
                               !.open = LatestOpenPause(pauses[s])]
  <2>1. LatestOpenPause(pauses[s]) \in Nat
    BY <1>1, LedgerType
  <2>2. q \in ReqType
    BY <1>0, <2>1, NoRowType DEF Idle, ReqType, Pcs, Maybe
  <2>3. Consistent(q)
    BY <1>0, <1>4 DEF ResumeCheck, Idle, Consistent
  <2> QED
    BY <1>1, <1>4, <2>2, <2>3, WorkerStep DEF ResumeCheck
<1>5. ASSUME NEW s \in Sessions, BackfillCheck(r, s) PROVE IInv'
  <2> DEFINE q == [Idle EXCEPT !.pc = "backfill", !.s = s, !.obj = row[s]]
  <2>1. row[s].status # "none" /\ ~ row[s].fin /\ row[s].hours = Null
        /\ row[s].startedAt # Null
    BY <1>5 DEF BackfillCheck, Terminal, RowShape, HourlyBillReconciles
  <2>2. q \in ReqType /\ Consistent(q)
    BY <1>1, <2>1 DEF Idle, ReqType, Pcs, Consistent, Maybe
  <2> QED
    BY <1>1, <1>5, <2>2, WorkerStep DEF BackfillCheck
<1>6. ASSUME NEW call \in Closing, NEW s \in Sessions, CloseCheck(r, s, call) PROVE IInv'
  <2> DEFINE q == [Idle EXCEPT !.pc = call, !.s = s]
  <2>1. row[s].status # "none"
    BY <1>6 DEF CloseCheck, MayClose, Attachable
  <2>2. q \in ReqType /\ Consistent(q)
    BY <1>6, <2>1, NoRowType DEF Idle, ReqType, Pcs, Consistent, Closing, Maybe
  <2> QED
    BY <1>1, <1>6, <2>2, WorkerStep DEF CloseCheck
<1>7. CASE Fail(r)
  BY <1>1, <1>7, IdleType, WorkerStep DEF Fail
<1> QED
  BY <1>2, <1>3, <1>4, <1>5, <1>6, <1>7

\* Flushing the buffer and reading the end of the session, in stop and in cancel.
LEMMA ClosePreserves ==
  ASSUME IInv, NEW r \in Requests, NEW call \in Closing,
         CloseFlush(r, call) \/ FlushNothing(r, call) \/ CloseEnd(r, call)
  PROVE  IInv'
<1> USE DEF IInv
<1>1. req[r] \in ReqType /\ Consistent(req[r]) /\ call \in {"stop", "cancel"}
  BY DEF TypeOK, RequestShape, Closing
<1>2. CASE CloseFlush(r, call)
  BY <1>2, TakePreserves DEF CloseFlush, Maybe
<1>3. CASE FlushNothing(r, call)
  <2> DEFINE q == [req[r] EXCEPT !.pc = FlushedPc(call)]
  <2>1. q \in ReqType /\ Consistent(q)
    BY <1>1, <1>3, FlushedType DEF FlushNothing
  <2>2. /\ req' = [req EXCEPT ![r] = q] /\ flush.by = Null
        /\ UNCHANGED <<now, row, pauses, fix, flush, card, writer>>
    BY <1>3 DEF FlushNothing, NoFlush
  <2>3. flush.by # r
    BY <2>2, RequestsAssumption
  <2> HIDE DEF q
  <2> QED
    BY <2>1, <2>2, <2>3, WorkerStep
<1>4. CASE CloseEnd(r, call)
  <2> DEFINE q == [req[r] EXCEPT !.pc = EndedPc(call), !.at = now,
                                 !.open = LatestOpenPause(pauses[req[r].s])]
  <2>1. now \in Time /\ now # Null
    BY NullAssumption, TimeAssumption DEF TypeOK, Time
  <2>2. req[r].s \in Sessions /\ row[req[r].s].status # "none"
    BY <1>1, <1>4 DEF CloseEnd, Consistent, FlushedPc
  <2>3. LatestOpenPause(pauses[req[r].s]) \in Nat
    BY <2>1, <2>2, LedgerType DEF TypeOK
  <2>4. q \in ReqType
    BY <1>1, <2>1, <2>3 DEF ReqType, Pcs, Closing, Maybe
  <2>5. Consistent(q)
    BY <1>1, <1>4, <2>1, <2>2 DEF CloseEnd, Consistent, EndedPc, ReqType, Maybe
  <2>6. flush.by # r
    BY <1>1, <1>4, RequestsAssumption DEF CloseEnd, FlushShape, FlushedPc, Closing
  <2>7. req' = [req EXCEPT ![r] = q] /\ UNCHANGED <<now, row, pauses, fix, flush, card, writer>>
    BY <1>4 DEF CloseEnd
  <2> HIDE DEF q
  <2> QED
    BY <2>4, <2>5, <2>6, <2>7, WorkerStep
<1> QED
  BY <1>2, <1>3, <1>4

CommitStepOf(r) ==
  \/ PauseCommit(r) \/ ResumeCommit(r) \/ BackfillCommit(r)
  \/ \E call \in Closing : CloseCommit(r, call)

\* The commits of pause, resume, stop, cancel and the backfill.
LEMMA CommitEffect ==
  ASSUME IInv, NEW r \in Requests, CommitStepOf(r)
  PROVE  /\ req[r].s \in Sessions /\ row[req[r].s].status # "none" /\ flush.by # r
         /\ req' = [req EXCEPT ![r] = Idle] /\ UNCHANGED <<now, fix, flush, card, writer>>
         /\ \E new \in RowType, ledger \in Seq(PauseRow) :
              /\ GoodRow(req[r].s, new)
              /\ row' = [row EXCEPT ![req[r].s] = new]
              /\ pauses' = [pauses EXCEPT ![req[r].s] = ledger]
<1> USE DEF IInv
<1> DEFINE s == req[r].s
           Goal == \E new \in RowType, ledger \in Seq(PauseRow) :
                     /\ GoodRow(s, new)
                     /\ row' = [row EXCEPT ![s] = new]
                     /\ pauses' = [pauses EXCEPT ![s] = ledger]
<1>1. /\ s \in Sessions /\ row[s].status # "none" /\ row[s] \in RowType
      /\ pauses[s] \in Seq(PauseRow) /\ row[s].startedAt # Null
      /\ row[s].fin => row[s].total # Null
      /\ row[s].hours # Null => row[s].fin /\ row[s].total = row[s].rate * row[s].hours
  <2>1. req[r] \in ReqType /\ Consistent(req[r]) /\ req[r].pc \notin {"idle", "start"}
    BY DEF TypeOK, RequestShape, CommitStepOf, PauseCommit, ResumeCommit, BackfillCommit, CloseCommit,
           Closing, EndedPc
  <2>2. s \in Sessions /\ row[s].status # "none"
    BY <2>1 DEF Consistent
  <2> QED
    BY <2>2 DEF TypeOK, RowShape, HourlyBillReconciles
<1>2. req[r].pc \in {"pause", "resume", "stopEnded", "cancelEnded"} => req[r].at \in Time
  BY DEF TypeOK, ReqType, RequestShape, Consistent, Maybe
<1>3. ASSUME PauseCommit(r) PROVE Goal
  <2> DEFINE new == [row[s] EXCEPT !.status = "paused"]
             ledger == Append(pauses[s], [from |-> req[r].at, to |-> Null])
  <2>1. new \in RowType
    BY <1>1 DEF RowType, Attachable, Maybe, Statuses
  <2>2. ledger \in Seq(PauseRow)
    BY <1>1, <1>2, <1>3, LedgerType DEF PauseCommit
  <2>3. row' = [row EXCEPT ![s] = new] /\ pauses' = [pauses EXCEPT ![s] = ledger]
    BY <1>3 DEF PauseCommit
  <2>4. /\ new.status # "none" /\ new.startedAt = row[s].startedAt
        /\ new.rate = row[s].rate /\ new.fin = row[s].fin
        /\ new.total = row[s].total /\ new.hours = row[s].hours
    BY <1>1 DEF RowType, Maybe, Statuses
  <2> HIDE DEF new, ledger
  <2>5. GoodRow(s, new)
    BY <1>1, <2>1, <2>4 DEF GoodRow
  <2> QED
    BY <2>1, <2>2, <2>3, <2>5
<1>4. ASSUME ResumeCommit(r) PROVE Goal
  <2> DEFINE new == [row[s] EXCEPT !.status = "active"]
             ledger == ClosePause(pauses[s], req[r].open, req[r].at)
  <2>1. new \in RowType
    BY <1>1 DEF RowType, Attachable, Maybe, Statuses
  <2>2. ledger \in Seq(PauseRow)
    BY <1>1, <1>2, <1>4, LedgerType DEF ResumeCommit
  <2>3. row' = [row EXCEPT ![s] = new] /\ pauses' = [pauses EXCEPT ![s] = ledger]
    BY <1>4 DEF ResumeCommit
  <2>4. /\ new.status # "none" /\ new.startedAt = row[s].startedAt
        /\ new.rate = row[s].rate /\ new.fin = row[s].fin
        /\ new.total = row[s].total /\ new.hours = row[s].hours
    BY <1>1 DEF RowType, Maybe, Statuses
  <2> HIDE DEF new, ledger
  <2>5. GoodRow(s, new)
    BY <1>1, <2>1, <2>4 DEF GoodRow
  <2> QED
    BY <2>1, <2>2, <2>3, <2>5
<1>5. ASSUME NEW call \in Closing, CloseCommit(r, call) PROVE Goal
  <2> DEFINE ledger == ClosePause(pauses[s], req[r].open, req[r].at)
             new == ClosedRow(s, call, req[r].at, ledger)
  <2>1. req[r].at \in Time
    BY <1>2, <1>5 DEF CloseCommit, EndedPc, Closing
  <2>2. ledger \in Seq(PauseRow)
    BY <1>1, <2>1, LedgerType
  <2>3. row' = [row EXCEPT ![s] = new] /\ pauses' = [pauses EXCEPT ![s] = ledger]
    BY <1>5 DEF CloseCommit
  <2> HIDE DEF ledger
  <2>4. GoodRow(s, new)
    BY <1>1, <2>1, <2>2, ClosedRowIsGood DEF FixesOf
  <2> HIDE DEF new
  <2> QED
    BY <2>2, <2>3, <2>4 DEF GoodRow
<1>6. ASSUME BackfillCommit(r) PROVE Goal
  <2> DEFINE new == BackfilledRow(s, req[r].obj)
  <2>1. /\ req[r].obj \in RowType /\ req[r].obj.startedAt # Null
        /\ req[r].obj.rate = row[s].rate /\ req[r].obj.hours = Null /\ ~ req[r].obj.fin
    BY <1>6 DEF BackfillCommit, TypeOK, ReqType, RequestShape, Consistent, Maybe
  <2>2. row' = [row EXCEPT ![s] = new] /\ pauses' = [pauses EXCEPT ![s] = pauses[s]]
    BY <1>6 DEF BackfillCommit, TypeOK
  <2>3. GoodRow(s, new)
    BY <1>1, <2>1, BackfilledRowIsGood DEF FixesOf
  <2> HIDE DEF new
  <2> QED
    BY <1>1, <2>2, <2>3 DEF GoodRow
<1>7. req' = [req EXCEPT ![r] = Idle] /\ UNCHANGED <<now, fix, flush, card, writer>>
  BY DEF CommitStepOf, PauseCommit, ResumeCommit, BackfillCommit, CloseCommit
<1>8. Goal
  BY <1>3, <1>4, <1>5, <1>6 DEF CommitStepOf
<1>9. flush.by # r
  <2>1. req[r].pc \notin Closing /\ r # Null
    BY RequestsAssumption DEF CommitStepOf, PauseCommit, ResumeCommit, BackfillCommit, CloseCommit, Closing, EndedPc
  <2> QED
    BY <2>1 DEF FlushShape
<1> QED
  BY <1>1, <1>7, <1>8, <1>9

LEMMA CommitPreserves ==
  ASSUME IInv, NEW r \in Requests, CommitStepOf(r)
  PROVE  IInv'
<1> DEFINE s == req[r].s
<1>1. PICK new \in RowType, ledger \in Seq(PauseRow) :
        /\ GoodRow(s, new)
        /\ row' = [row EXCEPT ![s] = new]
        /\ pauses' = [pauses EXCEPT ![s] = ledger]
  BY CommitEffect
<1>2. /\ s \in Sessions /\ row[s].status # "none" /\ row[s].startedAt # Null /\ flush.by # r
      /\ req' = [req EXCEPT ![r] = Idle] /\ UNCHANGED <<now, fix, flush, card, writer>>
  BY CommitEffect DEF IInv, RowShape
<1> HIDE DEF s
<1> QED
  BY <1>1, <1>2, CommitStep DEF GoodRow

LEMMA RestartPreserves ==
  ASSUME IInv, Restart
  PROVE  IInv'
<1> USE DEF IInv
<1>1. TypeOK'
  BY IdleType, FlushType DEF Restart, TypeOK, NoFlush, IdleWriter, Maybe
<1>2. RequestShape' /\ WriterShape' /\ FlushShape'
  BY IdleType DEF Restart, RequestShape, WriterShape, FlushShape, Consistent, Idle, NoFlush
<1>3. RowShape' /\ HourlyBillReconciles'
  BY DEF Restart, RowShape, HourlyBillReconciles
<1> QED
  BY <1>1, <1>2, <1>3

LEMMA InductiveStep == IInv /\ [Next]_vars => IInv'
<1> SUFFICES ASSUME IInv, [Next]_vars PROVE IInv'
  OBVIOUS
<1>1. CASE UNCHANGED vars
  BY <1>1 DEF vars, IInv, TypeOK, RowShape, RequestShape, Consistent, WriterShape,
              FlushShape, HourlyBillReconciles
<1>2. ASSUME NEW r \in Requests, RequestStep(r) PROVE IInv'
  BY <1>2, StartPreserves, CheckPreserves, ClosePreserves, CommitPreserves
  DEF RequestStep, CommitStepOf
<1>3. CASE Restart
  BY <1>3, RestartPreserves
<1> QED
  BY <1>1, <1>2, <1>3, EnvironmentPreserves, FlushPreserves, WriterPreserves DEF Next

-----------------------------------------------------------------------------
(* Every terminated session is priced, provided the clocks agree. *)

\* An ended session with a rate, an area and a start before its end gets its charge.
LEMMA ClosedRowIsFinal ==
  ASSUME NEW s \in Sessions, NEW call \in Closing, NEW at \in Time,
         NEW ledger \in Seq(PauseRow), FixesOf(s) \subseteq Time,
         row[s] \in RowType, row[s].rate # Null,
         row[s].startedAt # Null, row[s].startedAt <= at
  PROVE  ClosedRow(s, call, at, ledger).fin
<1> DEFINE a == AreaOf(FixesOf(s), ledger)
           r == [row[s] EXCEPT !.status = EndStatus(call), !.endedAt = at, !.area = a]
<1>1. a \in Nat /\ a # Null
  BY AreaIsNatural, NullAssumption
<1>2. EndStatus(call) \in Terminal
  BY DEF EndStatus, Terminal
<1>3. /\ r \in RowType /\ r.rate # Null /\ r.area = a /\ r.endedAt = at
      /\ r.startedAt = row[s].startedAt
  <2>1. a \in Maybe(Nat) /\ EndStatus(call) \in Statuses /\ at \in Maybe(Time)
    BY <1>1, <1>2 DEF Maybe, Statuses
  <2> HIDE DEF a
  <2> QED
    BY <2>1 DEF RowType
<1>4. at \in Nat /\ at # Null /\ row[s].startedAt \in Nat
  BY TimeAssumption, ClockLagAssumption, NullAssumption DEF Time, RowType, Maybe, Statuses
<1> HIDE DEF r, a
<1>5. BillableHours(r, ledger) # Null
  <2>1. PausedTime(ledger, r.endedAt) \in Nat
    BY PausedTimeIsNatural
  <2> QED
    BY <1>3, <1>4, <2>1, NullAssumption DEF BillableHours
<1>6. FinalizeSessionBilling(r, ledger).fin
  <2>1. Quantity(r, ledger) # Null
    BY <1>1, <1>3, <1>5 DEF Quantity
  <2> QED
    BY <1>3, <2>1 DEF FinalizeSessionBilling, PriceRow, Issue, WithHours, RowType, Maybe, Statuses
<1>7. FinalizeCancelledSession(r).fin
  BY <1>3 DEF FinalizeCancelledSession, Issue, RowType, Maybe, Statuses
<1> QED
  BY <1>6, <1>7 DEF ClosedRow, Finalize, r, a

\* A row changes only when a session is started in an unused id or by a commit that keeps
\* its start, its rate and an issued charge.
LEMMA RowChange ==
  ASSUME IInv, [Next]_vars, NEW s \in Sessions
  PROVE  \/ row'[s] = row[s]
         \/ \E r \in Requests : StartCommit(r, s)
         \/ /\ \E r \in Requests : CommitStepOf(r) /\ req[r].s = s
            /\ row[s].status # "none" /\ GoodRow(s, row'[s])
<1>1. row \in [Sessions -> RowType]
  BY DEF IInv, TypeOK
<1>2. ASSUME NEW r \in Requests, NEW u \in Sessions, StartCommit(r, u), u # s
      PROVE  row'[s] = row[s]
  BY <1>1, <1>2 DEF StartCommit
<1>3. ASSUME NEW r \in Requests, CommitStepOf(r)
      PROVE  \/ row'[s] = row[s]
             \/ req[r].s = s /\ row[s].status # "none" /\ GoodRow(s, row'[s])
  <2>1. PICK new \in RowType :
          GoodRow(req[r].s, new) /\ row' = [row EXCEPT ![req[r].s] = new]
    BY <1>3, CommitEffect
  <2>2. req[r].s \in Sessions /\ row[req[r].s].status # "none"
    BY <1>3, CommitEffect
  <2>3. CASE req[r].s = s
    <3>1. row'[s] = new
      BY <1>1, <2>1, <2>3
    <3> QED
      BY <2>1, <2>2, <2>3, <3>1
  <2>4. CASE req[r].s # s
    BY <1>1, <2>1, <2>4
  <2> QED
    BY <2>3, <2>4
<1>4. ASSUME NEW r \in Requests, RequestStep(r), ~ CommitStepOf(r),
             ~ \E u \in Sessions : StartCommit(r, u)
      PROVE  row' = row
  BY <1>4 DEF RequestStep, CommitStepOf, StartCheck, PauseCheck, ResumeCheck, BackfillCheck,
              CloseCheck, CloseFlush, TakeBuffer, FlushNothing, CloseEnd, Fail
<1>5. (\E r \in Requests : RequestStep(r)) \/ row' = row
  BY FlushEffect DEF Next, vars, Tick, EditRateCard, DeliverFix, WriterStep, WriterResolve,
                     WriterCommit, Restart
<1> QED
  BY <1>2, <1>3, <1>4, <1>5

\* What each worker holds after a step: what it held, nothing, or what it has just read.
LEMMA WorkerChange ==
  ASSUME IInv, [Next]_vars, NEW r \in Requests
  PROVE  \/ req'[r] = req[r]
         \/ req'[r].pc \notin {"start", "stopEnded", "cancelEnded"}
         \/ req'[r].pc = "start" /\ req'[r].obj.startedAt = now + ClockLag
         \/ /\ req'[r].pc \in {"stopEnded", "cancelEnded"} /\ req'[r].at = now
            /\ req'[r].s \in Sessions /\ row[req'[r].s].status # "none"
<1>1. req \in [Requests -> ReqType] /\ Consistent(req[r])
  BY DEF IInv, TypeOK, RequestShape
<1>2. ASSUME NEW u \in Requests, RequestStep(u), u # r PROVE req'[r] = req[r]
  BY <1>1, <1>2
  DEF RequestStep, StartCheck, StartCommit, PauseCheck, PauseCommit, ResumeCheck, ResumeCommit,
      BackfillCheck, BackfillCommit, CloseCheck, CloseFlush, TakeBuffer, FlushNothing,
      CloseEnd, CloseCommit, Fail
<1>3. CASE RequestStep(r)
  <2>1. CASE \E o \in Operators, k \in OperationTypes : StartCheck(r, o, k)
    BY <1>1, <2>1 DEF StartCheck, Idle, NoRow
  <2>2. CASE \E s \in Sessions : PauseCheck(r, s) \/ ResumeCheck(r, s) \/ BackfillCheck(r, s)
    <3>1. req'[r].pc \in {"pause", "resume", "backfill"}
      <4>1. CASE \E s \in Sessions : PauseCheck(r, s)
        BY <1>1, <4>1 DEF PauseCheck, Idle
      <4>2. CASE \E s \in Sessions : ResumeCheck(r, s)
        BY <1>1, <4>2 DEF ResumeCheck, Idle
      <4>3. CASE \E s \in Sessions : BackfillCheck(r, s)
        BY <1>1, <4>3 DEF BackfillCheck, Idle
      <4> QED
        BY <2>2, <4>1, <4>2, <4>3
    <3> QED
      BY <3>1
  <2>3. CASE Fail(r) \/ CommitStepOf(r) \/ \E s \in Sessions : StartCommit(r, s)
    <3>1. CASE Fail(r) \/ PauseCommit(r) \/ ResumeCommit(r) \/ BackfillCommit(r)
      BY <1>1, <3>1 DEF Fail, PauseCommit, ResumeCommit, BackfillCommit, Idle
    <3>2. CASE \E call \in Closing : CloseCommit(r, call)
      BY <1>1, <3>2 DEF CloseCommit, Idle
    <3>3. CASE \E s \in Sessions : StartCommit(r, s)
      BY <1>1, <3>3 DEF StartCommit, Idle
    <3> QED
      BY <2>3, <3>1, <3>2, <3>3 DEF CommitStepOf
  <2>4. ASSUME NEW call \in Closing, (\E s \in Sessions : CloseCheck(r, s, call))
                                     \/ CloseFlush(r, call) \/ FlushNothing(r, call)
        PROVE  \/ req'[r] = req[r]
               \/ req'[r].pc \notin {"start", "stopEnded", "cancelEnded"}
    <3>1. CASE \E s \in Sessions : CloseCheck(r, s, call)
      <4>1. req'[r].pc = call
        BY <1>1, <3>1 DEF CloseCheck, Idle
      <4> QED
        BY <4>1 DEF Closing
    <3>2. CASE CloseFlush(r, call)
      BY <3>2 DEF CloseFlush, TakeBuffer
    <3>3. CASE FlushNothing(r, call)
      <4>1. req'[r].pc = FlushedPc(call)
        BY <1>1, <3>3 DEF FlushNothing, ReqType
      <4> QED
        BY <4>1 DEF Closing, FlushedPc
    <3> QED
      BY <2>4, <3>1, <3>2, <3>3
  <2>5. ASSUME NEW call \in Closing, CloseEnd(r, call)
        PROVE  /\ req'[r].pc \in {"stopEnded", "cancelEnded"} /\ req'[r].at = now
               /\ req'[r].s \in Sessions /\ row[req'[r].s].status # "none"
    BY <1>1, <2>5 DEF CloseEnd, Closing, FlushedPc, EndedPc, ReqType, Consistent, Maybe
  <2> QED
    BY <1>3, <2>1, <2>2, <2>3, <2>4, <2>5 DEF RequestStep, CommitStepOf
<1>4. CASE Restart
  BY <1>4 DEF Restart, Idle
<1>5. CASE BackgroundFlush \/ FlushStep
  <2>1. ASSUME NEW u \in Requests, NEW call \in Closing, Flushed(u, call)
        PROVE  \/ req'[r] = req[r]
               \/ req'[r].pc \notin {"start", "stopEnded", "cancelEnded"}
    BY <1>1, <2>1 DEF Flushed, FlushedPc, ReqType
  <2> QED
    BY <1>5, <2>1, FlushEffect
<1>6. CASE ~ Restart /\ ~ BackgroundFlush /\ ~ FlushStep /\ ~ \E u \in Requests : RequestStep(u)
  BY <1>6 DEF Next, vars, Tick, EditRateCard, DeliverFix, WriterStep, WriterResolve,
              WriterCommit
<1> QED
  BY <1>2, <1>3, <1>4, <1>5, <1>6

LEMMA ClockMovesOn ==
  ASSUME IInv, [Next]_vars
  PROVE  now \in Nat /\ now' \in Nat /\ now <= now'
<1>1. now \in Time
  BY DEF IInv, TypeOK
<1>2. now' = now \/ now' = now + 1
  <2>1. ASSUME NEW r \in Requests, RequestStep(r) PROVE now' = now
    BY <2>1
    DEF RequestStep, StartCheck, StartCommit, PauseCheck, PauseCommit, ResumeCheck,
        ResumeCommit, BackfillCheck, BackfillCommit, CloseCheck, CloseFlush, TakeBuffer,
        FlushNothing, CloseEnd, CloseCommit, Fail
  <2>2. CASE ~ \E r \in Requests : RequestStep(r)
    BY <2>2, FlushEffect DEF Next, vars, Tick, EditRateCard, DeliverFix, WriterStep,
                             WriterResolve, WriterCommit, Restart
  <2> QED
    BY <2>1, <2>2
<1> QED
  BY <1>1, <1>2, TimeAssumption DEF Time

LEMMA StartsStep ==
  ASSUME ClockLag = 0, IInv, IInv', StartsInThePast, [Next]_vars
  PROVE  StartsInThePast'
<1>1. now \in Nat /\ now' \in Nat /\ now <= now'
  BY ClockMovesOn
<1>2. /\ \A s \in Sessions : row[s].status # "none" => row[s].startedAt \in Nat
      /\ \A r \in Requests : req[r].pc = "start" => req[r].obj.startedAt \in Nat
  BY TimeAssumption, ClockLagAssumption
  DEF IInv, TypeOK, RowShape, RequestShape, Consistent, RowType, ReqType, Maybe, Statuses
<1>3. ASSUME NEW s \in Sessions, row'[s].status # "none"
      PROVE  row'[s].startedAt <= now'
  <2>1. CASE row'[s] = row[s]
    BY <1>1, <1>2, <1>3, <2>1 DEF StartsInThePast
  <2>2. ASSUME NEW r \in Requests, StartCommit(r, s) PROVE row'[s].startedAt <= now'
    <3>1. row'[s] = req[r].obj /\ req[r].pc = "start"
      BY <2>2 DEF StartCommit, IInv, TypeOK
    <3> QED
      BY <1>1, <1>2, <3>1 DEF StartsInThePast
  <2>3. CASE row[s].status # "none" /\ GoodRow(s, row'[s])
    BY <1>1, <1>2, <2>3 DEF StartsInThePast, GoodRow
  <2> QED
    BY <2>1, <2>2, <2>3, RowChange
<1>4. ASSUME NEW r \in Requests, req'[r].pc = "start"
      PROVE  req'[r].obj.startedAt <= now'
  <2>1. CASE req'[r] = req[r]
    BY <1>1, <1>2, <1>4, <2>1 DEF StartsInThePast
  <2>2. CASE req'[r].obj.startedAt = now + ClockLag
    BY <1>1, <2>2
  <2> QED
    BY <1>4, <2>1, <2>2, WorkerChange
<1>5. ASSUME NEW r \in Requests, req'[r].pc \in {"stopEnded", "cancelEnded"}
      PROVE  row'[req'[r].s].startedAt <= req'[r].at
  <2> DEFINE s == req'[r].s
  <2>1. s \in Sessions /\ row[s].status # "none" /\ row[s].startedAt <= req'[r].at
    <3>1. CASE req'[r] = req[r]
      BY <1>5, <3>1 DEF StartsInThePast, IInv, RequestShape, Consistent
    <3>2. CASE req'[r].at = now /\ s \in Sessions /\ row[s].status # "none"
      BY <3>2 DEF StartsInThePast
    <3> QED
      BY <1>5, <3>1, <3>2, WorkerChange
  <2>2. row'[s] = row[s] \/ GoodRow(s, row'[s])
    BY <2>1, RowChange DEF StartCommit
  <2> QED
    BY <2>1, <2>2 DEF GoodRow
<1> QED
  BY <1>3, <1>4, <1>5 DEF StartsInThePast

\* The backfill writes billing columns only.
LEMMA BackfillKeepsStatus ==
  ASSUME NEW s \in Sessions, NEW obj, row[s] \in RowType
  PROVE  BackfilledRow(s, obj).status = row[s].status
<1>1. ASSUME NEW done PROVE WriteCharge(row[s], done).status = row[s].status
  BY DEF WriteCharge, RowType, Maybe, Statuses
<1>2. ASSUME NEW a, NEW ledger
      PROVE  FinalizeSessionBilling([row[s] EXCEPT !.area = a], ledger).status = row[s].status
  BY DEF FinalizeSessionBilling, PriceRow, Issue, WithHours, RowType, Maybe, Statuses
<1> QED
  BY <1>1, <1>2 DEF BackfilledRow

LEMMA PricedStep ==
  ASSUME IInv, PInv, [Next]_vars
  PROVE  RateIsLocked' /\ TerminatedIsPriced'
<1> SUFFICES ASSUME NEW s \in Sessions \ Legacy
             PROVE  /\ row'[s].status # "none" => row'[s].rate # Null
                    /\ row'[s].status \in Terminal => row'[s].fin
  BY DEF RateIsLocked, TerminatedIsPriced
<1>1. row \in [Sessions -> RowType] /\ req \in [Requests -> ReqType]
  BY DEF IInv, TypeOK
<1>2. /\ row[s].status # "none" => row[s].rate # Null /\ row[s].startedAt # Null
      /\ row[s].status \in Terminal => row[s].fin
  BY DEF PInv, RateIsLocked, TerminatedIsPriced, IInv, RowShape
<1>3. ASSUME NEW r \in Requests, StartCommit(r, s)
      PROVE  row'[s].rate # Null /\ row'[s].status \notin Terminal
  BY <1>1, <1>3 DEF StartCommit, IInv, RequestShape, Consistent, Terminal
<1>4. row'[s].status # "none" => row'[s].rate # Null
  BY <1>2, <1>3, RowChange DEF GoodRow
<1>5. ASSUME NEW r \in Requests, NEW call \in Closing, CloseCommit(r, call), req[r].s = s
      PROVE  row'[s].fin
  <2> DEFINE ledger == ClosePause(pauses[s], req[r].open, req[r].at)
  <2>1. /\ row[s].status # "none" /\ req[r].at \in Time /\ row[s].startedAt <= req[r].at
        /\ row[s] \in RowType /\ pauses[s] \in Seq(PauseRow)
    BY <1>1, <1>5 DEF CloseCommit, Closing, EndedPc, IInv, TypeOK, RequestShape, Consistent,
                      ReqType, PInv, StartsInThePast, Maybe
  <2>2. ledger \in Seq(PauseRow)
    BY <2>1, LedgerType
  <2>3. row'[s] = ClosedRow(s, call, req[r].at, ledger)
    BY <1>1, <1>5 DEF CloseCommit
  <2> HIDE DEF ledger
  <2> QED
    BY <1>2, <2>1, <2>2, <2>3, ClosedRowIsFinal DEF FixesOf
<1>6. ASSUME NEW r \in Requests, CommitStepOf(r), ~ \E call \in Closing : CloseCommit(r, call),
             req[r].s = s, row'[s].status \in Terminal
      PROVE  row[s].status \in Terminal
  <2>1. CASE PauseCommit(r) \/ ResumeCommit(r)
    BY <1>1, <1>6, <2>1 DEF PauseCommit, ResumeCommit, Terminal, RowType, Maybe, Statuses
  <2>2. CASE BackfillCommit(r)
    <3>1. row'[s] = BackfilledRow(s, req[r].obj)
      BY <1>1, <1>6, <2>2 DEF BackfillCommit
    <3> QED
      BY <1>1, <1>6, <3>1, BackfillKeepsStatus
  <2> QED
    BY <1>6, <2>1, <2>2 DEF CommitStepOf
<1> QED
  BY <1>2, <1>3, <1>4, <1>5, <1>6, RowChange DEF GoodRow

-----------------------------------------------------------------------------
(* Stored readings. *)

\* A step that stores rows of recorded fixes only, or forgets the buffer.
LEMMA PlacesMove ==
  ASSUME IInv, FutureIsFuture, now' = now,
         \A t \in Time : fix'[t] = "future" <=> fix[t] = "future",
         \A t \in flush'.batch : t \in Time /\ fix[t] # "future",
         \A w \in Writers : \A t \in writer'[w].batch : t \in Time /\ fix[t] # "future"
  PROVE  FutureIsFuture'
  BY DEF FutureIsFuture

LEMMA StoredStep ==
  ASSUME IInv, FutureIsFuture, Next
  PROVE  /\ FutureIsFuture'
         /\ \A t \in Time : fix[t] \in Stored => fix'[t] = fix[t]
<1> DEFINE Held == /\ \A t \in flush.batch : t \in Time /\ fix[t] # "future"
                   /\ \A u \in Writers :
                        \A t \in writer[u].batch : t \in Time /\ fix[t] # "future"
           Kept == \A t \in Time : fix[t] \in Stored => fix'[t] = fix[t]
           Same == \A t \in Time : fix'[t] = "future" <=> fix[t] = "future"
<1>1. fix \in [Time -> {"future", "cloud", "buffer"} \cup Stored] /\ now \in Time
  BY DEF IInv, TypeOK
<1>2. "future" \notin Stored /\ "cloud" \notin Stored /\ "buffer" \notin Stored
  BY SessionsAssumption DEF Stored
<1>3. Held
  BY DEF FutureIsFuture, IInv, TypeOK
<1>4. ASSUME NEW batch, batch \subseteq Time, NEW place \in Stored,
             \A t \in batch : fix[t] # "future", fix' = StoreBatch(batch, place)
      PROVE  Kept /\ Same
  BY <1>1, <1>2, <1>4 DEF StoreBatch
<1>5. ASSUME fix' = [t \in Time |-> IF fix[t] = "buffer" THEN "cloud" ELSE fix[t]]
      PROVE  Kept /\ Same
  BY <1>1, <1>2, <1>5
<1>6. CASE Tick
  <2>1. now + 1 \in Time
    BY <1>1, <1>6, TimeAssumption DEF Tick, Time
  <2>2. \A t \in Time : fix[t] = "future" <=> t > now
    BY DEF FutureIsFuture
  <2>3. \A t \in Time : fix'[t] = IF t = now + 1 THEN "cloud" ELSE fix[t]
    BY <1>1, <1>6, <2>1 DEF Tick
  <2>4. \A t \in Time : fix[t] \in Stored => t # now + 1
    BY <1>1, <1>2, <2>1, <2>2, TimeAssumption DEF Time
  <2>5. \A t \in Time : fix'[t] = "future" <=> t > now'
    BY <1>1, <1>6, <2>2, <2>3, TimeAssumption DEF Tick, Time
  <2>6. /\ \A t \in flush'.batch : fix'[t] # "future"
        /\ \A u \in Writers : \A t \in writer'[u].batch : fix'[t] # "future"
    BY <1>6, <1>3, <2>3 DEF Tick
  <2> QED
    BY <2>3, <2>4, <2>5, <2>6 DEF FutureIsFuture
<1>7. CASE DeliverFix
  <2>1. Kept /\ Same
    BY <1>1, <1>2, <1>7 DEF DeliverFix
  <2>2. UNCHANGED <<now, flush, writer>>
    BY <1>7 DEF DeliverFix
  <2> QED
    BY <1>3, <2>1, <2>2, PlacesMove
<1>8. ASSUME NEW by, TakeBuffer(by)
      PROVE  FutureIsFuture' /\ Kept
  <2>1. Kept /\ Same
    BY <1>5, <1>8 DEF TakeBuffer
  <2>2. flush'.batch = Buffered /\ now' = now /\ writer' = writer
    BY <1>8 DEF TakeBuffer
  <2>3. \A t \in flush'.batch : t \in Time /\ fix[t] # "future"
    BY <2>2 DEF Buffered
  <2> QED
    BY <1>3, <2>1, <2>2, <2>3, PlacesMove
<1>9. CASE FlushStep
  <2>1. ASSUME NEW target \in Stored, FlushResolve(target)
        PROVE  FutureIsFuture' /\ Kept
    <3>1. flush'.batch = flush.batch /\ UNCHANGED <<now, fix, writer>>
      BY <2>1 DEF FlushResolve, IInv, TypeOK
    <3> QED
      BY <1>3, <3>1, PlacesMove
  <2>2. ASSUME FlushReturns, Kept, Same PROVE FutureIsFuture' /\ Kept
    <3>1. flush'.batch = {} /\ UNCHANGED <<now, writer>>
      BY <2>2 DEF FlushReturns, NoFlush
    <3> QED
      BY <1>3, <2>2, <3>1, PlacesMove
  <2>3. CASE FlushCommit
    <3>1. flush.target \in Stored /\ fix' = StoreBatch(flush.batch, flush.target)
      BY <2>3 DEF FlushCommit, IInv, TypeOK, Maybe
    <3>2. Kept /\ Same
      BY <1>3, <1>4, <3>1
    <3> QED
      BY <2>2, <2>3, <3>2 DEF FlushCommit
  <2>4. CASE FlushDrop
    BY <2>2, <2>4 DEF FlushDrop
  <2> QED
    BY <1>9, <2>1, <2>3, <2>4 DEF FlushStep
<1>10. ASSUME NEW w \in Writers, WriterCommit(w)
       PROVE  FutureIsFuture' /\ Kept
  <2>1. writer[w].target \in Stored /\ fix' = StoreBatch(writer[w].batch, writer[w].target)
    BY <1>10 DEF WriterCommit, IInv, WriterShape
  <2>2. Kept /\ Same
    BY <1>3, <1>4, <2>1
  <2>3. \A u \in Writers : writer'[u].batch \subseteq writer[u].batch
    BY <1>10 DEF WriterCommit, IInv, TypeOK, IdleWriter
  <2>4. now' = now /\ flush' = flush
    BY <1>10 DEF WriterCommit
  <2> QED
    BY <1>3, <2>2, <2>3, <2>4, PlacesMove
<1>11. CASE Restart
  <2>1. Kept /\ Same
    BY <1>5, <1>11 DEF Restart
  <2>2. now' = now /\ flush'.batch = {} /\ \A u \in Writers : writer'[u].batch = {}
    BY <1>11 DEF Restart, NoFlush, IdleWriter
  <2> QED
    BY <2>1, <2>2, PlacesMove
<1>12. ASSUME NEW w \in Writers, NEW batch \in SUBSET Time, NEW target \in Stored,
              WriterResolve(w, batch, target)
       PROVE  FutureIsFuture' /\ Kept
  <2>1. \A u \in Writers : \A t \in writer'[u].batch : t \in Time /\ fix[t] # "future"
    BY <1>3, <1>12 DEF WriterResolve, IInv, TypeOK
  <2>2. UNCHANGED <<now, fix, flush>>
    BY <1>12 DEF WriterResolve
  <2> QED
    BY <1>3, <2>1, <2>2, PlacesMove
<1>13. CASE UNCHANGED <<now, fix, flush, writer>>
  BY <1>13 DEF FutureIsFuture
<1>14. ASSUME NEW r \in Requests, RequestStep(r), ~ \E call \in Closing : CloseFlush(r, call)
       PROVE  UNCHANGED <<now, fix, flush, writer>>
  BY <1>14
  DEF RequestStep, StartCheck, StartCommit, PauseCheck, PauseCommit, ResumeCheck,
      ResumeCommit, BackfillCheck, BackfillCommit, CloseCheck, FlushNothing, CloseEnd,
      CloseCommit, Fail
<1>15. (\E k \in OperationTypes, v \in Maybe(Rates) : EditRateCard(k, v))
         => UNCHANGED <<now, fix, flush, writer>>
  BY DEF EditRateCard
<1> QED
  BY <1>6, <1>7, <1>8, <1>9, <1>10, <1>11, <1>12, <1>13, <1>14, <1>15
  DEF Next, WriterStep, BackgroundFlush, CloseFlush

-----------------------------------------------------------------------------
(* Theorems *)

\* Every reachable state has the types of TypeOK: the values the handlers of
\* app/routes/sessions.py write are values of their columns.
THEOREM TypeCorrect == Spec => []TypeOK
<1>1. Spec => []IInv
  BY InitInvariant, InductiveStep, PTL DEF Spec
<1>2. IInv => TypeOK
  BY DEF IInv
<1> QED
  BY <1>1, <1>2, PTL

\* An hourly session's stored hours always multiply with its locked rate to its stored
\* total, however stop, cancel, pause, resume and the backfill interleave.
THEOREM HourlyBill == Spec => []HourlyBillReconciles
<1>1. Spec => []IInv
  BY InitInvariant, InductiveStep, PTL DEF Spec
<1>2. IInv => HourlyBillReconciles
  BY DEF IInv
<1> QED
  BY <1>1, <1>2, PTL

\* The inductive invariant of the prices.
LEMMA PricesHold == ClockLag = 0 /\ Spec => [](IInv /\ PInv)
<1> SUFFICES ASSUME ClockLag = 0 PROVE Spec => [](IInv /\ PInv)
  OBVIOUS
<1>1. Init => PInv
  <2> SUFFICES ASSUME Init PROVE PInv
    OBVIOUS
  <2>1. \A s \in Sessions : row[s] = NoRow \/ (s \in Legacy /\ row[s] \in LegacyRows)
    BY DEF Init
  <2>2. \A x \in LegacyRows : x.startedAt = 0
    BY DEF LegacyRows, LegacyRow
  <2> QED
    BY <2>1, <2>2 DEF Init, PInv, StartsInThePast, RateIsLocked, TerminatedIsPriced, NoRow,
                      Idle, Terminal
<1>2. IInv /\ IInv' /\ PInv /\ [Next]_vars => PInv'
  BY StartsStep, PricedStep DEF PInv
<1>3. Spec => []IInv
  BY InitInvariant, InductiveStep, PTL DEF Spec
<1> QED
  BY <1>1, <1>2, <1>3, PTL DEF Spec

\* While the application's clock is not behind the database's, a session started under
\* the rate lock is never seen completed or aborted without its final charge.
THEOREM TerminatedPriced ==
  ASSUME ClockLag = 0
  PROVE  Spec => []TerminatedIsPriced
<1>1. PInv => TerminatedIsPriced
  BY DEF PInv
<1> QED
  BY <1>1, PricesHold, PTL

\* A stored reading is never stored a second time or moved to another session, whichever
\* of the buffer and the writers that bypass it commits first.
THEOREM ReadingsStay == Spec => StoredReadingStays
<1>1. Init => FutureIsFuture
  BY TimeAssumption DEF Init, FutureIsFuture, Time, IdleWriter, NoFlush
<1>2. IInv /\ FutureIsFuture /\ [Next]_vars =>
        FutureIsFuture' /\ [\A t \in Time : fix[t] \in Stored => fix'[t] = fix[t]]_vars
  BY StoredStep DEF FutureIsFuture, vars
<1>3. Spec => []IInv
  BY InitInvariant, InductiveStep, PTL DEF Spec
<1> QED
  BY <1>1, <1>2, <1>3, PTL DEF Spec, StoredReadingStays

-----------------------------------------------------------------------------
(* The charge promise: SessionLifecycle implements ChargeLedger. *)

\* A terminated row that pricing leaves as it is: no rate, or hours that cannot be known.
Hopeless(x) ==
  /\ x.status = "completed" /\ x.area # Null
  /\ \/ x.rate = Null
     \/ x.unit = "per_hour" /\ (x.endedAt = Null \/ x.endedAt < x.startedAt)

\* A worker that may still change the status of its session.
Blocks(q) == q.pc \notin {"idle", "start", "backfill"}

\* A terminated session without pauses that nobody but a backfill can change.
Quiet(s) ==
  /\ row[s].status \in Terminal
  /\ pauses[s] = <<>>
  /\ \A r \in Requests : req[r].s = s => ~ Blocks(req[r])

\* A close leaves a row priced or hopeless; the others are those of the migration.
UnpricedRows ==
  \A s \in Sessions :
    row[s].status \in Terminal /\ ~ row[s].fin => Hopeless(row[s]) \/ Quiet(s)

PriceOf(x) == IF x.status = "aborted" THEN 0 ELSE x.rate * Quantity(x, <<>>)

\* A backfill's copy that still is the row, or whose price is the one that was charged.
Faithful(x, s) ==
  /\ Quiet(s) /\ x.status = row[s].status
  /\ x.status = "aborted" \/ x.area # Null
  /\ IF row[s].fin THEN row[s].total = PriceOf(x) ELSE x = row[s]

\* What a backfill holds: a copy it will not write, one whose area it will measure from the
\* refreshed row, or a faithful one.
Copy(q) ==
  q.pc = "backfill" =>
    /\ q.obj.status \in Terminal
    /\ Quiet(q.s) /\ ~ row[q.s].fin => q.obj = row[q.s] \/ Hopeless(row[q.s])
    /\ \/ Hopeless(q.obj)
       \/ q.obj.status = "completed" /\ q.obj.area = Null
       \/ Faithful(q.obj, q.s)

Copies == \A r \in Requests : Copy(req[r])

\* Pricing a hopeless row leaves it alone.
LEMMA HopelessIsFree ==
  ASSUME NEW x \in RowType, x.startedAt # Null, Hopeless(x), NEW ledger
  PROVE  FinalizeSessionBilling(x, ledger) = x
<1>1. x.startedAt \in Int /\ x.endedAt \in Int \cup {Null}
  BY TimeAssumption, ClockLagAssumption DEF RowType, Time, Maybe
<1>2. CASE x.rate = Null
  BY <1>2 DEF FinalizeSessionBilling
<1>3. CASE x.unit = "per_hour" /\ x.endedAt = Null
  BY <1>3 DEF FinalizeSessionBilling, PriceRow, Quantity, BillableHours
<1>4. CASE x.unit = "per_hour" /\ x.endedAt # Null /\ x.endedAt < x.startedAt
  <2>1. x.endedAt - x.startedAt < 0
    BY <1>1, <1>4
  <2>2. BillableHours(x, ledger) = Null
    BY <2>1 DEF BillableHours
  <2> QED
    BY <1>4, <2>2 DEF FinalizeSessionBilling, PriceRow, Quantity
<1> QED
  BY <1>2, <1>3, <1>4 DEF Hopeless

\* What pricing leaves unpriced is hopeless, once the area is known.
LEMMA UnpricedIsHopeless ==
  ASSUME NEW x \in RowType, x.startedAt # Null, x.area # Null, x.status = "completed",
         NEW ledger \in Seq(PauseRow), ~ FinalizeSessionBilling(x, ledger).fin
  PROVE  Hopeless(x) /\ FinalizeSessionBilling(x, ledger) = x
<1>1. x.startedAt \in Int /\ x.endedAt \in Int \cup {Null}
  BY TimeAssumption, ClockLagAssumption DEF RowType, Time, Maybe
<1>2. ~ x.fin /\ FinalizeSessionBilling(x, ledger) = x /\ (x.rate = Null \/ Quantity(x, ledger) = Null)
  <2> DEFINE q == Quantity(x, ledger)
  <2>1. CASE x.fin \/ x.rate = Null \/ q = Null
    BY <2>1 DEF FinalizeSessionBilling, PriceRow
  <2>2. CASE ~(x.fin \/ x.rate = Null \/ q = Null)
    <3>1. FinalizeSessionBilling(x, ledger) = Issue(WithHours(x, q), x.rate * q)
      BY <2>2 DEF FinalizeSessionBilling, PriceRow
    <3>2. Issue(WithHours(x, q), x.rate * q).fin
      BY DEF Issue, WithHours, RowType
    <3> QED
      BY <3>1, <3>2
  <2> QED
    BY <2>1, <2>2
<1>3. CASE x.rate = Null
  BY <1>2, <1>3 DEF Hopeless
<1>4. CASE x.rate # Null /\ Quantity(x, ledger) = Null
  <2>1. x.unit = "per_hour" /\ BillableHours(x, ledger) = Null
    BY <1>4 DEF Quantity
  <2>2. PausedTime(ledger, x.endedAt) \in Nat
    BY PausedTimeIsNatural
  <2>3. CASE x.endedAt # Null /\ ~(x.endedAt < x.startedAt)
    <3>1. x.endedAt - x.startedAt \in Int /\ ~(x.endedAt - x.startedAt < 0)
      BY <1>1, <2>3
    <3>2. BillableHours(x, ledger) \in Int
      BY <2>2, <2>3, <3>1 DEF BillableHours
    <3> QED
      BY <2>1, <3>2, NullAssumption
  <2> QED
    BY <1>2, <2>1, <2>3 DEF Hopeless
<1> QED
  BY <1>2, <1>3, <1>4

\* A priced row carries the price.
LEMMA PriceIsWritten ==
  ASSUME NEW x \in RowType, x.status \in Terminal, x.status = "completed" => x.area # Null,
         ~ x.fin
  PROVE  /\ x.status = "aborted" => /\ FinalizeCancelledSession(x).fin
                                     /\ FinalizeCancelledSession(x).total = PriceOf(x)
         /\ x.status = "completed" /\ FinalizeSessionBilling(x, <<>>).fin
              => FinalizeSessionBilling(x, <<>>).total = PriceOf(x)
<1>1. CASE x.status = "aborted"
  BY <1>1 DEF FinalizeCancelledSession, Issue, PriceOf, RowType
<1>2. ASSUME x.status = "completed", FinalizeSessionBilling(x, <<>>).fin
      PROVE  FinalizeSessionBilling(x, <<>>).total = PriceOf(x)
  <2> DEFINE q == Quantity(x, <<>>)
  <2>1. FinalizeSessionBilling(x, <<>>) = Issue(WithHours(x, q), x.rate * q)
    BY <1>2 DEF FinalizeSessionBilling, PriceRow
  <2>2. WithHours(x, q).total = x.total /\ Issue(WithHours(x, q), x.rate * q).total = x.rate * q
    BY DEF Issue, WithHours, RowType
  <2>3. PriceOf(x) = x.rate * q
    BY <1>2 DEF PriceOf
  <2> HIDE DEF q
  <2> QED
    BY <2>1, <2>2, <2>3
<1> QED
  BY <1>1, <1>2 DEF Terminal
-----------------------------------------------------------------------------
\* The rows and what the workers have read of them.

\* Another worker's step that leaves the rows alone: it takes nobody's quiet away.
LEMMA ReadStep ==
  ASSUME IInv, UnpricedRows, Copies,
         NEW r \in Requests, NEW q,
         req' = [req EXCEPT ![r] = q], UNCHANGED <<row, pauses>>,
         Blocks(q) => \/ q.s \in Sessions /\ row[q.s].status \in Attachable
                      \/ Blocks(req[r]) /\ q.s = req[r].s,
         q.pc = "backfill" => /\ q.s \in Sessions /\ q.obj = row[q.s]
                              /\ row[q.s].status \in Terminal /\ ~ row[q.s].fin
  PROVE  UnpricedRows' /\ Copies'
<1>1. /\ \A u \in Requests : req'[u] = IF u = r THEN q ELSE req[u]
      /\ req \in [Requests -> ReqType]
  BY DEF IInv, TypeOK
<1>2. ASSUME NEW s \in Sessions, Quiet(s)
      PROVE  Quiet(s)'
  BY <1>1, <1>2 DEF Quiet, Attachable, Terminal
<1>3. UnpricedRows'
  BY <1>2 DEF UnpricedRows, Hopeless
<1>4. ASSUME NEW u \in Requests, u # r
      PROVE  Copy(req[u])'
  <2> SUFFICES ASSUME req[u].pc = "backfill"
               PROVE  Copy(req[u])'
    BY <1>1, <1>4 DEF Copy
  <2> DEFINE s == req[u].s
             x == req[u].obj
  <2>1. req'[u] = req[u] /\ s \in Sessions /\ row' = row
    BY <1>1, <1>4 DEF IInv, RequestShape, Consistent
  <2>2. Copy(req[u])
    BY DEF Copies
  <2>3. row[s].status \in Terminal /\ ~ row[s].fin => Hopeless(row[s]) \/ Quiet(s)
    BY <2>1 DEF UnpricedRows
  <2>4. Faithful(x, s) => Faithful(x, s)'
    BY <1>2, <2>1 DEF Faithful, Quiet
  <2>5. Quiet(s)' /\ ~ row[s].fin => x = row[s] \/ Hopeless(row[s])
    <3>1. Quiet(s)' => row[s].status \in Terminal
      BY <2>1 DEF Quiet
    <3> QED
      BY <2>2, <2>3, <3>1 DEF Copy
  <2> QED
    BY <2>1, <2>2, <2>4, <2>5 DEF Copy, Hopeless
<1>5. Copy(q)'
  <2> SUFFICES ASSUME q.pc = "backfill"
               PROVE  Copy(q)'
    BY DEF Copy
  <2> DEFINE s == q.s
  <2>1. s \in Sessions /\ q.obj = row[s] /\ row[s].status \in Terminal /\ ~ row[s].fin
    OBVIOUS
  <2>2. Hopeless(row[s]) \/ Quiet(s)'
    BY <1>2, <2>1 DEF UnpricedRows
  <2>3. CASE row[s].status = "completed" /\ row[s].area = Null
    BY <2>1, <2>3 DEF Copy
  <2>4. CASE Hopeless(row[s])
    BY <2>1, <2>4 DEF Copy, Hopeless
  <2>5. CASE Quiet(s)' /\ (row[s].status = "aborted" \/ row[s].area # Null)
    BY <2>1, <2>5 DEF Copy, Faithful
  <2> QED
    BY <2>1, <2>2, <2>3, <2>4, <2>5 DEF Terminal
<1> QED
  BY <1>1, <1>3, <1>4, <1>5 DEF Copies

\* A commit to a session that was not quiet leaves it priced, hopeless or open.
LEMMA WriteStep ==
  ASSUME IInv, UnpricedRows, Copies,
         NEW r \in Requests, NEW s \in Sessions, NEW new, NEW ledger,
         ~ Quiet(s), new.status \in Terminal /\ ~ new.fin => Hopeless(new),
         row' = [row EXCEPT ![s] = new], pauses' = [pauses EXCEPT ![s] = ledger],
         req' = [req EXCEPT ![r] = Idle]
  PROVE  UnpricedRows' /\ Copies'
<1>1. /\ \A u \in Requests : req'[u] = IF u = r THEN Idle ELSE req[u]
      /\ \A u \in Sessions : /\ row'[u] = IF u = s THEN new ELSE row[u]
                             /\ pauses'[u] = IF u = s THEN ledger ELSE pauses[u]
  BY DEF IInv, TypeOK
<1>2. ASSUME NEW u \in Sessions, u # s, Quiet(u)
      PROVE  Quiet(u)'
  BY <1>1, <1>2 DEF Quiet, Blocks, Idle
<1>3. UnpricedRows'
  BY <1>1, <1>2 DEF UnpricedRows, Hopeless
<1>6. ASSUME NEW u \in Sessions, u # s, NEW x, Faithful(x, u)
      PROVE  Faithful(x, u)'
  BY <1>1, <1>2, <1>6 DEF Faithful
<1>4. ASSUME NEW v \in Requests, v # r
      PROVE  Copy(req[v])'
  <2> SUFFICES ASSUME req[v].pc = "backfill"
               PROVE  Copy(req[v])'
    BY <1>1, <1>4 DEF Copy
  <2> DEFINE u == req[v].s
             x == req[v].obj
  <2>1. req'[v] = req[v] /\ u \in Sessions
    BY <1>1, <1>4 DEF IInv, RequestShape, Consistent
  <2>2. Copy(req[v])
    BY DEF Copies
  <2>3. CASE u = s
    <3>1. Quiet(s)' => row'[s].status \in Terminal
      BY DEF Quiet
    <3>2. row'[s] = new
      BY <1>1
    <3>3. Quiet(s)' /\ ~ row'[s].fin => Hopeless(row'[s])
      BY <3>1, <3>2
    <3>4. x.status \in Terminal /\ (Hopeless(x) \/ (x.status = "completed" /\ x.area = Null))
      BY <2>2, <2>3 DEF Copy, Faithful
    <3> QED
      BY <2>1, <2>3, <3>3, <3>4 DEF Copy, Hopeless
  <2>4. CASE u # s
    <3>1. row'[u] = row[u]
      BY <1>1, <2>1, <2>4
    <3>2. Faithful(x, u) => Faithful(x, u)'
      <4>1. Quiet(u) => Quiet(u)'
        BY <1>2, <2>1, <2>4 DEF Quiet
      <4> QED
        BY <2>1, <3>1, <4>1 DEF Faithful
    <3>3. Quiet(u)' => row[u].status \in Terminal
      BY <2>1, <3>1 DEF Quiet
    <3>4. row[u].status \in Terminal /\ ~ row[u].fin => Hopeless(row[u]) \/ Quiet(u)
      BY <2>1 DEF UnpricedRows
    <3>5. Quiet(u)' /\ ~ row'[u].fin => x = row'[u] \/ Hopeless(row'[u])
      BY <2>2, <3>1, <3>3, <3>4 DEF Copy
    <3> QED
      BY <2>1, <2>2, <3>2, <3>5 DEF Copy, Hopeless
  <2> QED
    BY <2>3, <2>4
<1>5. Copy(Idle)'
  BY DEF Copy, Idle
<1> QED
  BY <1>1, <1>3, <1>4, <1>5 DEF Copies

\* What a backfill writes: an issued charge stays, the status stays, a row that it leaves
\* unpriced is hopeless or untouched, and one that another faithful backfill may still
\* price is priced as that one will.
LEMMA BackfillOutcome ==
  ASSUME IInv, UnpricedRows,
         NEW s \in Sessions, NEW x \in RowType,
         x.startedAt # Null, ~ x.fin, x.status \in Terminal,
         row[s].status # "none",
         Quiet(s) /\ ~ row[s].fin => x = row[s] \/ Hopeless(row[s]),
         Hopeless(x) \/ (x.status = "completed" /\ x.area = Null) \/ Faithful(x, s)
  PROVE  LET new == BackfilledRow(s, x)
         IN  /\ new.status = row[s].status
             /\ row[s].fin => new.fin /\ new.total = row[s].total
             /\ new.status \in Terminal /\ ~ new.fin => Hopeless(new) \/ new = row[s]
             /\ /\ Quiet(s) /\ ~ row[s].fin /\ ~ Hopeless(row[s])
                /\ row[s].status = "aborted" \/ row[s].area # Null
                => IF new.fin THEN new.total = PriceOf(row[s]) ELSE new = row[s]
<1> DEFINE new == BackfilledRow(s, x)
<1>1. /\ row[s] \in RowType /\ row[s].startedAt # Null /\ pauses[s] \in Seq(PauseRow)
      /\ row[s].status \in Terminal /\ ~ row[s].fin => Hopeless(row[s]) \/ Quiet(s)
  BY DEF IInv, TypeOK, RowShape, UnpricedRows
<1>2. new.status = row[s].status
  BY <1>1, BackfillKeepsStatus
<1>3. CASE Hopeless(x)
  <2>1. FinalizeSessionBilling(x, pauses[s]) = x
    BY <1>3, HopelessIsFree
  <2>2. new = WriteCharge(row[s], x)
    BY <1>3, <2>1 DEF BackfilledRow, Hopeless
  <2>3. new = row[s]
    BY <2>2 DEF WriteCharge
  <2> QED
    BY <1>2, <2>3
<1>4. CASE x.status = "completed" /\ x.area = Null
  <2> DEFINE a == AreaOf(FixesOf(s), pauses[s])
             y == [row[s] EXCEPT !.area = a]
  <2>1. a \in Nat /\ a # Null
    BY AreaIsNatural, NullAssumption DEF FixesOf
  <2>2. /\ y \in RowType /\ y.startedAt # Null /\ y.area # Null
        /\ y.status = row[s].status /\ y.fin = row[s].fin /\ y.total = row[s].total
    BY <1>1, <2>1 DEF RowType, Maybe
  <2>3. new = FinalizeSessionBilling(y, pauses[s])
    BY <1>4 DEF BackfilledRow
  <2> HIDE DEF new, y
  <2>4. row[s].fin => new.fin /\ new.total = row[s].total
    BY <2>2, <2>3 DEF FinalizeSessionBilling
  <2>5. ASSUME new.status \in Terminal, ~ new.fin
        PROVE  Hopeless(new)
    <3>1. ~ row[s].fin /\ row[s].status \in Terminal
      BY <1>2, <2>4, <2>5 DEF new
    <3>2. row[s].status = "completed"
      BY <1>1, <1>4, <3>1 DEF Hopeless
    <3> QED
      BY <1>1, <2>2, <2>3, <2>5, <3>2, UnpricedIsHopeless
  <2>6. ASSUME Quiet(s), ~ row[s].fin, ~ Hopeless(row[s])
        PROVE  row[s].status = "completed" /\ row[s].area = Null
    BY <1>4, <2>6
  <2> QED
    BY <1>2, <2>4, <2>5, <2>6 DEF new
<1>5. CASE Faithful(x, s) /\ ~ Hopeless(x)
  <2>1. /\ x.status = row[s].status /\ pauses[s] = <<>>
        /\ x.status = "completed" => x.area # Null
        /\ IF row[s].fin THEN row[s].total = PriceOf(x) ELSE x = row[s]
    BY <1>5 DEF Faithful, Quiet
  <2> DEFINE done == IF x.status = "aborted" THEN FinalizeCancelledSession(x)
                     ELSE FinalizeSessionBilling(x, <<>>)
  <2>2. new = WriteCharge(row[s], done)
    BY <2>1 DEF BackfilledRow, Terminal
  <2>3. done.fin /\ done.total = PriceOf(x)
    <3>1. CASE x.status = "aborted"
      BY <3>1, <2>1, PriceIsWritten
    <3>2. CASE x.status = "completed"
      <4>1. <<>> \in Seq(PauseRow)
        OBVIOUS
      <4>2. FinalizeSessionBilling(x, <<>>).fin
        BY <1>5, <2>1, <3>2, <4>1, UnpricedIsHopeless
      <4> QED
        BY <2>1, <3>2, <4>2, PriceIsWritten
    <3> QED
      BY <3>1, <3>2 DEF Terminal
  <2> HIDE DEF done
  <2>4. new.fin /\ new.total = done.total
    BY <1>1, <2>2, <2>3 DEF WriteCharge, RowType
  <2> QED
    BY <1>2, <2>1, <2>3, <2>4
<1> QED
  BY <1>3, <1>4, <1>5

\* The commit of a backfill leaves the copies of the others usable.
LEMMA BackfillStep ==
  ASSUME IInv, UnpricedRows, Copies, NEW r \in Requests, BackfillCommit(r)
  PROVE  /\ UnpricedRows' /\ Copies'
         /\ row[req[r].s].fin => /\ row'[req[r].s].fin
                                 /\ row'[req[r].s].total = row[req[r].s].total
<1>1. /\ req[r] \in ReqType /\ Consistent(req[r]) /\ Copy(req[r]) /\ req[r].pc = "backfill"
      /\ row \in [Sessions -> RowType]
  BY DEF IInv, TypeOK, RequestShape, Copies, BackfillCommit
<1>2. PICK s \in Sessions, x \in RowType : s = req[r].s /\ x = req[r].obj
  BY <1>1 DEF Consistent, ReqType
<1> DEFINE new == BackfilledRow(s, x)
<1>3. /\ new.status = row[s].status
      /\ row[s].fin => new.fin /\ new.total = row[s].total
      /\ new.status \in Terminal /\ ~ new.fin => Hopeless(new) \/ new = row[s]
      /\ /\ Quiet(s) /\ ~ row[s].fin /\ ~ Hopeless(row[s])
         /\ row[s].status = "aborted" \/ row[s].area # Null
         => IF new.fin THEN new.total = PriceOf(row[s]) ELSE new = row[s]
  BY <1>1, <1>2, BackfillOutcome DEF Consistent, Copy
<1>4. row' = [row EXCEPT ![s] = new] /\ req' = [req EXCEPT ![r] = Idle] /\ pauses' = pauses
  BY <1>2 DEF BackfillCommit
<1> HIDE DEF new
<1>5. /\ \A v \in Requests : req'[v] = IF v = r THEN Idle ELSE req[v]
      /\ \A u \in Sessions : row'[u] = IF u = s THEN new ELSE row[u]
  BY <1>1, <1>4 DEF IInv, TypeOK
<1>6. ASSUME NEW u \in Sessions
      PROVE  Quiet(u)' <=> Quiet(u)
  <2>1. ~ Blocks(req[r]) /\ ~ Blocks(Idle)
    BY <1>1 DEF Blocks, Idle
  <2>2. row'[u].status = row[u].status
    BY <1>3, <1>5
  <2>3. ASSUME Quiet(u) PROVE Quiet(u)'
    BY <1>4, <1>5, <2>1, <2>2, <2>3 DEF Quiet
  <2>4. ASSUME Quiet(u)' PROVE Quiet(u)
    <3>1. \A v \in Requests : req[v].s = u => ~ Blocks(req[v])
      BY <1>5, <2>1, <2>4 DEF Quiet
    <3> QED
      BY <1>4, <2>2, <2>4, <3>1 DEF Quiet
  <2> QED
    BY <2>3, <2>4
<1>7. ASSUME NEW u \in Sessions, row'[u].status \in Terminal, ~ row'[u].fin
      PROVE  Hopeless(row'[u]) \/ Quiet(u)'
  <2>1. row'[u] = row[u] \/ Hopeless(row'[u])
    BY <1>3, <1>5, <1>7
  <2> QED
    BY <1>6, <1>7, <2>1 DEF UnpricedRows
<1>8. ASSUME NEW u \in Sessions, NEW y, ~ Hopeless(y), Faithful(y, u)
      PROVE  Faithful(y, u)'
  <2>1. CASE u # s
    BY <1>5, <1>6, <1>8, <2>1 DEF Faithful
  <2>2. CASE u = s /\ row[s].fin
    BY <1>3, <1>5, <1>6, <1>8, <2>2 DEF Faithful
  <2>3. CASE u = s /\ ~ row[s].fin
    <3>1. /\ y = row[s] /\ Quiet(s) /\ ~ Hopeless(row[s])
          /\ row[s].status = "aborted" \/ row[s].area # Null
      BY <1>8, <2>3 DEF Faithful
    <3>2. IF new.fin THEN new.total = PriceOf(y) ELSE y = new
      BY <1>3, <2>3, <3>1
    <3> QED
      BY <1>3, <1>5, <1>6, <2>3, <3>1, <3>2 DEF Faithful
  <2> QED
    BY <2>1, <2>2, <2>3
<1>9. ASSUME NEW v \in Requests, v # r, req[v].pc = "backfill"
      PROVE  Copy(req[v])'
  <2>1. /\ req'[v] = req[v] /\ req[v].s \in Sessions /\ Copy(req[v])
        /\ req[v].obj \in RowType
    BY <1>5, <1>9 DEF IInv, TypeOK, ReqType, RequestShape, Consistent, Copies
  <2>2. PICK u \in Sessions, y \in RowType : u = req[v].s /\ y = req[v].obj
    BY <2>1
  <2>3. /\ y.status \in Terminal
        /\ Quiet(u) /\ ~ row[u].fin => y = row[u] \/ Hopeless(row[u])
        /\ Hopeless(y) \/ (y.status = "completed" /\ y.area = Null) \/ Faithful(y, u)
    BY <1>9, <2>1, <2>2 DEF Copy
  <2>4. ASSUME Quiet(u)', ~ row'[u].fin
        PROVE  y = row'[u] \/ Hopeless(row'[u])
    <3>1. Quiet(u) /\ row'[u].status \in Terminal
      BY <1>6, <2>4 DEF Quiet
    <3>2. row'[u] = row[u] \/ Hopeless(row'[u])
      BY <1>3, <1>5, <2>4, <3>1
    <3> QED
      BY <2>3, <2>4, <3>1, <3>2
  <2>5. Hopeless(y) \/ (y.status = "completed" /\ y.area = Null) \/ Faithful(y, u)'
    BY <1>8, <2>3
  <2>6. req'[v].s = u /\ req'[v].obj = y
    BY <2>1, <2>2
  <2> HIDE DEF Hopeless
  <2> QED
    BY <2>3, <2>4, <2>5, <2>6 DEF Copy, Hopeless
<1>10. Copies'
  <2>1. ASSUME NEW v \in Requests, req'[v].pc = "backfill"
        PROVE  v # r /\ req[v].pc = "backfill"
    BY <1>5, <2>1 DEF Idle
  <2> QED
    BY <1>9, <2>1 DEF Copies, Copy
<1> QED
  BY <1>2, <1>3, <1>5, <1>7, <1>10 DEF UnpricedRows, Hopeless

\* A stop or a cancel leaves its row priced or hopeless.
LEMMA ClosedRowUnpriced ==
  ASSUME NEW s \in Sessions, NEW call \in Closing, NEW at \in Time,
         NEW ledger \in Seq(PauseRow), FixesOf(s) \subseteq Time,
         row[s] \in RowType, row[s].startedAt # Null
  PROVE  LET new == ClosedRow(s, call, at, ledger)
         IN  /\ ~ new.fin => Hopeless(new)
             /\ row[s].fin => new.fin /\ new.total = row[s].total
<1> DEFINE a == AreaOf(FixesOf(s), ledger)
           y == [row[s] EXCEPT !.status = EndStatus(call), !.endedAt = at, !.area = a]
<1>1. a \in Nat /\ a # Null
  BY AreaIsNatural, NullAssumption
<1>2. EndStatus(call) \in Terminal /\ (call = "stop" => EndStatus(call) = "completed")
  BY DEF EndStatus, Terminal
<1>3. /\ y \in RowType /\ y.startedAt # Null /\ y.area # Null
      /\ y.status = EndStatus(call) /\ y.fin = row[s].fin /\ y.total = row[s].total
  <2>1. y \in RowType
    BY <1>1, <1>2 DEF RowType, Maybe, Statuses
  <2>2. /\ y.status = EndStatus(call) /\ y.area = a /\ y.startedAt = row[s].startedAt
        /\ y.fin = row[s].fin /\ y.total = row[s].total
    BY DEF RowType
  <2> QED
    BY <1>1, <2>1, <2>2
<1>4. ClosedRow(s, call, at, ledger) = Finalize(call, y, ledger)
  BY DEF ClosedRow
<1> HIDE DEF y, a
<1>5. CASE call = "stop"
  <2>1. ClosedRow(s, call, at, ledger) = FinalizeSessionBilling(y, ledger)
    BY <1>4, <1>5 DEF Finalize
  <2>2. y.fin => FinalizeSessionBilling(y, ledger) = y
    BY <1>3, FinalizeEffect
  <2>3. ~ FinalizeSessionBilling(y, ledger).fin =>
          FinalizeSessionBilling(y, ledger) = y /\ Hopeless(y)
    BY <1>2, <1>3, <1>5, UnpricedIsHopeless
  <2> QED
    BY <1>3, <2>1, <2>2, <2>3
<1>6. CASE call # "stop"
  <2>1. ClosedRow(s, call, at, ledger) = FinalizeCancelledSession(y)
    BY <1>4, <1>6 DEF Finalize
  <2>2. FinalizeCancelledSession(y).fin /\ (y.fin => FinalizeCancelledSession(y) = y)
    BY <1>3, CancelledEffect
  <2> QED
    BY <1>3, <2>1, <2>2
<1> QED
  BY <1>5, <1>6

\* The steps that only read, and the environment's.
LEMMA ReadsKeepPromise ==
  ASSUME IInv, UnpricedRows, Copies, NEW r \in Requests, RequestStep(r),
         ~ CommitStepOf(r), ~ \E s \in Sessions : StartCommit(r, s)
  PROVE  UnpricedRows' /\ Copies'
<1> DEFINE q == req'[r]
<1>1. req \in [Requests -> ReqType] /\ Consistent(req[r])
  BY DEF IInv, TypeOK, RequestShape
<1>2. CASE \E o \in Operators, k \in OperationTypes : StartCheck(r, o, k)
  <2>1. /\ UNCHANGED <<row, pauses>> /\ req' = [req EXCEPT ![r] = q] /\ q.pc = "start"
    BY <1>1, <1>2 DEF StartCheck, Idle
  <2> HIDE DEF q
  <2> QED
    BY <2>1, ReadStep DEF Blocks
<1>3. CASE \E s \in Sessions : PauseCheck(r, s) \/ ResumeCheck(r, s)
  <2>1. /\ UNCHANGED <<row, pauses>> /\ req' = [req EXCEPT ![r] = q]
        /\ q.pc # "backfill" /\ q.s \in Sessions /\ row[q.s].status \in Attachable
    <3>1. CASE \E s \in Sessions : PauseCheck(r, s)
      BY <1>1, <3>1 DEF PauseCheck, Idle, Attachable
    <3>2. CASE \E s \in Sessions : ResumeCheck(r, s)
      BY <1>1, <3>2 DEF ResumeCheck, Idle, Attachable
    <3> QED
      BY <1>3, <3>1, <3>2
  <2> HIDE DEF q
  <2> QED
    BY <2>1, ReadStep
<1>4. CASE \E s \in Sessions : BackfillCheck(r, s)
  <2>1. /\ UNCHANGED <<row, pauses>> /\ req' = [req EXCEPT ![r] = q]
        /\ q.pc = "backfill" /\ q.s \in Sessions /\ q.obj = row[q.s]
        /\ row[q.s].status \in Terminal /\ ~ row[q.s].fin
    BY <1>1, <1>4 DEF BackfillCheck, Idle
  <2> HIDE DEF q
  <2> QED
    BY <2>1, ReadStep DEF Blocks
<1>5. ASSUME NEW call \in Closing, \E s \in Sessions : CloseCheck(r, s, call)
      PROVE  UnpricedRows' /\ Copies'
  <2>1. /\ UNCHANGED <<row, pauses>> /\ req' = [req EXCEPT ![r] = q]
        /\ q.pc # "backfill" /\ q.s \in Sessions /\ row[q.s].status \in Attachable
    BY <1>1, <1>5 DEF CloseCheck, MayClose, Idle, Closing
  <2> HIDE DEF q
  <2> QED
    BY <2>1, ReadStep
<1>6. ASSUME NEW call \in Closing,
             CloseFlush(r, call) \/ FlushNothing(r, call) \/ CloseEnd(r, call)
      PROVE  UnpricedRows' /\ Copies'
  <2>1. /\ UNCHANGED <<row, pauses>> /\ req' = [req EXCEPT ![r] = q]
        /\ q.s = req[r].s /\ Blocks(req[r]) /\ q.pc # "backfill"
    BY <1>1, <1>6 DEF CloseFlush, TakeBuffer, FlushNothing, CloseEnd, ReqType, Closing,
                      FlushedPc, EndedPc, Blocks
  <2> HIDE DEF q
  <2> QED
    BY <2>1, ReadStep
<1>7. CASE Fail(r)
  <2>1. /\ UNCHANGED <<row, pauses>> /\ req' = [req EXCEPT ![r] = Idle]
    BY <1>7 DEF Fail
  <2> QED
    BY <2>1, ReadStep DEF Idle, Blocks
<1> QED
  BY <1>2, <1>3, <1>4, <1>5, <1>6, <1>7 DEF RequestStep, CommitStepOf

\* The steps that write a row: an open session or one somebody was about to change.
LEMMA WritesKeepPromise ==
  ASSUME IInv, UnpricedRows, Copies, NEW r \in Requests,
         \/ \E s \in Sessions : StartCommit(r, s)
         \/ CommitStepOf(r) /\ ~ BackfillCommit(r)
  PROVE  /\ UnpricedRows' /\ Copies'
         /\ CommitStepOf(r) => (row[req[r].s].fin =>
              row'[req[r].s].fin /\ row'[req[r].s].total = row[req[r].s].total)
<1>1. /\ req \in [Requests -> ReqType] /\ Consistent(req[r])
      /\ row \in [Sessions -> RowType] /\ pauses \in [Sessions -> Seq(PauseRow)]
  BY DEF IInv, TypeOK, RequestShape
<1>2. ASSUME NEW s \in Sessions, StartCommit(r, s)
      PROVE  UnpricedRows' /\ Copies' /\ ~ CommitStepOf(r)
  <2> DEFINE new == row'[s]
  <2>1. /\ row' = [row EXCEPT ![s] = new] /\ pauses' = [pauses EXCEPT ![s] = pauses[s]]
        /\ req' = [req EXCEPT ![r] = Idle]
        /\ ~ Quiet(s) /\ new.status \notin Terminal
    BY <1>1, <1>2 DEF StartCommit, Consistent, Quiet, Terminal
  <2> HIDE DEF new
  <2>2. UnpricedRows' /\ Copies'
    BY <2>1, WriteStep
  <2> QED
    BY <1>2, <2>2 DEF StartCommit, CommitStepOf, PauseCommit, ResumeCommit, BackfillCommit,
                      CloseCommit, Closing, EndedPc
<1>3. ASSUME CommitStepOf(r), ~ BackfillCommit(r)
      PROVE  /\ UnpricedRows' /\ Copies'
             /\ row[req[r].s].fin =>
                  row'[req[r].s].fin /\ row'[req[r].s].total = row[req[r].s].total
  <2>1. PICK s \in Sessions : s = req[r].s
    BY <1>3, CommitEffect
  <2> DEFINE new == row'[s]
             ledger == pauses'[s]
  <2>2. /\ row' = [row EXCEPT ![s] = new] /\ pauses' = [pauses EXCEPT ![s] = ledger]
        /\ req' = [req EXCEPT ![r] = Idle] /\ row[s].startedAt # Null
    BY <1>1, <1>3, <2>1, CommitEffect DEF IInv, RowShape
  <2>3. ~ Quiet(s)
    <3>1. Blocks(req[r])
      BY <1>3 DEF CommitStepOf, PauseCommit, ResumeCommit, CloseCommit, Closing, EndedPc, Blocks
    <3> QED
      BY <2>1, <3>1 DEF Quiet
  <2>4. /\ new.status \in Terminal /\ ~ new.fin => Hopeless(new)
        /\ row[s].fin => new.fin /\ new.total = row[s].total
    <3>1. CASE PauseCommit(r) \/ ResumeCommit(r)
      <4>1. PICK st \in Attachable : row' = [row EXCEPT ![s].status = st]
        BY <2>1, <3>1 DEF PauseCommit, ResumeCommit, Attachable
      <4>2. new.status = st /\ new.fin = row[s].fin /\ new.total = row[s].total
        BY <1>1, <4>1 DEF RowType
      <4> QED
        BY <4>2 DEF Attachable, Terminal
    <3>2. ASSUME NEW call \in Closing, CloseCommit(r, call)
          PROVE  /\ ~ new.fin => Hopeless(new)
                 /\ row[s].fin => new.fin /\ new.total = row[s].total
      <4> DEFINE l == ClosePause(pauses[s], req[r].open, req[r].at)
      <4>1. req[r].at \in Time
        BY <1>1, <3>2 DEF CloseCommit, Closing, EndedPc, Consistent, ReqType, Maybe
      <4>2. l \in Seq(PauseRow)
        BY <1>1, <4>1, LedgerType
      <4>3. new = ClosedRow(s, call, req[r].at, l)
        BY <1>1, <2>1, <3>2 DEF CloseCommit
      <4> HIDE DEF l, new
      <4> QED
        BY <1>1, <2>2, <4>1, <4>2, <4>3, ClosedRowUnpriced DEF FixesOf
    <3> QED
      BY <1>3, <3>1, <3>2 DEF CommitStepOf
  <2> HIDE DEF new, ledger
  <2>5. UnpricedRows' /\ Copies'
    BY <2>2, <2>3, <2>4, WriteStep
  <2> QED
    BY <2>1, <2>4, <2>5 DEF new
<1> QED
  BY <1>2, <1>3

Promise == UnpricedRows /\ Copies

LEMMA PromiseInit == Init => Promise
<1> SUFFICES ASSUME Init PROVE Promise
  OBVIOUS
<1>1. \A s \in Sessions : row[s].status \in Terminal => Quiet(s)
  BY DEF Init, Quiet, Blocks, Idle
<1> QED
  BY <1>1 DEF Init, Promise, UnpricedRows, Copies, Copy, Idle

LEMMA PromiseStep ==
  ASSUME IInv, Promise, [Next]_vars
  PROVE  Promise'
<1> USE DEF Promise
<1>1. ASSUME NEW r \in Requests, RequestStep(r) PROVE Promise'
  BY <1>1, ReadsKeepPromise, WritesKeepPromise, BackfillStep DEF CommitStepOf
<1>2. ASSUME UNCHANGED <<row, pauses, req>> PROVE Promise'
  <2>1. UnpricedRows'
    BY <1>2 DEF UnpricedRows, Quiet, Hopeless
  <2>2. ASSUME NEW r \in Requests PROVE Copy(req[r])'
    BY <1>2 DEF Copies, Copy, Faithful, Quiet, Hopeless
  <2> QED
    BY <2>1, <2>2 DEF Copies
<1>3. CASE Restart
  <2>1. UNCHANGED <<row, pauses>> /\ \A r \in Requests : req'[r] = Idle
    BY <1>3 DEF Restart
  <2>2. \A s \in Sessions : Quiet(s) => Quiet(s)'
    BY <2>1 DEF Quiet, Blocks, Idle
  <2> QED
    BY <2>1, <2>2 DEF UnpricedRows, Copies, Copy, Hopeless, Idle
<1>4. CASE BackgroundFlush \/ FlushStep
  <2>1. ASSUME NEW r \in Requests, NEW call \in Closing, Flushed(r, call),
               UNCHANGED <<row, pauses>>
        PROVE  Promise'
    <3> DEFINE q == req'[r]
    <3>1. /\ req' = [req EXCEPT ![r] = q]
          /\ q.s = req[r].s /\ Blocks(req[r]) /\ q.pc # "backfill"
      BY <2>1 DEF Flushed, IInv, TypeOK, ReqType, Closing, FlushedPc, Blocks
    <3> HIDE DEF q
    <3> QED
      BY <2>1, <3>1, ReadStep
  <2> QED
    BY <1>2, <1>4, <2>1, FlushEffect
<1>5. CASE ~ Restart /\ ~ BackgroundFlush /\ ~ FlushStep /\ ~ \E r \in Requests : RequestStep(r)
  <2>1. UNCHANGED <<row, pauses, req>>
    BY <1>5 DEF Next, vars, Tick, EditRateCard, DeliverFix, WriterStep, WriterResolve,
                WriterCommit
  <2> QED
    BY <1>2, <2>1
<1> QED
  BY <1>1, <1>3, <1>4, <1>5

-----------------------------------------------------------------------------
(* Every step opens one session, issues one charge, or is invisible. *)

Opened(s) == row[s].status # "none"
Charge(s) == IF row[s].fin THEN row[s].total ELSE Null

\* What a step may do to the ledger entry of one session.
EntryStep(s) ==
  \/ Opened(s)' = Opened(s) /\ row'[s].rate = row[s].rate /\ Charge(s)' = Charge(s)
  \/ /\ ~ Opened(s) /\ Opened(s)' /\ row'[s].rate \in Rates /\ Charge(s)' = Charge(s)
  \/ /\ Opened(s) /\ Opened(s)' /\ row'[s].rate = row[s].rate
     /\ Charge(s) = Null /\ Charge(s)' \in Nat

LEMMA EntryMoves ==
  ASSUME IInv, IInv', Promise, [Next]_vars, NEW s \in Sessions
  PROVE  EntryStep(s)
<1>1. /\ req \in [Requests -> ReqType] /\ row \in [Sessions -> RowType]
      /\ row[s].status = "none" => row[s] = NoRow
      /\ row'[s].fin => row'[s].total \in Nat
  BY DEF IInv, TypeOK, RowShape, RowType, Maybe
<1>2. CASE row'[s] = row[s]
  BY <1>2 DEF EntryStep, Opened, Charge
<1>3. ASSUME NEW r \in Requests, StartCommit(r, s) PROVE EntryStep(s)
  <2>1. /\ row'[s] = req[r].obj /\ row[s] = NoRow
        /\ req[r].obj.status = "active" /\ req[r].obj.rate # Null /\ ~ req[r].obj.fin
    BY <1>1, <1>3 DEF StartCommit, IInv, RequestShape, Consistent
  <2>2. req[r].obj.rate \in Rates
    BY <1>1, <2>1 DEF ReqType, RowType, Maybe
  <2> QED
    BY <2>1, <2>2 DEF EntryStep, Opened, Charge, NoRow
<1>4. ASSUME NEW r \in Requests, CommitStepOf(r), req[r].s = s,
             row[s].status # "none", GoodRow(s, row'[s])
      PROVE  EntryStep(s)
  <2>1. row[s].fin => row'[s].fin /\ row'[s].total = row[s].total
    BY <1>4, BackfillStep, WritesKeepPromise DEF Promise
  <2> QED
    BY <1>1, <1>4, <2>1 DEF EntryStep, Opened, Charge, GoodRow
<1> QED
  BY <1>2, <1>3, <1>4, RowChange

\* A step changes the row of one session at most.
LEMMA OneRowMoves ==
  ASSUME IInv, [Next]_vars
  PROVE  row' = row \/ \E s \in Sessions : \A u \in Sessions \ {s} : row'[u] = row[u]
<1>1. row \in [Sessions -> RowType]
  BY DEF IInv, TypeOK
<1>2. ASSUME NEW r \in Requests, NEW s \in Sessions, StartCommit(r, s)
      PROVE  \A u \in Sessions \ {s} : row'[u] = row[u]
  BY <1>1, <1>2 DEF StartCommit
<1>3. ASSUME NEW r \in Requests, CommitStepOf(r)
      PROVE  \E s \in Sessions : \A u \in Sessions \ {s} : row'[u] = row[u]
  <2> DEFINE s == req[r].s
  <2>1. PICK new \in RowType : row' = [row EXCEPT ![s] = new]
    BY <1>3, CommitEffect
  <2>2. s \in Sessions
    BY <1>3, CommitEffect
  <2> HIDE DEF s
  <2>3. \A u \in Sessions \ {s} : row'[u] = row[u]
    BY <1>1, <2>1
  <2> QED
    BY <2>2, <2>3
<1>4. ASSUME NEW r \in Requests, RequestStep(r), ~ CommitStepOf(r),
             ~ \E u \in Sessions : StartCommit(r, u)
      PROVE  row' = row
  BY <1>4 DEF RequestStep, CommitStepOf, StartCheck, PauseCheck, ResumeCheck, BackfillCheck,
              CloseCheck, CloseFlush, TakeBuffer, FlushNothing, CloseEnd, Fail
<1>5. (\E r \in Requests : RequestStep(r)) \/ row' = row
  BY FlushEffect DEF Next, vars, Tick, EditRateCard, DeliverFix, WriterStep, WriterResolve,
                     WriterCommit, Restart
<1> QED
  BY <1>2, <1>3, <1>4, <1>5

LEMMA LedgerInit == Init => Ledger!Init
<1> SUFFICES ASSUME Init PROVE Ledger!Init
  OBVIOUS
<1>1. ASSUME NEW s \in Sessions
      PROVE  /\ row[s].rate \in Rates \cup {Null} /\ ~ row[s].fin
             /\ row[s].rate # Null => row[s].status # "none"
  <2>1. CASE row[s] = NoRow
    BY <2>1 DEF NoRow
  <2>2. CASE row[s] \in LegacyRows
    <3>1. PICK st \in Attachable \cup Terminal, o \in Operators, k \in OperationTypes,
               rt \in Maybe(Rates), a \in {Null, 1} :
            row[s] = LegacyRow(st, o, k, rt, a)
      BY <2>2 DEF LegacyRows
    <3> QED
      BY <3>1 DEF LegacyRow, Attachable, Terminal, Maybe
  <2> QED
    BY <2>1, <2>2 DEF Init
<1> QED
  BY <1>1 DEF Ledger!Init

LEMMA LedgerStep ==
  ASSUME IInv, IInv', Promise, [Next]_vars
  PROVE  [Ledger!Next]_(Ledger!vars)
<1> DEFINE o == [s \in Sessions |-> row[s].status # "none"]
           c == [s \in Sessions |-> IF row[s].fin THEN row[s].total ELSE Null]
           p == [s \in Sessions |-> row[s].rate]
<1>1. CASE row' = row
  BY <1>1 DEF Ledger!vars
<1>2. ASSUME NEW s \in Sessions, \A u \in Sessions \ {s} : row'[u] = row[u]
      PROVE  [Ledger!Next]_(Ledger!vars)
  <2>1. EntryStep(s)
    BY EntryMoves
  <2>2. CASE Opened(s)' = Opened(s) /\ row'[s].rate = row[s].rate /\ Charge(s)' = Charge(s)
    <3>1. o' = o /\ p' = p /\ c' = c
      BY <1>2, <2>2 DEF Opened, Charge
    <3> QED
      BY <3>1 DEF Ledger!vars
  <2>3. CASE ~ Opened(s) /\ Opened(s)' /\ row'[s].rate \in Rates /\ Charge(s)' = Charge(s)
    <3>0. PICK k \in Rates : k = row'[s].rate
      BY <2>3
    <3>1. c' = c /\ o' = [o EXCEPT ![s] = TRUE] /\ p' = [p EXCEPT ![s] = k]
      BY <1>2, <2>3, <3>0 DEF Opened, Charge
    <3>2. Ledger!Open(s, k)
      BY <2>3, <3>1 DEF Ledger!Open, Opened
    <3> QED
      BY <3>2 DEF Ledger!Next
  <2>4. CASE /\ Opened(s) /\ Opened(s)' /\ row'[s].rate = row[s].rate
             /\ Charge(s) = Null /\ Charge(s)' \in Nat
    <3>1. /\ o' = o /\ p' = p /\ c' = [c EXCEPT ![s] = c'[s]] /\ c'[s] \in Nat
          /\ o[s] /\ c[s] = Null
      BY <1>2, <2>4 DEF Opened, Charge
    <3>2. Ledger!IssueCharge(s)
      BY <3>1 DEF Ledger!IssueCharge
    <3> QED
      BY <3>2 DEF Ledger!Next
  <2> QED
    BY <2>1, <2>2, <2>3, <2>4 DEF EntryStep
<1> QED
  BY <1>1, <1>2, OneRowMoves

\* SessionLifecycle implements ChargeLedger: the rate of a session is fixed when it is opened
\* and its charge is issued at most once and never moves, whatever stop, cancel, pause and
\* the backfill of area-summary do at the same time, with failures and restarts.
THEOREM ChargePromise == Spec => ChargeLedgerSpec
<1>1. Init => IInv /\ Promise /\ Ledger!Init
  BY InitInvariant, PromiseInit, LedgerInit
<1>2. IInv /\ Promise /\ [Next]_vars =>
        IInv' /\ Promise' /\ [Ledger!Next]_(Ledger!vars)
  BY InductiveStep, PromiseStep, LedgerStep
<1> QED
  BY <1>1, <1>2, PTL DEF Spec, ChargeLedgerSpec, Ledger!Spec

-----------------------------------------------------------------------------
(* What the area of a completed session misses. *)

\* Rows and ledgers are written by commits only.
LEMMA OnlyCommitsWrite ==
  ASSUME IInv, [Next]_vars,
         ~ \E r \in Requests : CommitStepOf(r) \/ \E s \in Sessions : StartCommit(r, s)
  PROVE  UNCHANGED <<row, pauses>>
<1>1. ASSUME NEW r \in Requests, RequestStep(r) PROVE UNCHANGED <<row, pauses>>
  BY <1>1 DEF RequestStep, CommitStepOf, StartCheck, PauseCheck, ResumeCheck, BackfillCheck,
              CloseCheck, CloseFlush, TakeBuffer, FlushNothing, CloseEnd, Fail
<1>2. CASE ~ \E r \in Requests : RequestStep(r)
  BY <1>2, FlushEffect DEF Next, vars, Tick, EditRateCard, DeliverFix, WriterStep,
                           WriterResolve, WriterCommit, Restart
<1> QED
  BY <1>1, <1>2

\* Commits store no readings and resolve no session.
LEMMA CommitsStoreNothing ==
  ASSUME IInv, NEW r \in Requests, CommitStepOf(r) \/ \E s \in Sessions : StartCommit(r, s)
  PROVE  UNCHANGED <<fix, flush, writer>>
  BY CommitEffect DEF StartCommit

\* A session that has ended is resolved by no one any more.
LEMMA EndedIsNoTarget ==
  ASSUME IInv, [Next]_vars, NEW s \in Sessions, row[s].status \in Terminal, ~ Underway(s)
  PROVE  ~ Underway(s)'
<1>1. s \notin Targets /\ s # Null
  BY SessionsAssumption DEF Targets, Attachable, Terminal
<1>2. /\ flush \in [by : Maybe(Requests), batch : SUBSET Time, target : Maybe(Stored)]
      /\ writer \in [Writers -> [batch : SUBSET Time, target : Maybe(Stored)]]
  BY DEF IInv, TypeOK
<1>3. ASSUME NEW by, TakeBuffer(by) PROVE ~ Underway(s)'
  BY <1>1, <1>3 DEF TakeBuffer, Underway
<1>4. CASE FlushStep
  <2>1. ASSUME NEW target \in Stored, FlushResolve(target) PROVE ~ Underway(s)'
    BY <1>1, <1>2, <2>1 DEF FlushResolve, Underway
  <2>2. CASE FlushReturns
    BY <1>1, <2>2 DEF FlushReturns, NoFlush, Underway
  <2> QED
    BY <1>4, <2>1, <2>2 DEF FlushStep, FlushCommit, FlushDrop
<1>5. ASSUME NEW w \in Writers, WriterStep(w) PROVE ~ Underway(s)'
  <2>1. flush' = flush /\ \A u \in Writers : writer'[u].target = s => writer[u].target = s
    <3>1. ASSUME NEW batch \in SUBSET Time, NEW target \in Stored,
                 WriterResolve(w, batch, target)
          PROVE  flush' = flush /\ \A u \in Writers : writer'[u].target = s => writer[u].target = s
      BY <1>1, <1>2, <3>1 DEF WriterResolve
    <3>2. CASE WriterCommit(w)
      BY <1>1, <1>2, <3>2 DEF WriterCommit, IdleWriter
    <3> QED
      BY <1>5, <3>1, <3>2 DEF WriterStep
  <2> QED
    BY <2>1 DEF Underway
<1>6. CASE Restart
  BY <1>1, <1>6 DEF Restart, Underway, NoFlush, IdleWriter
<1>7. CASE UNCHANGED <<flush, writer>>
  BY <1>7 DEF Underway
<1>8. ASSUME NEW r \in Requests, RequestStep(r), ~ \E call \in Closing : CloseFlush(r, call)
      PROVE  UNCHANGED <<flush, writer>>
  BY <1>8
  DEF RequestStep, StartCheck, StartCommit, PauseCheck, PauseCommit, ResumeCheck,
      ResumeCommit, BackfillCheck, BackfillCommit, CloseCheck, FlushNothing, CloseEnd,
      CloseCommit, Fail
<1> QED
  BY <1>3, <1>4, <1>5, <1>6, <1>7, <1>8
  DEF Next, vars, Tick, EditRateCard, DeliverFix, BackgroundFlush, CloseFlush

\* No reading comes to a session, or leaves it, but by a transaction that has resolved it.
LEMMA ReadingsSettle ==
  ASSUME IInv, FutureIsFuture, [Next]_vars, NEW s \in Sessions, ~ Underway(s)
  PROVE  FixesOf(s)' = FixesOf(s)
<1>1. "future" # s /\ "cloud" # s /\ "buffer" # s /\ s \in Stored
  BY SessionsAssumption DEF Stored
<1>2. now \in Time /\ fix \in [Time -> {"future", "cloud", "buffer"} \cup Stored]
  BY DEF IInv, TypeOK
<1>3. CASE Tick
  <2>1. fix[now + 1] = "future" /\ now + 1 \in Time
    BY <1>2, <1>3, TimeAssumption DEF Tick, FutureIsFuture, Time
  <2> QED
    BY <1>1, <1>2, <1>3, <2>1 DEF Tick, FixesOf
<1>4. CASE DeliverFix
  BY <1>1, <1>2, <1>4 DEF DeliverFix, FixesOf
<1>5. ASSUME NEW batch, NEW place, place # s, fix' = StoreBatch(batch, place)
      PROVE  FixesOf(s)' = FixesOf(s)
  BY <1>1, <1>2, <1>5 DEF StoreBatch, FixesOf
<1>6. CASE fix' = [t \in Time |-> IF fix[t] = "buffer" THEN "cloud" ELSE fix[t]]
  BY <1>1, <1>2, <1>6 DEF FixesOf
<1>7. CASE UNCHANGED fix
  BY <1>7 DEF FixesOf
<1>8. CASE FlushStep
  BY <1>5, <1>7, <1>8 DEF FlushStep, FlushResolve, FlushCommit, FlushDrop, Underway
<1>9. ASSUME NEW w \in Writers, WriterStep(w) PROVE FixesOf(s)' = FixesOf(s)
  BY <1>5, <1>7, <1>9 DEF WriterStep, WriterResolve, WriterCommit, Underway
<1>10. ASSUME NEW r \in Requests, RequestStep(r), ~ \E call \in Closing : CloseFlush(r, call)
       PROVE  UNCHANGED fix
  BY <1>10
  DEF RequestStep, StartCheck, StartCommit, PauseCheck, PauseCommit, ResumeCheck,
      ResumeCommit, BackfillCheck, BackfillCommit, CloseCheck, FlushNothing, CloseEnd,
      CloseCommit, Fail
<1> QED
  BY <1>3, <1>4, <1>6, <1>7, <1>8, <1>9, <1>10
  DEF Next, vars, EditRateCard, BackgroundFlush, CloseFlush, TakeBuffer, Restart

\* Pricing leaves the area as it was measured.
LEMMA PricingKeepsArea ==
  ASSUME NEW y \in RowType, NEW ledger
  PROVE  /\ FinalizeSessionBilling(y, ledger).area = y.area
         /\ FinalizeCancelledSession(y).area = y.area
<1>1. FinalizeSessionBilling(y, ledger).area = y.area
  BY DEF FinalizeSessionBilling, PriceRow, Issue, WithHours, RowType
<1>2. FinalizeCancelledSession(y).area = y.area
  BY DEF FinalizeCancelledSession, Issue, RowType
<1> QED
  BY <1>1, <1>2

\* A commit that leaves its session completed measures the area, or leaves area and ledger
\* as they are.
LEMMA CommitArea ==
  ASSUME IInv, NEW r \in Requests, CommitStepOf(r), NEW s \in Sessions, req[r].s = s,
         row'[s].status = "completed"
  PROVE  \/ row'[s].area = AreaOf(FixesOf(s), pauses'[s])
         \/ /\ row[s].status = "completed" /\ row'[s].area = row[s].area
            /\ pauses'[s] = pauses[s]
<1>1. /\ row \in [Sessions -> RowType] /\ pauses \in [Sessions -> Seq(PauseRow)]
      /\ row[s] \in RowType
  BY DEF IInv, TypeOK
<1>2. AreaOf(FixesOf(s), pauses[s]) \in Maybe(Nat) /\
      \A ledger : AreaOf(FixesOf(s), ledger) \in Maybe(Nat)
  BY AreaIsNatural DEF FixesOf, Maybe
<1>3. ~ PauseCommit(r) /\ ~ ResumeCommit(r)
  BY <1>1 DEF PauseCommit, ResumeCommit, RowType
<1>4. ASSUME NEW call \in Closing, CloseCommit(r, call)
      PROVE  row'[s].area = AreaOf(FixesOf(s), pauses'[s])
  <2> DEFINE ledger == ClosePause(pauses[s], req[r].open, req[r].at)
             a == AreaOf(FixesOf(s), ledger)
             y == [row[s] EXCEPT !.status = EndStatus(call), !.endedAt = req[r].at, !.area = a]
  <2>1. row'[s] = Finalize(call, y, ledger) /\ pauses'[s] = ledger
    BY <1>1, <1>4 DEF CloseCommit, ClosedRow
  <2>2. a \in Maybe(Nat)
    BY <1>2
  <2>3. req[r].at \in Maybe(Time) /\ EndStatus(call) \in Statuses
    BY DEF IInv, TypeOK, ReqType, EndStatus, Statuses, Terminal
  <2> HIDE DEF a, ledger
  <2>4. y \in RowType /\ y.area = a
    BY <1>1, <2>2, <2>3 DEF RowType
  <2> HIDE DEF y
  <2>5. row'[s].area = a
    BY <2>1, <2>4, PricingKeepsArea DEF Finalize
  <2> QED
    BY <2>1, <2>5 DEF a
<1>5. CASE BackfillCommit(r)
  <2> DEFINE a == AreaOf(FixesOf(s), pauses[s])
             y == [row[s] EXCEPT !.area = a]
  <2>1. row'[s] = BackfilledRow(s, req[r].obj) /\ pauses'[s] = pauses[s]
    BY <1>1, <1>5 DEF BackfillCommit
  <2>2. a \in Maybe(Nat)
    BY <1>2
  <2>3. row[s].status = "completed"
    BY <1>1, <2>1, BackfillKeepsStatus
  <2>4. \/ \E done : row'[s] = WriteCharge(row[s], done)
        \/ row'[s] = FinalizeSessionBilling(y, pauses[s])
    BY <2>1 DEF BackfilledRow
  <2> HIDE DEF a
  <2>5. y \in RowType /\ y.area = a
    BY <1>1, <2>2 DEF RowType
  <2> HIDE DEF y
  <2>6. row'[s].area = row[s].area \/ row'[s].area = a
    <3>1. CASE \E done : row'[s] = WriteCharge(row[s], done)
      BY <1>1, <3>1 DEF WriteCharge, RowType
    <3>2. CASE row'[s] = FinalizeSessionBilling(y, pauses[s])
      BY <2>5, <3>2, PricingKeepsArea
    <3> QED
      BY <2>4, <3>1, <3>2
  <2> QED
    BY <2>1, <2>3, <2>6 DEF a
<1> QED
  BY <1>3, <1>4, <1>5 DEF CommitStepOf

\* A stop measures the area over all that is stored, whatever else is in flight, and what it
\* misses can only be what a flush or a writer had resolved to the session before.
THEOREM AreaMisses == Spec => AreaMissesOnlyUnderway
<1> DEFINE Step ==
      \A s \in Sessions :
        row'[s].status = "completed" =>
          IF row[s].status # "completed" THEN Complete(s)'
          ELSE Complete(s) /\ ~ Underway(s) => Complete(s)' /\ ~ Underway(s)'
<1>1. ASSUME IInv, FutureIsFuture, [Next]_vars PROVE Step
  <2> SUFFICES ASSUME NEW s \in Sessions, row'[s].status = "completed"
               PROVE  IF row[s].status # "completed" THEN Complete(s)'
                      ELSE Complete(s) /\ ~ Underway(s) => Complete(s)' /\ ~ Underway(s)'
    OBVIOUS
  <2>1. row \in [Sessions -> RowType] /\ pauses \in [Sessions -> Seq(PauseRow)]
    BY <1>1 DEF IInv, TypeOK
  <2>2. ASSUME NEW f, FixesOf(s)' = f PROVE Complete(s)' <=> row'[s].area = AreaOf(f, pauses'[s])
    BY <2>2 DEF Complete
  <2>3. CASE row'[s] = row[s] /\ pauses'[s] = pauses[s]
    <3>1. ASSUME Complete(s), ~ Underway(s) PROVE Complete(s)' /\ ~ Underway(s)'
      <4>1. FixesOf(s)' = FixesOf(s) /\ ~ Underway(s)'
        BY <1>1, <2>3, <3>1, ReadingsSettle, EndedIsNoTarget DEF Terminal
      <4> QED
        BY <2>2, <2>3, <3>1, <4>1 DEF Complete
    <3> QED
      BY <2>3, <3>1
  <2>4. ASSUME NEW r \in Requests, CommitStepOf(r), req[r].s = s
        PROVE  IF row[s].status # "completed" THEN Complete(s)'
               ELSE Complete(s) /\ ~ Underway(s) => Complete(s)' /\ ~ Underway(s)'
    <3>1. FixesOf(s)' = FixesOf(s) /\ (Underway(s)' <=> Underway(s))
      BY <1>1, <2>4, CommitsStoreNothing DEF FixesOf, Underway
    <3> QED
      BY <1>1, <2>2, <2>4, <3>1, CommitArea DEF Complete
  <2>5. ASSUME NEW r \in Requests, CommitStepOf(r), req[r].s # s
        PROVE  row'[s] = row[s] /\ pauses'[s] = pauses[s]
    <3>1. PICK new \in RowType, ledger \in Seq(PauseRow) :
            /\ row' = [row EXCEPT ![req[r].s] = new]
            /\ pauses' = [pauses EXCEPT ![req[r].s] = ledger]
      BY <1>1, <2>5, CommitEffect
    <3> QED
      BY <2>1, <2>5, <3>1
  <2>6. ASSUME NEW r \in Requests, NEW u \in Sessions, StartCommit(r, u)
        PROVE  row'[s] = row[s] /\ pauses'[s] = pauses[s]
    BY <1>1, <2>1, <2>6 DEF StartCommit, IInv, RequestShape, Consistent
  <2> QED
    BY <1>1, <2>3, <2>4, <2>5, <2>6, OnlyCommitsWrite
<1>2. Init => FutureIsFuture
  BY TimeAssumption DEF Init, FutureIsFuture, Time, IdleWriter, NoFlush
<1>3. IInv /\ FutureIsFuture /\ [Next]_vars => FutureIsFuture' /\ [Step]_vars
  BY <1>1, StoredStep DEF FutureIsFuture, vars
<1>4. Spec => []IInv
  BY InitInvariant, InductiveStep, PTL DEF Spec
<1> QED
  BY <1>2, <1>3, <1>4, PTL DEF Spec, AreaMissesOnlyUnderway

-----------------------------------------------------------------------------
(* What holds while requests overlap on different sessions only. *)

\* One worker is the simplest case of it.
LEMMA OneWorkerIsApart == (\A a, b \in Requests : a = b) => Apart
  BY DEF Apart

ClosingPcs ==
  Closing \cup {FlushedPc(call) : call \in Closing} \cup {EndedPc(call) : call \in Closing}

\* What a worker has read is still so.
UpToDate(q) ==
  /\ q.pc = "pause" => row[q.s].status = "active"
  /\ q.pc = "resume" => row[q.s].status = "paused"
  /\ q.pc \in ClosingPcs => row[q.s].status \in Attachable
  /\ q.pc = "backfill" => row[q.s].status \in Terminal /\ q.obj = row[q.s]
  /\ q.pc \in {"resume", "stopEnded", "cancelEnded"} =>
       q.open = LatestOpenPause(pauses[q.s])

\* An open session has no charge, and what the worker has read is still so.
Alone ==
  /\ \A s \in Sessions : row[s].status \in Attachable => ~ row[s].fin
  /\ \A r \in Requests : UpToDate(req[r])

LEMMA AloneInit == Init => Alone
<1> SUFFICES ASSUME Init PROVE Alone
  OBVIOUS
<1>1. ASSUME NEW s \in Sessions PROVE ~ row[s].fin
  BY DEF Init, LegacyRows, LegacyRow, NoRow
<1> QED
  BY <1>1 DEF Init, Alone, UpToDate, Idle, ClosingPcs, Closing, FlushedPc, EndedPc

\* A step that is not a worker's own leaves it as it is, idle after a restart, or past the
\* flush it has called.
LEMMA OthersWait ==
  ASSUME IInv, [Next]_vars, NEW r \in Requests, ~ RequestStep(r)
  PROVE  \/ req'[r] = req[r] \/ req'[r] = Idle
         \/ \E call \in Closing : Flushed(r, call)
<1>1. req \in [Requests -> ReqType]
  BY DEF IInv, TypeOK
<1>2. ASSUME NEW u \in Requests, RequestStep(u), u # r PROVE req'[r] = req[r]
  BY <1>1, <1>2
  DEF RequestStep, StartCheck, StartCommit, PauseCheck, PauseCommit, ResumeCheck, ResumeCommit,
      BackfillCheck, BackfillCommit, CloseCheck, CloseFlush, TakeBuffer, FlushNothing,
      CloseEnd, CloseCommit, Fail
<1>3. CASE BackgroundFlush \/ FlushStep
  <2>1. ASSUME NEW u \in Requests, NEW call \in Closing, Flushed(u, call), u # r
        PROVE  req'[r] = req[r]
    BY <1>1, <2>1 DEF Flushed
  <2> QED
    BY <1>3, <2>1, FlushEffect
<1>4. CASE ~ BackgroundFlush /\ ~ FlushStep /\ ~ \E u \in Requests : RequestStep(u)
  BY <1>4 DEF Next, vars, Tick, EditRateCard, DeliverFix, WriterStep, WriterResolve,
              WriterCommit, Restart
<1> QED
  BY <1>2, <1>3, <1>4

\* A worker that has just read is up to date.
LEMMA FreshlyRead ==
  ASSUME IInv, NEW r \in Requests, UpToDate(req[r]), RequestStep(r), UNCHANGED <<row, pauses>>
  PROVE  UpToDate(req[r])'
<1>1. req \in [Requests -> ReqType] /\ Consistent(req[r])
  BY DEF IInv, TypeOK, RequestShape
<1> USE DEF ClosingPcs, Closing, FlushedPc, EndedPc
<1>2. ASSUME NEW o \in Operators, NEW k \in OperationTypes, StartCheck(r, o, k)
      PROVE  UpToDate(req[r])'
  <2>1. req'[r].pc = "start"
    BY <1>1, <1>2 DEF StartCheck, Idle
  <2> QED
    BY <2>1 DEF UpToDate
<1>3. ASSUME NEW s \in Sessions, PauseCheck(r, s) \/ ResumeCheck(r, s) \/ BackfillCheck(r, s)
      PROVE  UpToDate(req[r])'
  <2>1. CASE PauseCheck(r, s)
    BY <1>1, <2>1 DEF PauseCheck, UpToDate, Idle
  <2>2. CASE ResumeCheck(r, s)
    BY <1>1, <2>2 DEF ResumeCheck, UpToDate, Idle
  <2>3. CASE BackfillCheck(r, s)
    BY <1>1, <2>3 DEF BackfillCheck, UpToDate, Idle
  <2> QED
    BY <1>3, <2>1, <2>2, <2>3
<1>4. ASSUME NEW call \in Closing, NEW s \in Sessions, CloseCheck(r, s, call)
      PROVE  UpToDate(req[r])'
  BY <1>1, <1>4 DEF CloseCheck, MayClose, UpToDate, Idle
<1>5. ASSUME NEW call \in Closing, CloseFlush(r, call) \/ FlushNothing(r, call)
      PROVE  UpToDate(req[r])'
  BY <1>1, <1>5 DEF CloseFlush, TakeBuffer, FlushNothing, UpToDate, ReqType
<1>6. ASSUME NEW call \in Closing, CloseEnd(r, call)
      PROVE  UpToDate(req[r])'
  BY <1>1, <1>6 DEF CloseEnd, UpToDate, ReqType
<1>7. CASE req' = [req EXCEPT ![r] = Idle]
  BY <1>1, <1>7 DEF Idle, UpToDate
<1> QED
  BY <1>2, <1>3, <1>4, <1>5, <1>6, <1>7
  DEF RequestStep, StartCommit, PauseCommit, ResumeCommit, BackfillCommit, CloseCommit, Fail

\* What pricing an unpriced row writes: the rate times the quantity it shows.
LEMMA PricedBill ==
  ASSUME NEW y \in RowType, ~ y.fin, NEW ledger
  PROVE  LET d == FinalizeSessionBilling(y, ledger)
         IN  /\ d.status = y.status /\ d.endedAt = y.endedAt /\ d.area = y.area
             /\ d.rate = y.rate /\ d.unit = y.unit
             /\ d.fin => d.total = d.rate * (IF d.unit = "per_hour" THEN d.hours ELSE d.area)
<1> DEFINE q == Quantity(y, ledger)
           d == FinalizeSessionBilling(y, ledger)
<1>1. CASE y.rate = Null \/ q = Null
  BY <1>1 DEF FinalizeSessionBilling, PriceRow
<1>2. CASE ~ (y.rate = Null \/ q = Null)
  <2>1. d = Issue(WithHours(y, q), y.rate * q)
    BY <1>2 DEF FinalizeSessionBilling, PriceRow
  <2>2. y.unit # "per_hour" => q = y.area
    BY DEF Quantity
  <2> DEFINE w == WithHours(y, q)
             t == y.rate * q
  <2>3. /\ w.status = y.status /\ w.endedAt = y.endedAt /\ w.area = y.area
        /\ w.rate = y.rate /\ w.unit = y.unit
        /\ w.hours = IF y.unit = "per_hour" THEN q ELSE y.hours
        /\ DOMAIN w = DOMAIN y
    BY DEF WithHours, RowType
  <2>4. DOMAIN y = {"status", "operator", "kind", "startedAt", "endedAt", "unit", "rate",
                    "area", "hours", "total", "fin"}
    BY DEF RowType
  <2> HIDE DEF q, w, t
  <2>5. LET e == Issue(w, t)
        IN  /\ e.status = y.status /\ e.endedAt = y.endedAt /\ e.area = y.area
            /\ e.rate = y.rate /\ e.unit = y.unit /\ e.hours = w.hours /\ e.total = t
    BY <2>3, <2>4 DEF Issue
  <2> QED
    BY <2>1, <2>2, <2>3, <2>5 DEF w, t
<1> QED
  BY <1>1, <1>2

\* The bill of a terminated row, and the area it was computed with.
Billed(x) ==
  x.status = "completed" /\ x.fin =>
    x.total = x.rate * (IF x.unit = "per_hour" THEN x.hours ELSE x.area)

\* A stop or a cancel of an open session bills it.
LEMMA ClosedRowBilled ==
  ASSUME NEW s \in Sessions, NEW call \in Closing, NEW at \in Time, NEW ledger,
         FixesOf(s) \subseteq Time, row[s] \in RowType, ~ row[s].fin
  PROVE  LET new == ClosedRow(s, call, at, ledger)
         IN  /\ Billed(new) /\ new.status = EndStatus(call)
             /\ new.area = AreaOf(FixesOf(s), ledger)
<1> DEFINE a == AreaOf(FixesOf(s), ledger)
           y == [row[s] EXCEPT !.status = EndStatus(call), !.endedAt = at, !.area = a]
<1>1. a \in Maybe(Nat)
  BY AreaIsNatural DEF Maybe
<1>2. EndStatus(call) \in Terminal /\ (call = "stop" <=> EndStatus(call) = "completed")
  BY DEF EndStatus, Terminal
<1>4. ClosedRow(s, call, at, ledger) = Finalize(call, y, ledger)
  BY DEF ClosedRow
<1> HIDE DEF a
<1>3. y \in RowType /\ y.status = EndStatus(call) /\ ~ y.fin /\ y.area = a
  <2>1. EndStatus(call) \in Statuses /\ at \in Maybe(Time)
    BY <1>2 DEF Statuses, Maybe
  <2> QED
    BY <1>1, <2>1 DEF RowType
<1> HIDE DEF y
<1>5. CASE call = "stop"
  <2>1. ClosedRow(s, call, at, ledger) = FinalizeSessionBilling(y, ledger)
    BY <1>4, <1>5 DEF Finalize
  <2> QED
    BY <1>2, <1>3, <1>5, <2>1, PricedBill DEF Billed, a
<1>6. CASE call # "stop"
  <2>1. ClosedRow(s, call, at, ledger) = Issue(y, 0)
    BY <1>3, <1>4, <1>6 DEF Finalize, FinalizeCancelledSession
  <2>2. Issue(y, 0).total = 0 /\ Issue(y, 0).status = y.status /\ Issue(y, 0).area = y.area
    BY <1>3 DEF Issue, RowType
  <2> QED
    BY <1>2, <1>3, <1>6, <2>1, <2>2 DEF Billed, a
<1> QED
  BY <1>5, <1>6

\* So does a backfill of the row as it is.
LEMMA BackfilledRowBilled ==
  ASSUME NEW s \in Sessions, row[s] \in RowType, row[s].status \in Terminal, ~ row[s].fin,
         FixesOf(s) \subseteq Time
  PROVE  LET new == BackfilledRow(s, row[s])
         IN  /\ Billed(new) /\ new.status = row[s].status /\ new.endedAt = row[s].endedAt
             /\ row[s].area # Null => new.area = row[s].area
<1> DEFINE x == row[s]
           new == BackfilledRow(s, x)
<1>1. ASSUME NEW d \in RowType
      PROVE  LET w == WriteCharge(x, d)
             IN  /\ w.status = x.status /\ w.endedAt = x.endedAt /\ w.area = x.area
                 /\ w.rate = x.rate /\ w.unit = x.unit
                 /\ d.fin => w.hours = d.hours /\ w.total = d.total
                 /\ ~ d.fin => w = x
  BY DEF WriteCharge, RowType
<1>2. CASE x.status = "aborted"
  <2>1. new = WriteCharge(x, Issue(x, 0))
    BY <1>2 DEF BackfilledRow, FinalizeCancelledSession
  <2>2. Issue(x, 0) \in RowType /\ Issue(x, 0).fin /\ Issue(x, 0).total = 0
    <3>1. 0 \in Maybe(Nat)
      BY DEF Maybe
    <3> QED
      BY <3>1, IssueType DEF Issue, RowType
  <2> QED
    BY <1>1, <1>2, <2>1, <2>2 DEF Billed
<1>3. CASE x.status = "completed" /\ x.area = Null
  <2> DEFINE a == AreaOf(FixesOf(s), pauses[s])
             y == [x EXCEPT !.area = a]
  <2>1. a \in Maybe(Nat)
    BY AreaIsNatural DEF Maybe
  <2>2. y \in RowType /\ ~ y.fin /\ y.status = x.status /\ y.endedAt = x.endedAt
    BY <2>1 DEF RowType
  <2>3. new = FinalizeSessionBilling(y, pauses[s])
    BY <1>3 DEF BackfilledRow
  <2> HIDE DEF y, new
  <2>4. Billed(new) /\ new.status = x.status /\ new.endedAt = x.endedAt
    BY <1>3, <2>2, <2>3, PricedBill DEF Billed
  <2> QED
    BY <1>3, <2>4 DEF new
<1>4. CASE x.status = "completed" /\ x.area # Null
  <2> DEFINE d == FinalizeSessionBilling(x, pauses[s])
  <2>1. new = WriteCharge(x, d)
    BY <1>4 DEF BackfilledRow
  <2>2. /\ d.fin => d.total = d.rate * (IF d.unit = "per_hour" THEN d.hours ELSE d.area)
        /\ d.area = x.area /\ d.rate = x.rate /\ d.unit = x.unit
    BY PricedBill
  <2>3. /\ new.status = x.status /\ new.endedAt = x.endedAt /\ new.area = x.area
        /\ new.rate = x.rate /\ new.unit = x.unit
        /\ d.fin => new.hours = d.hours /\ new.total = d.total
        /\ ~ d.fin => new = x
    BY <2>1 DEF WriteCharge, RowType
  <2> HIDE DEF d, new
  <2>4. Billed(new)
    BY <1>4, <2>2, <2>3 DEF Billed
  <2> QED
    BY <2>3, <2>4 DEF new
<1> QED
  BY <1>2, <1>3, <1>4 DEF Terminal

\* A commit of a worker whose session nobody else has changed.
LEMMA SerialCommit ==
  ASSUME IInv, Alone, NEW r \in Requests, CommitStepOf(r)
  PROVE  \E s \in Sessions :
           /\ \A u \in Sessions \ {s} : row'[u] = row[u] /\ pauses'[u] = pauses[u]
           /\ UNCHANGED fix
           /\ \/ /\ row[s].status = "active" /\ row'[s].status = "paused" /\ ~ row'[s].fin
                 /\ pauses'[s] = Append(pauses[s], [from |-> req[r].at, to |-> Null])
              \/ /\ row[s].status = "paused" /\ row'[s].status = "active" /\ ~ row'[s].fin
                 /\ req[r].at # Null
                 /\ pauses'[s] = ClosePause(pauses[s], LatestOpenPause(pauses[s]), req[r].at)
              \/ /\ row[s].status \in Attachable /\ row'[s].status \in Terminal
                 /\ Billed(row'[s]) /\ req[r].at # Null
                 /\ pauses'[s] = ClosePause(pauses[s], LatestOpenPause(pauses[s]), req[r].at)
                 /\ row'[s].area = AreaOf(FixesOf(s), pauses'[s])
              \/ /\ row[s].status \in Terminal /\ row'[s].status = row[s].status
                 /\ row'[s].endedAt = row[s].endedAt /\ Billed(row'[s])
                 /\ row[s].area # Null => row'[s].area = row[s].area
                 /\ pauses'[s] = pauses[s]
<1>1. PICK s \in Sessions : s = req[r].s
  BY CommitEffect
<1>2. /\ req[r] \in ReqType /\ Consistent(req[r]) /\ UpToDate(req[r])
      /\ row[s] \in RowType /\ pauses[s] \in Seq(PauseRow) /\ row[s].startedAt # Null
      /\ row \in [Sessions -> RowType] /\ pauses \in [Sessions -> Seq(PauseRow)]
      /\ row[s].status \in Attachable => ~ row[s].fin
      /\ UNCHANGED fix
  BY <1>1, CommitEffect DEF IInv, TypeOK, RowShape, RequestShape, Alone
<1>3. \A u \in Sessions \ {s} : row'[u] = row[u] /\ pauses'[u] = pauses[u]
  <2>1. PICK new \in RowType, ledger \in Seq(PauseRow) :
          row' = [row EXCEPT ![s] = new] /\ pauses' = [pauses EXCEPT ![s] = ledger]
    BY <1>1, CommitEffect
  <2> QED
    BY <1>2, <2>1
<1>4. FixesOf(s) \subseteq Time
  BY DEF FixesOf
<1>5. ASSUME PauseCommit(r)
      PROVE  /\ row[s].status = "active" /\ row'[s].status = "paused" /\ ~ row'[s].fin
             /\ pauses'[s] = Append(pauses[s], [from |-> req[r].at, to |-> Null])
  <2>1. row[s].status = "active"
    BY <1>1, <1>2, <1>5 DEF PauseCommit, UpToDate
  <2> QED
    BY <1>1, <1>2, <1>5, <2>1 DEF PauseCommit, Attachable, RowType
<1>6. ASSUME ResumeCommit(r)
      PROVE  /\ row[s].status = "paused" /\ row'[s].status = "active" /\ ~ row'[s].fin
             /\ req[r].at # Null
             /\ pauses'[s] = ClosePause(pauses[s], LatestOpenPause(pauses[s]), req[r].at)
  <2>1. row[s].status = "paused" /\ req[r].at # Null /\ req[r].open = LatestOpenPause(pauses[s])
    BY <1>1, <1>2, <1>6 DEF ResumeCommit, UpToDate, Consistent
  <2> QED
    BY <1>1, <1>2, <1>6, <2>1 DEF ResumeCommit, Attachable, RowType
<1>7. ASSUME NEW call \in Closing, CloseCommit(r, call)
      PROVE  /\ row[s].status \in Attachable /\ row'[s].status \in Terminal
             /\ Billed(row'[s]) /\ req[r].at # Null
             /\ pauses'[s] = ClosePause(pauses[s], LatestOpenPause(pauses[s]), req[r].at)
             /\ row'[s].area = AreaOf(FixesOf(s), pauses'[s])
  <2>1. /\ row[s].status \in Attachable /\ req[r].at # Null /\ req[r].at \in Time
        /\ req[r].open = LatestOpenPause(pauses[s])
    BY <1>1, <1>2, <1>7 DEF CloseCommit, UpToDate, Consistent, ClosingPcs, Closing, EndedPc,
                            ReqType, Maybe
  <2>2. /\ pauses'[s] = ClosePause(pauses[s], LatestOpenPause(pauses[s]), req[r].at)
        /\ row'[s] = ClosedRow(s, call, req[r].at, pauses'[s])
    BY <1>1, <1>2, <1>7, <2>1 DEF CloseCommit
  <2>3. EndStatus(call) \in Terminal
    BY DEF EndStatus, Terminal
  <2> QED
    BY <1>2, <1>4, <2>1, <2>2, <2>3, ClosedRowBilled
<1>8. ASSUME BackfillCommit(r)
      PROVE  /\ row[s].status \in Terminal /\ row'[s].status = row[s].status
             /\ row'[s].endedAt = row[s].endedAt /\ Billed(row'[s])
             /\ row[s].area # Null => row'[s].area = row[s].area
             /\ pauses'[s] = pauses[s]
  <2>1. row[s].status \in Terminal /\ req[r].obj = row[s] /\ ~ row[s].fin
    BY <1>1, <1>2, <1>8 DEF BackfillCommit, UpToDate, Consistent
  <2>2. row'[s] = BackfilledRow(s, row[s]) /\ pauses'[s] = pauses[s]
    BY <1>1, <1>2, <1>8, <2>1 DEF BackfillCommit
  <2> QED
    BY <1>2, <1>4, <2>1, <2>2, BackfilledRowBilled
<1> QED
  BY <1>2, <1>3, <1>5, <1>6, <1>7, <1>8 DEF CommitStepOf

\* A commit leaves what the other workers have read as it was: it writes one session, which
\* none of them is at work on.
LEMMA OthersUndisturbed ==
  ASSUME Apart, IInv, Alone, NEW r \in Requests, NEW u \in Requests \ {r},
         CommitStepOf(r) \/ \E s \in Sessions : StartCommit(r, s)
  PROVE  UpToDate(req[u])'
<1>1. /\ req \in [Requests -> ReqType] /\ row \in [Sessions -> RowType]
      /\ pauses \in [Sessions -> Seq(PauseRow)]
      /\ Consistent(req[u]) /\ UpToDate(req[u])
  BY DEF IInv, TypeOK, RequestShape, Alone
<1>2. req' = [req EXCEPT ![r] = Idle]
  BY CommitEffect DEF StartCommit
<1>3. req'[u] = req[u]
  BY <1>1, <1>2
<1>4. ASSUME NEW s \in Sessions, row'[s] = row[s], pauses'[s] = pauses[s], req[u].s = s,
             req[u].pc # "start"
      PROVE  UpToDate(req[u])'
  BY <1>1, <1>3, <1>4 DEF UpToDate
<1>5. CASE CommitStepOf(r)
  <2>1. /\ req[r].s \in Sessions /\ Working(req[r])
        /\ \A v \in Sessions \ {req[r].s} : row'[v] = row[v] /\ pauses'[v] = pauses[v]
    <3>1. Working(req[r])
      BY <1>5 DEF CommitStepOf, PauseCommit, ResumeCommit, BackfillCommit, CloseCommit,
                  Closing, EndedPc, Working
    <3>2. PICK new \in RowType, ledger \in Seq(PauseRow) :
            /\ row' = [row EXCEPT ![req[r].s] = new]
            /\ pauses' = [pauses EXCEPT ![req[r].s] = ledger]
      BY <1>5, CommitEffect
    <3> QED
      BY <1>1, <1>5, <3>1, <3>2, CommitEffect
  <2>2. CASE Working(req[u])
    <3>1. req[u].s \in Sessions \ {req[r].s}
      BY <1>1, <2>1, <2>2 DEF Apart, Consistent, Working
    <3> QED
      BY <1>4, <2>1, <2>2, <3>1 DEF Working
  <2>3. CASE req[u].pc \in {"idle", "start"}
    BY <1>3, <2>3 DEF UpToDate, ClosingPcs, Closing, FlushedPc, EndedPc
  <2> QED
    BY <2>2, <2>3 DEF Working
<1>6. ASSUME NEW s \in Sessions, StartCommit(r, s) PROVE UpToDate(req[u])'
  <2>1. /\ req[r].pc = "start" /\ row[s].status = "none" /\ row'[s] = req[r].obj
        /\ \A v \in Sessions \ {s} : row'[v] = row[v]
        /\ pauses' = pauses
    BY <1>1, <1>6 DEF StartCommit
  <2>2. CASE Working(req[u])
    <3>1. req[u].s \in Sessions \ {s}
      BY <1>1, <2>1, <2>2 DEF Consistent, Working
    <3> QED
      BY <1>4, <2>1, <2>2, <3>1 DEF Working
  <2>3. CASE req[u].pc \in {"idle", "start"}
    BY <1>3, <2>3 DEF UpToDate, ClosingPcs, Closing, FlushedPc, EndedPc
  <2> QED
    BY <2>2, <2>3 DEF Working
<1> QED
  BY <1>5, <1>6

LEMMA AloneStep ==
  ASSUME Apart, IInv, Alone, [Next]_vars
  PROVE  Alone'
<1>1. ASSUME NEW r \in Requests, req' = [req EXCEPT ![r] = Idle],
             CommitStepOf(r) \/ \E s \in Sessions : StartCommit(r, s)
      PROVE  \A u \in Requests : UpToDate(req[u])'
  <2>1. req'[r] = Idle
    BY <1>1 DEF IInv, TypeOK
  <2>2. UpToDate(req[r])'
    BY <2>1 DEF UpToDate, Idle, ClosingPcs, Closing, FlushedPc, EndedPc
  <2> QED
    BY <1>1, <2>2, OthersUndisturbed
<1>2. ASSUME NEW r \in Requests, CommitStepOf(r) PROVE Alone'
  <2>1. \A s \in Sessions : row'[s].status \in Attachable => ~ row'[s].fin
    BY <1>2, SerialCommit DEF Alone, Attachable, Terminal
  <2>2. req' = [req EXCEPT ![r] = Idle]
    BY <1>2, CommitEffect
  <2> QED
    BY <1>1, <1>2, <2>1, <2>2 DEF Alone
<1>3. ASSUME NEW r \in Requests, NEW s \in Sessions, StartCommit(r, s) PROVE Alone'
  <2>1. \A u \in Sessions : row'[u] = row[u] \/ ~ row'[u].fin
    BY <1>3 DEF StartCommit, IInv, TypeOK, RequestShape, Consistent
  <2>2. req' = [req EXCEPT ![r] = Idle]
    BY <1>3 DEF StartCommit
  <2> QED
    BY <1>1, <1>3, <2>1, <2>2 DEF Alone
<1>4. ASSUME UNCHANGED <<row, pauses>> PROVE Alone'
  <2>1. ASSUME NEW r \in Requests, RequestStep(r) PROVE UpToDate(req[r])'
    BY <1>4, <2>1, FreshlyRead DEF Alone
  <2>2. ASSUME NEW r \in Requests, ~ RequestStep(r)
        PROVE  UpToDate(req[r])'
    <3>1. \/ req'[r] = req[r] \/ req'[r] = Idle
          \/ \E call \in Closing : Flushed(r, call)
      BY <2>2, OthersWait
    <3>2. CASE req'[r] = Idle
      BY <3>2 DEF UpToDate, Idle, ClosingPcs, Closing, FlushedPc, EndedPc
    <3>3. CASE req'[r] = req[r]
      BY <1>4, <3>3 DEF Alone, UpToDate
    <3>4. ASSUME NEW call \in Closing, Flushed(r, call) PROVE UpToDate(req[r])'
      BY <1>4, <3>4 DEF Flushed, Alone, UpToDate, IInv, TypeOK, ReqType, ClosingPcs, Closing,
                        FlushedPc, EndedPc
    <3> QED
      BY <3>1, <3>2, <3>3, <3>4
  <2>3. \A r \in Requests : UpToDate(req[r])'
    BY <2>1, <2>2
  <2> QED
    BY <1>4, <2>3 DEF Alone
<1> QED
  BY <1>2, <1>3, <1>4, OnlyCommitsWrite

\* The latest open interval of a ledger with at most one is that one.
LEMMA LatestIsOpen ==
  ASSUME NEW l \in Seq(PauseRow), NEW i, OpenPauses(l) = IF i = 0 THEN {} ELSE {i}
  PROVE  LatestOpenPause(l) = i
<1>1. CASE i = 0
  BY <1>1 DEF LatestOpenPause
<1>2. CASE i # 0
  <2>1. i \in DOMAIN l /\ l[i] \in PauseRow
    BY <1>2 DEF OpenPauses
  <2>2. {j \in OpenPauses(l) : \A k \in OpenPauses(l) : l[k].from <= l[j].from} = {i}
    BY <1>2, <2>1, TimeAssumption DEF PauseRow, Time
  <2> QED
    BY <2>2 DEF LatestOpenPause
<1> QED
  BY <1>1, <1>2

\* The two ways the ledger changes: an interval is opened, or the open one is closed.
LEMMA OpenIntervals ==
  ASSUME NEW l \in Seq(PauseRow), NEW at, NEW i,
         OpenPauses(l) = IF i = 0 THEN {} ELSE {i}
  PROVE  /\ i = 0 => OpenPauses(Append(l, [from |-> at, to |-> Null])) = {Len(l) + 1}
         /\ at # Null => OpenPauses(ClosePause(l, LatestOpenPause(l), at)) = {}
<1>1. DOMAIN l = 1 .. Len(l) /\ Len(l) \in Nat
  OBVIOUS
<1>2. ASSUME i = 0
      PROVE  OpenPauses(Append(l, [from |-> at, to |-> Null])) = {Len(l) + 1}
  <2> DEFINE m == Append(l, [from |-> at, to |-> Null])
  <2>1. /\ DOMAIN m = 1 .. Len(l) + 1 /\ m[Len(l) + 1].to = Null
        /\ \A j \in 1 .. Len(l) : m[j] = l[j]
    OBVIOUS
  <2>2. \A j \in 1 .. Len(l) : l[j].to # Null
    BY <1>1, <1>2 DEF OpenPauses
  <2> HIDE DEF m
  <2> QED
    BY <1>1, <2>1, <2>2 DEF OpenPauses, m
<1>3. ASSUME at # Null
      PROVE  OpenPauses(ClosePause(l, LatestOpenPause(l), at)) = {}
  <2>1. CASE i = 0
    <3>1. LatestOpenPause(l) = 0
      BY <2>1, LatestIsOpen
    <3> QED
      BY <2>1, <3>1 DEF ClosePause
  <2>2. CASE i # 0
    <3>1. i \in DOMAIN l /\ l[i] \in PauseRow
      BY <2>2 DEF OpenPauses
    <3>2. LatestOpenPause(l) = i
      BY LatestIsOpen
    <3>3. ClosePause(l, i, at) = [l EXCEPT ![i].to = at]
      BY <2>2 DEF ClosePause
    <3>4. [l[i] EXCEPT !.to = at].to = at
      BY <3>1 DEF PauseRow
    <3>5. ASSUME NEW j \in DOMAIN l, [l EXCEPT ![i].to = at][j].to = Null
          PROVE  FALSE
      <4>1. CASE j = i
        BY <1>3, <3>1, <3>4, <3>5, <4>1
      <4>2. CASE j # i
        BY <2>2, <3>5, <4>2 DEF OpenPauses
      <4> QED
        BY <4>1, <4>2
    <3> QED
      BY <3>2, <3>3, <3>5 DEF OpenPauses
  <2> QED
    BY <2>1, <2>2
<1> QED
  BY <1>2, <1>3

\* A paused session has one open interval and no other session has any.
Intervals ==
  \A s \in Sessions \ Legacy :
    \E i \in Nat : /\ OpenPauses(pauses[s]) = IF i = 0 THEN {} ELSE {i}
                   /\ i # 0 <=> row[s].status = "paused"

Bills == \A s \in Sessions : Billed(row[s])

\* What the properties of requests that keep apart rest on.
Serial == Alone /\ Bills /\ Intervals

LEMMA SerialInit == Init => Serial
<1> SUFFICES ASSUME Init PROVE Serial
  OBVIOUS
<1>1. Bills
  BY DEF Init, Bills, Billed, LegacyRows, LegacyRow, NoRow
<1>2. ASSUME NEW s \in Sessions \ Legacy
      PROVE  row[s] = NoRow /\ OpenPauses(pauses[s]) = {}
  BY DEF Init, OpenPauses
<1>3. Intervals
  <2>1. ASSUME NEW s \in Sessions \ Legacy
        PROVE  OpenPauses(pauses[s]) = {} /\ row[s].status # "paused"
    BY <1>2 DEF NoRow
  <2> QED
    BY <2>1 DEF Intervals
<1> QED
  BY <1>1, <1>3, AloneInit DEF Serial

LEMMA SerialStep ==
  ASSUME Apart, IInv, Serial, [Next]_vars
  PROVE  Serial'
<1> USE DEF Serial
<1>1. Alone'
  BY AloneStep
<1>2. /\ row \in [Sessions -> RowType] /\ pauses \in [Sessions -> Seq(PauseRow)]
  BY DEF IInv, TypeOK
<1>3. ASSUME UNCHANGED <<row, pauses>>
      PROVE  (Bills /\ Intervals)'
  BY <1>3 DEF Bills, Billed, Intervals
<1>4. ASSUME NEW r \in Requests, NEW s \in Sessions, StartCommit(r, s)
      PROVE  (Bills /\ Intervals)'
  <2>1. /\ row[s].status = "none" /\ row'[s].status = "active" /\ pauses' = pauses
        /\ \A u \in Sessions \ {s} : row'[u] = row[u]
    BY <1>2, <1>4 DEF StartCommit, IInv, RequestShape, Consistent
  <2>2. Bills'
    <3>1. Billed(row'[s])
      BY <2>1 DEF Billed
    <3> QED
      BY <2>1, <3>1 DEF Bills, Billed
  <2>3. Intervals'
    <3> SUFFICES ASSUME NEW u \in Sessions \ Legacy
                 PROVE  \E i \in Nat : /\ OpenPauses(pauses'[u]) = IF i = 0 THEN {} ELSE {i}
                                       /\ i # 0 <=> row'[u].status = "paused"
      BY DEF Intervals, OpenPauses
    <3> QED
      BY <2>1 DEF Intervals
  <2> QED
    BY <2>2, <2>3
<1>5. ASSUME NEW r \in Requests, CommitStepOf(r)
      PROVE  (Bills /\ Intervals)'
  <2>1. PICK s \in Sessions :
           /\ \A u \in Sessions \ {s} : row'[u] = row[u] /\ pauses'[u] = pauses[u]
           /\ \/ /\ row[s].status = "active" /\ row'[s].status = "paused" /\ ~ row'[s].fin
                 /\ pauses'[s] = Append(pauses[s], [from |-> req[r].at, to |-> Null])
              \/ /\ row[s].status = "paused" /\ row'[s].status = "active" /\ ~ row'[s].fin
                 /\ req[r].at # Null
                 /\ pauses'[s] = ClosePause(pauses[s], LatestOpenPause(pauses[s]), req[r].at)
              \/ /\ row[s].status \in Attachable /\ row'[s].status \in Terminal
                 /\ Billed(row'[s]) /\ req[r].at # Null
                 /\ pauses'[s] = ClosePause(pauses[s], LatestOpenPause(pauses[s]), req[r].at)
              \/ /\ row[s].status \in Terminal /\ row'[s].status = row[s].status
                 /\ Billed(row'[s]) /\ pauses'[s] = pauses[s]
    BY <1>5, SerialCommit
  <2>2. Bills'
    <3>1. Billed(row'[s])
      BY <2>1 DEF Billed
    <3>2. ASSUME NEW u \in Sessions PROVE Billed(row'[u])
      BY <2>1, <3>1 DEF Bills
    <3> QED
      BY <3>2 DEF Bills, Billed
  <2>3. ASSUME NEW u \in Sessions \ Legacy
        PROVE  \E i \in Nat : /\ OpenPauses(pauses'[u]) = IF i = 0 THEN {} ELSE {i}
                              /\ i # 0 <=> row'[u].status = "paused"
    <3>1. PICK i \in Nat : /\ OpenPauses(pauses[u]) = IF i = 0 THEN {} ELSE {i}
                           /\ i # 0 <=> row[u].status = "paused"
      BY DEF Intervals
    <3>2. CASE row'[u] = row[u] /\ pauses'[u] = pauses[u]
      BY <3>1, <3>2
    <3>3. CASE u = s
      <4>0. PICK l \in Seq(PauseRow), at \in Maybe(Time) : l = pauses[s] /\ at = req[r].at
        BY <1>2 DEF IInv, TypeOK, ReqType
      <4> DEFINE open == Append(l, [from |-> at, to |-> Null])
                 closed == ClosePause(l, LatestOpenPause(l), at)
      <4>1. /\ i = 0 => OpenPauses(open) = {Len(l) + 1} /\ Len(l) + 1 \in Nat \ {0}
            /\ at # Null => OpenPauses(closed) = {}
        <5>1. OpenPauses(l) = IF i = 0 THEN {} ELSE {i}
          BY <3>1, <3>3, <4>0
        <5>2. Len(l) + 1 \in Nat \ {0}
          OBVIOUS
        <5> QED
          BY <5>1, <5>2, OpenIntervals
      <4>2. CASE /\ row[s].status = "active" /\ row'[s].status = "paused"
                 /\ pauses'[s] = open
        BY <3>1, <3>3, <4>1, <4>2
      <4>3. CASE row'[s].status # "paused" /\ at # Null /\ pauses'[s] = closed
        BY <3>3, <4>1, <4>3
      <4>4. CASE row'[s].status = row[s].status /\ pauses'[s] = l
        BY <3>1, <3>3, <4>0, <4>4
      <4> QED
        BY <2>1, <4>0, <4>2, <4>3, <4>4 DEF Terminal
    <3> QED
      BY <2>1, <3>2, <3>3
  <2> QED
    BY <2>2, <2>3 DEF Intervals, OpenPauses
<1> QED
  BY <1>1, <1>3, <1>4, <1>5, OnlyCommitsWrite

LEMMA SerialHolds == Spec /\ []Apart => [](IInv /\ Serial)
<1>1. Init => IInv /\ Serial
  BY InitInvariant, SerialInit
<1>2. IInv /\ Serial /\ Apart /\ [Next]_vars => (IInv /\ Serial)'
  BY InductiveStep, SerialStep
<1> QED
  BY <1>1, <1>2, PTL DEF Spec

\* While no two requests in flight concern one session, a charge is the locked rate times
\* the quantity that the row shows, whichever of stop and the backfill of area-summary
\* issued it and whatever happens on other sessions meanwhile.
THEOREM SerialBills == Spec /\ []Apart => []BillReconciles
<1>1. Serial => BillReconciles
  BY DEF Serial, Bills, Billed, BillReconciles
<1> QED
  BY <1>1, SerialHolds, PTL

-----------------------------------------------------------------------------
(* The hours of a session are the time it was not paused. *)

\* A ledger in the order of time: its intervals lie between start and until, do not
\* overlap, and only the last one may be open.
Orderly(l, start, until) ==
  /\ \A i \in DOMAIN l :
       /\ start <= l[i].from /\ l[i].from <= until
       /\ l[i].to # Null => l[i].from <= l[i].to /\ l[i].to <= until
  /\ \A i, j \in DOMAIN l : i < j => l[i].to # Null /\ l[i].to <= l[j].from

\* The instants of a ledger's intervals; the database leaves no row out.
CoveredBy(l, i, t) == l[i].from <= t /\ (l[i].to = Null \/ t < l[i].to)

\* Intervals that do not overlap count every paused instant once.
LEMMA PausedOnce ==
  ASSUME NEW l \in Seq(PauseRow), NEW start \in Nat, NEW ended \in Time, start <= ended,
         Orderly(l, start, ended), \A i \in DOMAIN l : l[i].to # Null
  PROVE  /\ Cardinality({t \in start .. ended - 1 : \A i \in DOMAIN l : ~ CoveredBy(l, i, t)})
              = (ended - start) - PausedTime(l, ended)
         /\ PausedTime(l, ended) <= ended - start
<1> DEFINE Whole == start .. ended - 1
           Paused == {t \in Whole : \E i \in DOMAIN l : CoveredBy(l, i, t)}
           Pairs == PausedInstants(l, ended)
           f == [p \in Pairs |-> p[2]]
<1>1. /\ ended \in Nat /\ Time = 0 .. MaxTime /\ MaxTime \in Nat
      /\ DOMAIN l = 1 .. Len(l) /\ Len(l) \in Nat
      /\ \A i \in DOMAIN l : l[i].from \in Nat /\ l[i].to \in Nat
  <2>1. \A i \in DOMAIN l : l[i] \in PauseRow
    OBVIOUS
  <2>2. \A i \in DOMAIN l : l[i].from \in Time /\ l[i].to \in Time
    BY <2>1 DEF PauseRow, Maybe
  <2>3. DOMAIN l = 1 .. Len(l) /\ Len(l) \in Nat
    OBVIOUS
  <2> QED
    BY <2>2, <2>3, TimeAssumption DEF Time
<1>2. IsFiniteSet(Whole) /\ Cardinality(Whole) = ended - start
  <2>1. start \in Int /\ ended - 1 \in Int /\ (start > ended - 1 => ended - start = 0)
        /\ (ended - 1) - start + 1 = ended - start
    BY <1>1
  <2>2. /\ IsFiniteSet(Whole)
        /\ Cardinality(Whole) = IF start > ended - 1 THEN 0 ELSE (ended - 1) - start + 1
    BY <2>1, FS_Interval
  <2> QED
    BY <2>1, <2>2
<1>3. \A p \in Pairs : /\ p \in (DOMAIN l) \X Time
                       /\ l[p[1]].from <= p[2] /\ p[2] < l[p[1]].to
  BY DEF PausedInstants
<1>4. f \in Bijection(Pairs, Paused)
  <2>1. ASSUME NEW p \in Pairs PROVE f[p] \in Paused
    <3>1. p[1] \in DOMAIN l /\ p[2] \in Nat /\ l[p[1]].from <= p[2] /\ p[2] < l[p[1]].to
      BY <1>1, <1>3
    <3>2. start <= l[p[1]].from /\ l[p[1]].to <= ended
      BY <3>1 DEF Orderly
    <3>3. p[2] \in Whole
      BY <1>1, <3>1, <3>2
    <3> QED
      BY <3>1, <3>3 DEF CoveredBy
  <2>2. ASSUME NEW p \in Pairs, NEW q \in Pairs, f[p] = f[q] PROVE p = q
    <3>1. /\ p \in (DOMAIN l) \X Time /\ q \in (DOMAIN l) \X Time /\ p[2] = q[2]
          /\ l[p[1]].from <= p[2] /\ p[2] < l[p[1]].to
          /\ l[q[1]].from <= p[2] /\ p[2] < l[q[1]].to
      BY <1>3, <2>2
    <3>2. /\ p[1] < q[1] => l[p[1]].to <= l[q[1]].from
          /\ q[1] < p[1] => l[q[1]].to <= l[p[1]].from
      BY <3>1 DEF Orderly
    <3>3. p[1] = q[1]
      BY <1>1, <3>1, <3>2
    <3> QED
      BY <3>1, <3>3
  <2>3. ASSUME NEW t \in Paused PROVE \E p \in Pairs : f[p] = t
    <3>1. PICK i \in DOMAIN l : CoveredBy(l, i, t)
      OBVIOUS
    <3>2. t \in Time
      BY <1>1
    <3>3. <<i, t>> \in (DOMAIN l) \X Time /\ l[i].from <= t /\ t < l[i].to
      BY <3>1, <3>2 DEF CoveredBy
    <3>4. <<i, t>> \in Pairs
      BY <3>3 DEF PausedInstants
    <3> QED
      BY <3>4
  <2> HIDE DEF Pairs, Paused
  <2>4. f \in Injection(Pairs, Paused)
    BY <2>1, <2>2 DEF Injection, IsInjective
  <2>5. f \in Surjection(Pairs, Paused)
    BY <2>1, <2>3 DEF Surjection
  <2> QED
    BY <2>4, <2>5 DEF Bijection
<1>5. IsFiniteSet(Pairs)
  <2>0. IsFiniteSet(Time) /\ IsFiniteSet(DOMAIN l)
    BY <1>1, FS_Interval
  <2>1. IsFiniteSet((DOMAIN l) \X Time)
    BY <2>0, FS_Product
  <2>2. Pairs \subseteq (DOMAIN l) \X Time
    BY <1>3
  <2> QED
    BY <2>1, <2>2, FS_Subset
<1>6. Cardinality(Paused) = PausedTime(l, ended)
  <2>1. ExistsBijection(Pairs, Paused)
    BY <1>4 DEF ExistsBijection
  <2> QED
    BY <1>5, <2>1, FS_Bijection DEF PausedTime
<1>7. Paused \subseteq Whole
  OBVIOUS
<1>8. {t \in Whole : \A i \in DOMAIN l : ~ CoveredBy(l, i, t)} = Whole \ Paused
  OBVIOUS
<1> HIDE DEF Whole, Paused
<1>9. /\ Whole \cap Paused = Paused
      /\ Cardinality(Whole \ Paused) = Cardinality(Whole) - Cardinality(Whole \cap Paused)
      /\ Cardinality(Paused) <= Cardinality(Whole)
  BY <1>2, <1>7, FS_Difference, FS_Subset
<1> QED
  BY <1>2, <1>6, <1>8, <1>9 DEF Whole

LEMMA OrderlyLater ==
  ASSUME NEW l \in Seq(PauseRow), NEW start, NEW a \in Nat, NEW b \in Nat, a <= b,
         Orderly(l, start, a)
  PROVE  Orderly(l, start, b)
<1>1. \A i \in DOMAIN l : l[i].from \in Nat /\ (l[i].to # Null => l[i].to \in Nat)
  <2>1. \A i \in DOMAIN l : l[i] \in PauseRow
    OBVIOUS
  <2> QED
    BY <2>1, TimeAssumption DEF PauseRow, Time, Maybe
<1> QED
  BY <1>1 DEF Orderly

\* A new interval follows all the others.
LEMMA OrderlyOpened ==
  ASSUME NEW l \in Seq(PauseRow), NEW start, NEW at \in Nat, start <= at,
         Orderly(l, start, at), OpenPauses(l) = {}
  PROVE  Orderly(Append(l, [from |-> at, to |-> Null]), start, at)
<1> DEFINE m == Append(l, [from |-> at, to |-> Null])
           n == Len(l)
<1>1. /\ n \in Nat /\ DOMAIN l = 1 .. n /\ DOMAIN m = 1 .. n + 1
      /\ m[n + 1].from = at /\ m[n + 1].to = Null
      /\ \A i \in 1 .. n : m[i] = l[i]
  OBVIOUS
<1>2. \A i \in 1 .. n : l[i].to # Null
  BY <1>1 DEF OpenPauses
<1> HIDE DEF m, n
<1>3. ASSUME NEW i \in DOMAIN m
      PROVE  /\ start <= m[i].from /\ m[i].from <= at
             /\ m[i].to # Null => m[i].from <= m[i].to /\ m[i].to <= at
  <2>1. CASE i = n + 1
    BY <1>1, <2>1
  <2>2. CASE i # n + 1
    <3>1. i \in 1 .. n
      BY <1>1, <2>2
    <3> QED
      BY <1>1, <3>1 DEF Orderly
  <2> QED
    BY <2>1, <2>2
<1>4. ASSUME NEW i \in DOMAIN m, NEW j \in DOMAIN m, i < j
      PROVE  m[i].to # Null /\ m[i].to <= m[j].from
  <2>1. i \in 1 .. n
    BY <1>1, <1>4
  <2>2. CASE j = n + 1
    BY <1>1, <1>2, <2>1, <2>2 DEF Orderly
  <2>3. CASE j # n + 1
    <3>1. j \in 1 .. n
      BY <1>1, <2>3
    <3> QED
      BY <1>1, <1>4, <2>1, <3>1 DEF Orderly
  <2> QED
    BY <2>2, <2>3
<1> QED
  BY <1>3, <1>4 DEF Orderly, m

\* Closing the open interval keeps the order: it is the last one.
LEMMA OrderlyClosed ==
  ASSUME NEW l \in Seq(PauseRow), NEW start, NEW at \in Nat, at # Null,
         Orderly(l, start, at), NEW i, OpenPauses(l) = IF i = 0 THEN {} ELSE {i}
  PROVE  Orderly(ClosePause(l, LatestOpenPause(l), at), start, at)
<1> DEFINE m == ClosePause(l, LatestOpenPause(l), at)
<1>1. CASE i = 0
  BY <1>1, LatestIsOpen DEF ClosePause
<1>2. CASE i # 0
  <2>1. i \in DOMAIN l /\ l[i] \in PauseRow /\ l[i].to = Null
    BY <1>2 DEF OpenPauses
  <2>2. m = [l EXCEPT ![i].to = at]
    BY <1>2, LatestIsOpen DEF ClosePause
  <2>3. /\ DOMAIN m = DOMAIN l /\ m[i].from = l[i].from /\ m[i].to = at
        /\ \A j \in DOMAIN l \ {i} : m[j] = l[j]
    BY <2>1, <2>2 DEF PauseRow
  <2> HIDE DEF m
  <2>4. ASSUME NEW j \in DOMAIN m
        PROVE  /\ start <= m[j].from /\ m[j].from <= at
               /\ m[j].to # Null => m[j].from <= m[j].to /\ m[j].to <= at
    BY <2>3 DEF Orderly
  <2>5. ASSUME NEW j \in DOMAIN m, NEW k \in DOMAIN m, j < k
        PROVE  m[j].to # Null /\ m[j].to <= m[k].from
    <3>1. l[j].to # Null /\ l[j].to <= l[k].from
      BY <2>3, <2>5 DEF Orderly
    <3>2. j # i /\ m[k].from = l[k].from
      BY <2>1, <2>3, <3>1
    <3> QED
      BY <2>3, <3>1, <3>2
  <2> QED
    BY <2>4, <2>5 DEF Orderly, m
<1> QED
  BY <1>1, <1>2

\* The hours a session is closed with are those of its final row and ledger.
LEMMA ClosedRowTimes ==
  ASSUME NEW s \in Sessions, NEW call \in Closing, NEW at \in Time, NEW ledger,
         FixesOf(s) \subseteq Time, row[s] \in RowType, row[s].hours = Null
  PROVE  LET new == ClosedRow(s, call, at, ledger)
         IN  /\ new.startedAt = row[s].startedAt /\ new.endedAt = at
             /\ new.hours # Null => new.hours = BillableHours(new, ledger)
<1> DEFINE a == AreaOf(FixesOf(s), ledger)
           y == [row[s] EXCEPT !.status = EndStatus(call), !.endedAt = at, !.area = a]
           new == ClosedRow(s, call, at, ledger)
<1>1. new = Finalize(call, y, ledger)
  BY DEF ClosedRow
<1> HIDE DEF new
<1>2. y \in RowType /\ y.startedAt = row[s].startedAt /\ y.endedAt = at /\ y.hours = Null
  <2>1. a \in Maybe(Nat) /\ EndStatus(call) \in Statuses /\ at \in Maybe(Time)
    BY AreaIsNatural DEF Maybe, EndStatus, Statuses, Terminal
  <2> HIDE DEF a
  <2> QED
    BY <2>1 DEF RowType
<1> HIDE DEF y
<1> DEFINE q == Quantity(y, ledger)
<1>3. \/ new = y
      \/ new = Issue(y, 0)
      \/ new = Issue(WithHours(y, q), y.rate * q)
  BY <1>1 DEF Finalize, FinalizeSessionBilling, FinalizeCancelledSession, PriceRow
<1>4. ASSUME NEW w \in {y, WithHours(y, q)}, NEW total
      PROVE  LET d == Issue(w, total)
             IN  /\ d.startedAt = y.startedAt /\ d.endedAt = y.endedAt
                 /\ d.hours = w.hours
  BY <1>2 DEF Issue, WithHours, RowType
<1>5. WithHours(y, q).hours \in {Null, BillableHours(y, ledger)}
  BY <1>2 DEF WithHours, Quantity, RowType
<1> HIDE DEF q
<1>6. /\ new.startedAt = y.startedAt /\ new.endedAt = y.endedAt
      /\ new.hours \in {Null, BillableHours(y, ledger)}
  BY <1>2, <1>3, <1>4, <1>5
<1>7. BillableHours(new, ledger) = BillableHours(y, ledger)
  BY <1>6 DEF BillableHours
<1> QED
  BY <1>2, <1>6, <1>7 DEF new

\* The times a worker holds were read from the clock.
Timed == {"pause", "resume", "stopEnded", "cancelEnded"}

LEMMA TimeRead ==
  ASSUME IInv, [Next]_vars, NEW r \in Requests
  PROVE  req'[r] = req[r] \/ req'[r].pc \notin Timed \/ req'[r].at = now
<1>1. req \in [Requests -> ReqType] /\ Consistent(req[r])
  BY DEF IInv, TypeOK, RequestShape
<1>2. ASSUME NEW u \in Requests, RequestStep(u), u # r PROVE req'[r] = req[r]
  BY <1>1, <1>2
  DEF RequestStep, StartCheck, StartCommit, PauseCheck, PauseCommit, ResumeCheck, ResumeCommit,
      BackfillCheck, BackfillCommit, CloseCheck, CloseFlush, TakeBuffer, FlushNothing,
      CloseEnd, CloseCommit, Fail
<1>3. CASE RequestStep(r)
  <2>1. ASSUME NEW o \in Operators, NEW k \in OperationTypes, StartCheck(r, o, k)
        PROVE  req'[r].pc = "start"
    BY <1>1, <2>1 DEF StartCheck, Idle
  <2>2. ASSUME NEW s \in Sessions, PauseCheck(r, s) \/ ResumeCheck(r, s) \/ BackfillCheck(r, s)
        PROVE  req'[r].pc = "backfill" \/ req'[r].at = now
    <3>1. CASE PauseCheck(r, s)
      BY <1>1, <3>1 DEF PauseCheck, Idle
    <3>2. CASE ResumeCheck(r, s)
      BY <1>1, <3>2 DEF ResumeCheck, Idle
    <3>3. CASE BackfillCheck(r, s)
      BY <1>1, <3>3 DEF BackfillCheck, Idle
    <3> QED
      BY <2>2, <3>1, <3>2, <3>3
  <2>3. ASSUME NEW call \in Closing, NEW s \in Sessions, CloseCheck(r, s, call)
        PROVE  req'[r].pc = call
    BY <1>1, <2>3 DEF CloseCheck, Idle
  <2>4. ASSUME NEW call \in Closing, CloseFlush(r, call) \/ FlushNothing(r, call)
        PROVE  req'[r] = req[r] \/ req'[r].pc = FlushedPc(call)
    BY <1>1, <2>4 DEF CloseFlush, TakeBuffer, FlushNothing, ReqType
  <2>5. ASSUME NEW call \in Closing, CloseEnd(r, call)
        PROVE  req'[r].at = now
    BY <1>1, <2>5 DEF CloseEnd, ReqType
  <2>6. CASE req' = [req EXCEPT ![r] = Idle]
    BY <1>1, <2>6 DEF Idle, Timed
  <2>7. \A call \in Closing : call \notin Timed /\ FlushedPc(call) \notin Timed
    BY DEF Closing, FlushedPc, Timed
  <2>8. "start" \notin Timed /\ "backfill" \notin Timed
    BY DEF Timed
  <2>9. \/ \E o \in Operators, k \in OperationTypes : StartCheck(r, o, k)
        \/ \E s \in Sessions : PauseCheck(r, s) \/ ResumeCheck(r, s) \/ BackfillCheck(r, s)
        \/ \E call \in Closing : \/ \E s \in Sessions : CloseCheck(r, s, call)
                                 \/ CloseFlush(r, call) \/ FlushNothing(r, call)
                                 \/ CloseEnd(r, call)
        \/ req' = [req EXCEPT ![r] = Idle]
    BY <1>3 DEF RequestStep, StartCommit, PauseCommit, ResumeCommit, BackfillCommit,
                CloseCommit, Fail
  <2> QED
    BY <2>1, <2>2, <2>3, <2>4, <2>5, <2>6, <2>7, <2>8, <2>9
<1>4. CASE Restart
  BY <1>4 DEF Restart, Idle, Timed
<1>5. CASE BackgroundFlush \/ FlushStep
  <2>1. ASSUME NEW u \in Requests, NEW call \in Closing, Flushed(u, call)
        PROVE  req'[r] = req[r] \/ req'[r].pc \notin Timed
    BY <1>1, <2>1 DEF Flushed, FlushedPc, ReqType, Timed
  <2> QED
    BY <1>5, <2>1, FlushEffect
<1>6. CASE ~ Restart /\ ~ BackgroundFlush /\ ~ FlushStep /\ ~ \E u \in Requests : RequestStep(u)
  BY <1>6 DEF Next, vars, Tick, EditRateCard, DeliverFix, WriterStep, WriterResolve,
              WriterCommit
<1> QED
  BY <1>2, <1>3, <1>4, <1>5, <1>6

InOrder(x, l, until) ==
  /\ x.status = "none" => l = <<>>
  /\ x.status \in Attachable => Orderly(l, x.startedAt, until)
  /\ x.status \in Terminal =>
       /\ x.endedAt # Null /\ x.startedAt <= x.endedAt
       /\ Orderly(l, x.startedAt, x.endedAt)

\* The intervals of a session follow each other between its start and the clock, or its
\* end once it has one, and the worker holds a time that is not before any of them.
Chronology ==
  /\ \A s \in Sessions \ Legacy : InOrder(row[s], pauses[s], now)
  /\ \A r \in Requests :
       req[r].pc \in Timed /\ req[r].s \notin Legacy =>
         /\ row[req[r].s].startedAt <= req[r].at /\ req[r].at <= now
         /\ Orderly(pauses[req[r].s], row[req[r].s].startedAt, req[r].at)

\* The hours of a completed session are those of its row and its ledger.
NetHours ==
  \A s \in Sessions \ Legacy :
    row[s].status = "completed" /\ row[s].hours # Null =>
      row[s].hours = BillableHours(row[s], pauses[s])

\* A commit of the only worker on its session, with the times it writes.
LEMMA TimedCommit ==
  ASSUME IInv, PInv, Serial, Chronology, NEW r \in Requests, CommitStepOf(r),
         NEW s \in Sessions \ Legacy, req[r].s = s
  PROVE  /\ row'[s].startedAt = row[s].startedAt
         /\ req[r].at \in Nat /\ req[r].at <= now
         /\ \/ /\ row'[s].status \in Attachable
               /\ Orderly(pauses'[s], row[s].startedAt, req[r].at)
            \/ /\ row'[s].status \in Terminal
               /\ row'[s].endedAt = req[r].at /\ row[s].startedAt <= req[r].at
               /\ Orderly(pauses'[s], row[s].startedAt, req[r].at)
               /\ row'[s].hours # Null => row'[s].hours = BillableHours(row'[s], pauses'[s])
<1>1. /\ req[r] \in ReqType /\ Consistent(req[r]) /\ UpToDate(req[r])
      /\ row[s] \in RowType /\ pauses[s] \in Seq(PauseRow)
      /\ row \in [Sessions -> RowType] /\ pauses \in [Sessions -> Seq(PauseRow)]
      /\ row[s].status \in Attachable => ~ row[s].fin
      /\ row[s].hours # Null => row[s].fin
  BY DEF IInv, TypeOK, RequestShape, Serial, Alone, HourlyBillReconciles
<1>2. ~ BackfillCommit(r)
  BY <1>1 DEF BackfillCommit, UpToDate, Consistent, PInv, TerminatedIsPriced
<1>3. req[r].pc \in Timed
  BY <1>2 DEF CommitStepOf, PauseCommit, ResumeCommit, CloseCommit, Closing, EndedPc, Timed
<1>4. /\ req[r].at \in Time /\ req[r].at \in Nat /\ req[r].at # Null /\ req[r].at <= now
      /\ row[s].startedAt <= req[r].at
      /\ Orderly(pauses[s], row[s].startedAt, req[r].at)
  BY <1>1, <1>3, TimeAssumption DEF Chronology, Consistent, Timed, ReqType, Maybe, Time
<1>5. PICK i \in Nat : /\ OpenPauses(pauses[s]) = IF i = 0 THEN {} ELSE {i}
                       /\ i # 0 <=> row[s].status = "paused"
  BY DEF Serial, Intervals
<1>6. CASE PauseCommit(r)
  <2>1. row[s].status = "active" /\ OpenPauses(pauses[s]) = {}
    BY <1>1, <1>5, <1>6 DEF PauseCommit, UpToDate
  <2>2. Orderly(Append(pauses[s], [from |-> req[r].at, to |-> Null]), row[s].startedAt, req[r].at)
    BY <1>1, <1>4, <2>1, OrderlyOpened
  <2>3. /\ row'[s] = [row[s] EXCEPT !.status = "paused"]
        /\ pauses'[s] = Append(pauses[s], [from |-> req[r].at, to |-> Null])
    BY <1>1, <1>6 DEF PauseCommit
  <2>4. row'[s].status \in Attachable /\ row'[s].startedAt = row[s].startedAt
    BY <1>1, <2>3 DEF RowType, Attachable
  <2> QED
    BY <1>4, <2>2, <2>3, <2>4
<1>7. Orderly(ClosePause(pauses[s], LatestOpenPause(pauses[s]), req[r].at),
              row[s].startedAt, req[r].at)
  BY <1>1, <1>4, <1>5, OrderlyClosed
<1>8. CASE ResumeCommit(r)
  <2>1. req[r].open = LatestOpenPause(pauses[s])
    BY <1>1, <1>8 DEF ResumeCommit, UpToDate
  <2>2. /\ row'[s] = [row[s] EXCEPT !.status = "active"]
        /\ pauses'[s] = ClosePause(pauses[s], LatestOpenPause(pauses[s]), req[r].at)
    BY <1>1, <1>8, <2>1 DEF ResumeCommit
  <2>3. row'[s].status \in Attachable /\ row'[s].startedAt = row[s].startedAt
    BY <1>1, <2>2 DEF RowType, Attachable
  <2> QED
    BY <1>4, <1>7, <2>2, <2>3
<1>9. ASSUME NEW call \in Closing, CloseCommit(r, call)
      PROVE  /\ row'[s].startedAt = row[s].startedAt
             /\ row'[s].status \in Terminal /\ row'[s].endedAt = req[r].at
             /\ Orderly(pauses'[s], row[s].startedAt, req[r].at)
             /\ row'[s].hours # Null => row'[s].hours = BillableHours(row'[s], pauses'[s])
  <2>1. req[r].open = LatestOpenPause(pauses[s]) /\ row[s].status \in Attachable
    BY <1>1, <1>9 DEF CloseCommit, UpToDate, ClosingPcs, Closing, EndedPc
  <2>2. /\ pauses'[s] = ClosePause(pauses[s], LatestOpenPause(pauses[s]), req[r].at)
        /\ row'[s] = ClosedRow(s, call, req[r].at, pauses'[s])
    BY <1>1, <1>9, <2>1 DEF CloseCommit
  <2>3. ~ row[s].fin /\ row[s].hours = Null /\ FixesOf(s) \subseteq Time
    BY <1>1, <2>1 DEF FixesOf
  <2>4. EndStatus(call) \in Terminal
    BY DEF EndStatus, Terminal
  <2> QED
    BY <1>1, <1>4, <1>7, <2>2, <2>3, <2>4, ClosedRowTimes, ClosedRowBilled
<1> QED
  BY <1>2, <1>4, <1>6, <1>8, <1>9 DEF CommitStepOf

LEMMA ChronologyInit == Init => Chronology /\ NetHours
<1> SUFFICES ASSUME Init PROVE Chronology /\ NetHours
  OBVIOUS
<1>1. \A s \in Sessions \ Legacy : row[s] = NoRow /\ pauses[s] = <<>>
  BY DEF Init
<1>2. \A r \in Requests : req[r].pc = "idle"
  BY DEF Init, Idle
<1> QED
  BY <1>1, <1>2 DEF Chronology, InOrder, NetHours, NoRow, Attachable, Terminal, Timed

LEMMA ChronologyStep ==
  ASSUME Apart, IInv, IInv', PInv, Serial, Serial', Chronology, NetHours, [Next]_vars
  PROVE  Chronology' /\ NetHours'
<1>1. /\ now \in Nat /\ now' \in Nat /\ now <= now'
      /\ row \in [Sessions -> RowType] /\ pauses \in [Sessions -> Seq(PauseRow)]
      /\ req \in [Requests -> ReqType]
  BY ClockMovesOn DEF IInv, TypeOK
<1>2. ASSUME NEW s \in Sessions \ Legacy, row'[s] = row[s], pauses'[s] = pauses[s]
      PROVE  InOrder(row'[s], pauses'[s], now')
  <2>1. InOrder(row[s], pauses[s], now) /\ pauses[s] \in Seq(PauseRow)
    BY <1>1 DEF Chronology
  <2> QED
    BY <1>1, <1>2, <2>1, OrderlyLater DEF InOrder
<1>3. ASSUME NEW r \in Requests, req' = [req EXCEPT ![r] = Idle], now' = now,
             \A u \in Requests \ {r} :
               req[u].pc \in Timed => /\ row'[req[u].s] = row[req[u].s]
                                      /\ pauses'[req[u].s] = pauses[req[u].s],
             \A s \in Sessions \ Legacy :
               /\ InOrder(row'[s], pauses'[s], now')
               /\ row'[s].status = "completed" /\ row'[s].hours # Null =>
                    row'[s].hours = BillableHours(row'[s], pauses'[s])
      PROVE  Chronology' /\ NetHours'
  <2>1. ASSUME NEW u \in Requests, req'[u].pc \in Timed, req'[u].s \notin Legacy
        PROVE  LET s == req'[u].s
               IN  /\ row'[s].startedAt <= req'[u].at /\ req'[u].at <= now'
                   /\ Orderly(pauses'[s], row'[s].startedAt, req'[u].at)
    <3>1. u # r
      BY <1>1, <1>3, <2>1 DEF Idle, Timed
    <3>2. req'[u] = req[u]
      BY <1>1, <1>3, <3>1
    <3>3. row'[req[u].s] = row[req[u].s] /\ pauses'[req[u].s] = pauses[req[u].s]
      BY <1>3, <2>1, <3>1, <3>2
    <3>4. /\ row[req[u].s].startedAt <= req[u].at /\ req[u].at <= now
          /\ Orderly(pauses[req[u].s], row[req[u].s].startedAt, req[u].at)
      BY <2>1, <3>2 DEF Chronology
    <3> QED
      BY <1>3, <3>2, <3>3, <3>4
  <2> QED
    BY <1>3, <2>1 DEF Chronology, InOrder, Orderly, NetHours, BillableHours, PausedTime, PausedInstants
<1>4. ASSUME NEW r \in Requests, CommitStepOf(r) PROVE Chronology' /\ NetHours'
  <2>1. PICK new \in RowType, ledger \in Seq(PauseRow) :
          /\ row' = [row EXCEPT ![req[r].s] = new]
          /\ pauses' = [pauses EXCEPT ![req[r].s] = ledger]
    BY <1>4, CommitEffect
  <2>2. /\ req[r].s \in Sessions /\ req' = [req EXCEPT ![r] = Idle] /\ now' = now
        /\ pauses'[req[r].s] \in Seq(PauseRow)
    BY <1>1, <1>4, <2>1, CommitEffect
  <2>0. ASSUME NEW u \in Requests \ {r}, req[u].pc \in Timed
        PROVE  row'[req[u].s] = row[req[u].s] /\ pauses'[req[u].s] = pauses[req[u].s]
    <3>1. Working(req[r]) /\ Working(req[u]) /\ req[u].s \in Sessions
      BY <1>4, <2>0 DEF CommitStepOf, PauseCommit, ResumeCommit, BackfillCommit, CloseCommit,
                        Closing, EndedPc, Working, Timed, IInv, RequestShape, Consistent
    <3>2. req[u].s # req[r].s
      BY <3>1 DEF Apart
    <3> QED
      BY <1>1, <2>1, <3>1, <3>2
  <2>3. ASSUME NEW s \in Sessions \ Legacy
        PROVE  /\ InOrder(row'[s], pauses'[s], now')
               /\ row'[s].status = "completed" /\ row'[s].hours # Null =>
                    row'[s].hours = BillableHours(row'[s], pauses'[s])
    <3>1. CASE s # req[r].s
      <4>1. row'[s] = row[s] /\ pauses'[s] = pauses[s]
        BY <1>1, <2>1, <3>1
      <4> QED
        BY <1>2, <4>1 DEF NetHours
    <3>2. CASE s = req[r].s
      <4>1. /\ row'[s].startedAt = row[s].startedAt
            /\ req[r].at \in Nat /\ req[r].at <= now
            /\ \/ /\ row'[s].status \in Attachable
                  /\ Orderly(pauses'[s], row[s].startedAt, req[r].at)
               \/ /\ row'[s].status \in Terminal
                  /\ row'[s].endedAt = req[r].at /\ row[s].startedAt <= req[r].at
                  /\ Orderly(pauses'[s], row[s].startedAt, req[r].at)
                  /\ row'[s].hours # Null =>
                       row'[s].hours = BillableHours(row'[s], pauses'[s])
        BY <1>4, <3>2, TimedCommit
      <4>2. Orderly(pauses'[s], row'[s].startedAt, now')
        BY <1>1, <2>2, <3>2, <4>1, OrderlyLater
      <4>3. req[r].at # Null
        BY <4>1, NullAssumption
      <4> QED
        BY <4>1, <4>2, <4>3 DEF InOrder, Attachable, Terminal
    <3> QED
      BY <3>1, <3>2
  <2> QED
    BY <1>3, <2>0, <2>2, <2>3
<1>5. ASSUME NEW r \in Requests, NEW u \in Sessions, StartCommit(r, u)
      PROVE  Chronology' /\ NetHours'
  <2>1. /\ req' = [req EXCEPT ![r] = Idle] /\ pauses' = pauses /\ now' = now
        /\ row[u].status = "none" /\ row'[u].status = "active"
        /\ \A s \in Sessions \ {u} : row'[s] = row[s]
    BY <1>1, <1>5 DEF StartCommit, IInv, RequestShape, Consistent
  <2>2. ASSUME NEW s \in Sessions \ Legacy
        PROVE  /\ InOrder(row'[s], pauses'[s], now')
               /\ row'[s].status = "completed" /\ row'[s].hours # Null =>
                    row'[s].hours = BillableHours(row'[s], pauses'[s])
    <3>1. CASE s = u
      <4>1. pauses'[s] = <<>>
        BY <2>1, <3>1 DEF Chronology, InOrder
      <4>2. Orderly(<<>>, row'[s].startedAt, now')
        BY DEF Orderly
      <4> QED
        BY <2>1, <3>1, <4>1, <4>2 DEF InOrder, Terminal
    <3>2. CASE s # u
      BY <1>2, <2>1, <3>2 DEF NetHours
    <3> QED
      BY <3>1, <3>2
  <2>3. ASSUME NEW v \in Requests, req[v].pc \in Timed
        PROVE  row'[req[v].s] = row[req[v].s] /\ pauses'[req[v].s] = pauses[req[v].s]
    BY <2>1, <2>3 DEF Timed, IInv, RequestShape, Consistent
  <2> QED
    BY <1>3, <2>1, <2>2, <2>3
<1>6. ASSUME UNCHANGED <<row, pauses>> PROVE Chronology' /\ NetHours'
  <2>1. \A s \in Sessions \ Legacy : InOrder(row'[s], pauses'[s], now')
    BY <1>2, <1>6
  <2>2. ASSUME NEW r \in Requests, req'[r].pc \in Timed, req'[r].s \notin Legacy
        PROVE  LET s == req'[r].s
               IN  /\ row'[s].startedAt <= req'[r].at /\ req'[r].at <= now'
                   /\ Orderly(pauses'[s], row'[s].startedAt, req'[r].at)
    <3> DEFINE s == req'[r].s
    <3>1. /\ s \in Sessions \ Legacy /\ row[s].status \in Attachable
          /\ req'[r].at \in Nat
      <4>1. Consistent(req[r])' /\ UpToDate(req[r])' /\ req'[r] \in ReqType
        BY DEF IInv, RequestShape, TypeOK, Serial, Alone
      <4> QED
        BY <1>6, <2>2, <4>1, TimeAssumption
        DEF Consistent, UpToDate, Timed, ClosingPcs, Closing, EndedPc, Attachable, ReqType, Maybe, Time
    <3>2. CASE req'[r] = req[r]
      <4>1. row[s].startedAt <= req[r].at /\ req[r].at <= now
            /\ Orderly(pauses[s], row[s].startedAt, req[r].at)
        BY <2>2, <3>2 DEF Chronology
      <4> QED
        BY <1>1, <1>6, <3>1, <3>2, <4>1
    <3>3. CASE req'[r].at = now
      <4>1. Orderly(pauses[s], row[s].startedAt, now)
        BY <3>1 DEF Chronology, InOrder
      <4>2. row[s].startedAt <= now
        BY <3>1 DEF PInv, StartsInThePast, Attachable
      <4> QED
        BY <1>1, <1>6, <3>3, <4>1, <4>2
    <3> QED
      BY <2>2, <3>2, <3>3, TimeRead
  <2>3. NetHours'
    BY <1>6 DEF NetHours, BillableHours, PausedTime, PausedInstants
  <2> QED
    BY <2>1, <2>2, <2>3 DEF Chronology, InOrder, Orderly
<1> QED
  BY <1>4, <1>5, <1>6, OnlyCommitsWrite

\* While no two requests in flight concern one session and the clocks agree, the hours of a
\* completed session are the instants between its start and its end at which it was not
\* paused.
THEOREM SerialHours ==
  ClockLag = 0 => (Spec /\ []Apart => []HoursAreWorkedTime)
<1> SUFFICES ASSUME ClockLag = 0 PROVE Spec /\ []Apart => []HoursAreWorkedTime
  OBVIOUS
<1>1. Apart /\ IInv /\ Serial /\ PInv /\ [Next]_vars /\ IInv' /\ Serial' /\ Chronology /\ NetHours
        => Chronology' /\ NetHours'
  BY ChronologyStep
<1>2. Spec /\ []Apart => [](Chronology /\ NetHours)
  BY <1>1, ChronologyInit, SerialHolds, PricesHold, PTL DEF Spec
<1>3. IInv /\ Serial /\ Chronology /\ NetHours => HoursAreWorkedTime
  <2> SUFFICES ASSUME IInv, Serial, Chronology, NetHours, NEW s \in Sessions \ Legacy,
                      row[s].status = "completed", row[s].hours # Null
               PROVE  row[s].hours =
                        Cardinality({t \in row[s].startedAt .. row[s].endedAt - 1 :
                                       \A i \in DOMAIN pauses[s] : ~ CoveredBy(pauses[s], i, t)})
    BY DEF HoursAreWorkedTime, CoveredBy
  <2> DEFINE x == row[s]
             l == pauses[s]
  <2>1. l \in Seq(PauseRow) /\ x \in RowType /\ x.startedAt # Null
    BY DEF IInv, TypeOK, RowShape
  <2>2. /\ x.endedAt # Null /\ x.startedAt <= x.endedAt
        /\ Orderly(l, x.startedAt, x.endedAt)
    BY DEF Chronology, InOrder, Terminal
  <2>3. x.startedAt \in Nat /\ x.endedAt \in Time /\ x.endedAt \in Nat
    BY <2>1, <2>2, TimeAssumption, ClockLagAssumption DEF RowType, Maybe, Time
  <2>4. \A i \in DOMAIN l : l[i].to # Null
    BY DEF Serial, Intervals, OpenPauses
  <2>5. x.hours = BillableHours(x, l)
    BY DEF NetHours
  <2>6. PausedTime(l, x.endedAt) \in Nat
    BY <2>1, PausedTimeIsNatural
  <2> HIDE DEF x, l
  <2>7. /\ Cardinality({t \in x.startedAt .. x.endedAt - 1 :
                          \A i \in DOMAIN l : ~ CoveredBy(l, i, t)})
             = (x.endedAt - x.startedAt) - PausedTime(l, x.endedAt)
        /\ PausedTime(l, x.endedAt) <= x.endedAt - x.startedAt
    BY <2>1, <2>2, <2>3, <2>4, PausedOnce
  <2>8. BillableHours(x, l) = (x.endedAt - x.startedAt) - PausedTime(l, x.endedAt)
    BY <2>2, <2>3, <2>6, <2>7 DEF BillableHours
  <2> QED
    BY <2>5, <2>7, <2>8 DEF x, l
<1> QED
  BY <1>2, <1>3, SerialHolds, PTL
=============================================================================
