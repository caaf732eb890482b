------------------------------- MODULE Billing -------------------------------
(***************************************************************************)
(* What a session is charged: app/core/billing_units.py,                   *)
(* app/services/operation_cost_service.py and the worked-path selection of *)
(* app/services/field_area_service.py, as operators on a row of the        *)
(* sessions table and on its pause ledger.                                 *)
(*                                                                         *)
(* Data abstraction.  Time is the natural numbers up to MaxTime and at     *)
(* most one GPS fix carries each instant, so a fix is named by its         *)
(* device_timestamp.  The worked area is the number of worked fixes (path  *)
(* length times implement width, one unit per fix), rates are naturals and *)
(* quantization, which never moves these integers, is left out.            *)
(***************************************************************************)
EXTENDS Integers, Sequences, FiniteSets

CONSTANTS
  Null,            \* SQL NULL / Python None
  MaxTime,         \* bound on the clock
  OperationTypes,  \* values of sessions.operation_type
  HourlyTypes      \* the operations charged per hour (Threshing, Grading)

ASSUME NullAssumption == Null \notin Int
ASSUME TimeAssumption == MaxTime \in Nat

Time == 0 .. MaxTime
\* A nullable column.
Maybe(S) == S \cup {Null}

PauseRow == [from : Time, to : Maybe(Time)]

ChargeUnitFor(kind) == IF kind \in HourlyTypes THEN "per_hour" ELSE "per_ha"

\* Bounds are inclusive at both ends; an open interval covers everything after it.
IsPausedAt(t, ledger) ==
  \E i \in DOMAIN ledger :
    /\ ledger[i].from <= t
    /\ ledger[i].to = Null \/ t <= ledger[i].to

WorkedFixes(fixes, ledger) == {t \in fixes : ~ IsPausedAt(t, ledger)}

AreaOf(fixes, ledger) == Cardinality(WorkedFixes(fixes, ledger))

\* Mutant: the instant a pause begins is billed.
PausedInstantsLate(ledger, until) ==
  {p \in (DOMAIN ledger) \X Time :
     /\ ledger[p[1]].from < p[2]
     /\ p[2] < IF ledger[p[1]].to = Null THEN until ELSE ledger[p[1]].to}

\* Every ledger row counts its own span, so the total is the number of (row, instant)
\* pairs: overlapping rows are counted once each, as the code's loop does.
PausedInstants(ledger, until) ==
  {p \in (DOMAIN ledger) \X Time :
     /\ ledger[p[1]].from <= p[2]
     /\ p[2] < IF ledger[p[1]].to = Null THEN until ELSE ledger[p[1]].to}

PausedTime(ledger, until) == Cardinality(PausedInstants(ledger, until))

BillableHours(r, ledger) ==
  LET elapsed == r.endedAt - r.startedAt
      worked  == elapsed - PausedTime(ledger, r.endedAt)
  IN  IF r.endedAt = Null \/ elapsed < 0 THEN Null
      ELSE IF worked < 0 THEN 0 ELSE worked

\* The quantity the rate is multiplied by, Null while it is unknown.
Quantity(r, ledger) ==
  IF r.unit = "per_hour" THEN BillableHours(r, ledger) ELSE r.area

\* A charge is issued by writing the total and cost_finalized_at together, and the hours
\* it was computed from.
Issue(r, total) == [r EXCEPT !.total = total, !.fin = TRUE]

WithHours(r, q) == IF r.unit = "per_hour" THEN [r EXCEPT !.hours = q] ELSE r

\* Mutant: the hours are billed gross of the pauses but printed net of them.
PriceRowGross(r, ledger) ==
  LET q == Quantity(r, ledger)
  IN  IF q = Null THEN r
      ELSE Issue(WithHours(r, q),
                 r.rate * IF r.unit = "per_hour" THEN r.endedAt - r.startedAt ELSE q)

PriceRow(r, ledger) ==
  LET q == Quantity(r, ledger)
  IN  IF q = Null THEN r ELSE Issue(WithHours(r, q), r.rate * q)

\* Mutant: the charge of a final session is computed again.
FinalizeAgain(r, ledger) == IF r.rate = Null THEN r ELSE PriceRow(r, ledger)

\* Mutant: the hours are stored before the no-op check.
FinalizeHoursFirst(r, ledger) ==
  IF r.rate = Null THEN r
  ELSE IF r.fin THEN WithHours(r, Quantity(r, ledger)) ELSE PriceRow(r, ledger)

\* No-op once final, and left pending for a row that never had a rate.
FinalizeSessionBilling(r, ledger) ==
  IF r.fin \/ r.rate = Null THEN r ELSE PriceRow(r, ledger)

\* Mutant: a cancelled session is left without a charge.
FinalizeCancelledNever(r) == r

FinalizeCancelledSession(r) == IF r.fin THEN r ELSE Issue(r, 0)

OpenPauses(ledger) == {i \in DOMAIN ledger : ledger[i].to = Null}

\* The row close_open_pause picks: an open interval with the latest paused_at, 0 if none.
LatestOpenPause(ledger) ==
  LET latest == {i \in OpenPauses(ledger) :
                   \A j \in OpenPauses(ledger) : ledger[j].from <= ledger[i].from}
  IN  IF latest = {} THEN 0 ELSE CHOOSE i \in latest : TRUE

\* Mutant: the open interval is selected but not closed.
ClosePauseNever(ledger, i, at) == ledger

ClosePause(ledger, i, at) == IF i = 0 THEN ledger ELSE [ledger EXCEPT ![i].to = at]
=============================================================================
