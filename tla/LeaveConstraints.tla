-------------------------- MODULE LeaveConstraints --------------------------
(***************************************************************************)
(* How a new leave request is measured: its duration (leave_request.rb),   *)
(* the day rows that the balance is made of (leave_request_day.rb), and    *)
(* the ten constraints of lib/leave_constraints.rb, whose violation holds  *)
(* the request back as NEW.  One employee asks for one type of leave that  *)
(* does not accrue, in the middle of a cycle.                              *)
(*                                                                         *)
(* Durations and balances are counted in half days.                        *)
(***************************************************************************)
EXTENDS Integers, FiniteSets, FiniteSetsExt

CONSTANTS
    Dates,          \* dates leave is asked for; 0 is a Sunday
    Holidays,       \* the entry_date of calendar entries at the start
    LateHolidays,   \* bound: those that may be entered later
    SettingsSet,    \* the settings a leave type may have
    MaxRequests     \* bound: requests of the employee

Amounts ==
    [minDays : Nat, maxDays : Nat, notice : Nat, maxFuture : Nat \ {0},
     maxBack : Nat \ {0}, documentsAfter : Nat \ {0}, maxNegative : Nat,
     allowance : Nat, takeOn : Nat, documents : BOOLEAN, sickness : BOOLEAN]

ASSUME ConstraintAssumption ==
    /\ Dates \subseteq Nat /\ MaxRequests \in Nat
    /\ Holidays \subseteq Nat /\ LateHolidays \subseteq Nat
    /\ SettingsSet \subseteq Amounts

VARIABLES
    settings,   \* of the leave type; sickness: it is Medical or Compassionate
    calendar,   \* the entry_date of calendar entries
    requests,   \* the requests of the employee, with the calendar they were
                \* measured by (of which the code keeps no record)
    today       \* Date.today

constraintVars == <<settings, calendar, requests, today>>

Active == {r \in requests : r.active}

\* weekend? (6 = Sat, 0 = Sun)
IsWeekend(d) == d % 7 \in {0, 6}
Works(d) == ~IsWeekend(d) /\ d \notin calendar

Half(b) == IF b THEN 1 ELSE 0

-----------------------------------------------------------------------------
(* The measures of a form.                                                 *)

\* Mutant of Duration: holidays on weekends are subtracted as well.
DurationWithoutHolidays(f) ==
    LET range == f.from .. f.to
        n == 2 * (Cardinality({d \in range : ~IsWeekend(d)})
                  - Cardinality(range \cap calendar))
             - Half(f.halfFrom) - Half(f.halfTo)
    IN  IF n < 0 THEN 0 ELSE n

\* calculate_duration
Duration(f) ==
    LET range == f.from .. f.to
        n == 2 * (Cardinality({d \in range : ~IsWeekend(d)})
                  - Cardinality({d \in range \cap calendar : ~IsWeekend(d)}))
             - Half(f.halfFrom) - Half(f.halfTo)
    IN  IF n < 0 THEN 0 ELSE n

\* The duration of the day row for d; the weekend has none.
RowDuration(f, d) ==
    IF (d = f.from /\ f.halfFrom) \/ (d = f.to /\ f.halfTo) THEN 1 ELSE 2

\* What the rows of f up to the date d add up to; the query leaves out holidays.
DaysTaken(f, d) ==
    MapThenSumSet(LAMBDA e : RowDuration(f, e), {e \in f.from .. f.to : Works(e) /\ e <= d})

\* LeaveBalanceDetail: a take-on balance takes the place of the allowance.
CycleAllowance == IF settings.takeOn > 0 THEN 0 ELSE settings.allowance

Available(d) ==
    settings.takeOn + CycleAllowance
    - MapThenSumSet(LAMBDA r : DaysTaken(r.form, d), {r \in Active : ~r.form.unpaid})

\* What the request leaves of the balance as at its first day.
Remains(f) == Available(f.from) - Duration(f)

-----------------------------------------------------------------------------
(* The constraints, as they are evaluated for a request that is not saved  *)
(* yet: created_at is now, the id is null.                                 *)

ExceedsLeaveCycleAllowance(f) == ~f.unpaid /\ Remains(f) > CycleAllowance

\* adjacent is decided by the weekend, then by the calendar, and then by a
\* query with "id <> :id", which no row satisfies when the id is null.
IsAdjacent(f) ==
    /\ ~settings.sickness
    /\ f.from < today
    /\ \/ (f.to + 1) % 7 = 6 \/ (f.from - 1) % 7 = 0
       \/ f.from - 1 \in calendar \/ f.to + 1 \in calendar

Violates(name, f) ==
    CASE name = "exceeds_number_of_days_notice_required" ->
            settings.notice > 0 /\ f.from - today < settings.notice
      [] name = "exceeds_minimum_number_of_days_per_request" ->
            Duration(f) < settings.minDays
      [] name = "exceeds_maximum_number_of_days_per_request" ->
            Duration(f) > settings.maxDays
      [] name = "exceeds_leave_cycle_allowance" -> ExceedsLeaveCycleAllowance(f)
      [] name = "exceeds_negative_leave_balance" ->
            ExceedsLeaveCycleAllowance(f) /\ Remains(f) < settings.maxNegative
      [] name = "is_unscheduled" -> ~settings.sickness /\ f.from < today
      [] name = "is_adjacent" -> IsAdjacent(f)
      [] name = "requires_documentation" ->
            settings.documents /\ Duration(f) >= settings.documentsAfter /\ ~f.document
      [] name = "exceeds_maximum_future_date" -> f.from > today + settings.maxFuture
      [] name = "exceeds_maximum_back_date" -> f.from < today - settings.maxBack

ConstraintNames ==
    {"exceeds_number_of_days_notice_required", "exceeds_minimum_number_of_days_per_request",
     "exceeds_maximum_number_of_days_per_request", "exceeds_leave_cycle_allowance",
     "exceeds_negative_leave_balance", "is_unscheduled", "is_adjacent",
     "requires_documentation", "exceeds_maximum_future_date", "exceeds_maximum_back_date"}

Violations(f) == {name \in ConstraintNames : Violates(name, f)}

-----------------------------------------------------------------------------

Forms ==
    [from : Dates, to : Dates, halfFrom : BOOLEAN, halfTo : BOOLEAN, unpaid : BOOLEAN,
     document : BOOLEAN]

Overlap(f, g) == f.from <= g.to /\ g.from <= f.to

\* The validations on creation.
Valid(f) ==
    /\ f.from <= f.to
    /\ ~(f.from = f.to /\ f.halfFrom /\ f.halfTo)
    /\ \A r \in Active : ~Overlap(f, r.form)

ConstraintInit ==
    settings \in SettingsSet /\ calendar = Holidays /\ requests = {} /\ today \in Dates

\* request!: without violations the request is confirmed at once.
Submit(f) ==
    /\ Valid(f)
    /\ Cardinality(requests) < MaxRequests
    /\ requests' = requests \cup
          {[form |-> f, duration |-> Duration(f), violations |-> Violations(f),
            active |-> Violations(f) = {}, measuredBy |-> calendar]}
    /\ UNCHANGED <<settings, calendar, today>>

Confirm(r) ==
    /\ ~r.active
    /\ requests' = (requests \ {r}) \cup {[r EXCEPT !.active = TRUE]}
    /\ UNCHANGED <<settings, calendar, today>>

\* No page enters holidays; whoever runs the system does, year by year.
EnterHoliday(d) ==
    /\ d \notin calendar
    /\ calendar' = calendar \cup {d}
    /\ UNCHANGED <<settings, requests, today>>

DayPasses ==
    /\ today + 1 \in Dates
    /\ today' = today + 1
    /\ UNCHANGED <<settings, calendar, requests>>

ConstraintNext ==
    \/ \E f \in Forms : Submit(f)
    \/ \E r \in requests : Confirm(r)
    \/ \E d \in LateHolidays : EnterHoliday(d)
    \/ DayPasses

ConstraintSpec == ConstraintInit /\ [][ConstraintNext]_constraintVars

-----------------------------------------------------------------------------

(***************************************************************************)
(* The duration shown to the approver, and measured by the constraints, is *)
(* what the request takes from the balance, whatever weekends and holidays *)
(* it spans; it is less, but not below nothing, by the half days that were *)
(* booked on days off, and more by the rows on which holidays were entered *)
(* since, for it is stored while the balance follows the calendar          *)
(* (leave_request.rb:249, 392-416, leave_request_day.rb:11-18, 35-50).     *)
(***************************************************************************)
Late(r) == {d \in r.form.from .. r.form.to : ~IsWeekend(d) /\ d \in calendar \ r.measuredBy}

DurationMatchesDays ==
    \A r \in requests :
        LET f == r.form
            off(d) == IsWeekend(d) \/ d \in r.measuredBy
            taken == DaysTaken(f, f.to) + MapThenSumSet(LAMBDA d : RowDuration(f, d), Late(r))
            onDaysOff == Half(f.halfFrom /\ off(f.from)) + Half(f.halfTo /\ off(f.to))
        IN  r.duration = IF taken < onDaysOff THEN 0 ELSE taken - onDaysOff

(***************************************************************************)
(* What the comment above ExceedsNegativeLeaveBalance says: "Exceeds       *)
(* allowed negative leave balance" (leave_constraints.rb:107).  A paid     *)
(* request that leaves less than that is not confirmed without a warning.  *)
(***************************************************************************)
OverdraftWarned ==
    [][\A f \in Forms :
          Submit(f) /\ ~f.unpaid /\ Remains(f) < -settings.maxNegative
            => "exceeds_negative_leave_balance" \in Violations(f)]_constraintVars
=============================================================================
