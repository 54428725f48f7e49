---------------------------- MODULE LeavePeriods ----------------------------
(***************************************************************************)
(* The sums that a balance of annual leave is made of: which days of leave *)
(* the present cycle and the past ones deduct from it, and which days earn *)
(* leave.  Amounts are abstracted to days, for employees without unpaid    *)
(* leave.                                                                  *)
(***************************************************************************)
EXTENDS LeaveCycles, FiniteSets, FiniteSetsExt

\* Mutant of Periods: a period begins on the last day of the one before.
PeriodsSharingDays(t, p, limit) ==
    LET from[s \in Int] ==
            LET e == CycleEnd(t, p, s)
            IN  IF s >= limit \/ e <= s THEN {}
                ELSE {[from |-> s, to |-> e]} \cup from[e]
    IN  from[Begins(p)]

\* The periods of the loop in leave_carried_forward_for.
Periods(t, p, limit) ==
    LET from[s \in Int] ==
            LET e == CycleEnd(t, p, s)
            IN  IF s >= limit \/ e <= s THEN {}
                ELSE {[from |-> s, to |-> e]} \cup from[e + 4]
    IN  from[Begins(p)]

PastPeriods(t, p, d) ==
    IF CarriesForward(t, p, d) THEN Periods(t, p, UpTo(t, p, d)) ELSE {}

\* The query that is made for a past period.
Queried(i) == DayOf(i.from) .. DayOf(i.to)

\* The query of leave_taken_for.
CurrentPeriod(t, p, d) == DayOf(CycleStart(t, p, Midnight(d))) .. d

\* How often the balance as at d deducts leave taken on the day e.
Deductions(t, p, d, e) ==
    Cardinality({i \in PastPeriods(t, p, d) : e \in Queried(i)})
    + (IF e \in CurrentPeriod(t, p, d) THEN 1 ELSE 0)

\* Mutant of EarnedNow: the last day is left out, as in the past periods.
EarnedNowOpen(t, p, d) == Midnight(d) - CycleStart(t, p, Midnight(d))

\* The days that allowance_for and leave_carried_forward_for multiply the
\* allowance of a day with, if there is no unpaid leave, in quarter days.
EarnedNow(t, p, d) == Midnight(d + 1) - CycleStart(t, p, Midnight(d))

EarnedBefore(t, p, d) ==
    MapThenSumSet(LAMBDA i : i.to - i.from, PastPeriods(t, p, d))

-----------------------------------------------------------------------------

\* The days at which the deductions may change: the ends of the periods.
Edges ==
    LET ends == {Begins(person), Start}
                \cup UNION {{i.from, i.to} : i \in PastPeriods(type, person, asAt)}
    IN  {d \in UNION {DayOf(q) - 1 .. DayOf(q) + 1 : q \in ends} :
            Midnight(d) >= Begins(person) /\ d <= asAt}

\* Annual leave in cycles of a year, of somebody whose first day is the first of one.
JoinedWithCycle ==
    /\ type.annual /\ Length(type) = 1461
    /\ DayOf(Begins(person)) = DayIn(type.day, Year(DayOf(Begins(person))))

(***************************************************************************)
(* What is carried forward and what was taken since then fit together,     *)
(* year after year and in leap years, for employees who joined on the      *)
(* first day of a cycle: every day of leave since then is deducted once,   *)
(* and only the first day of the present cycle possibly twice, for a cycle *)
(* is made to end on the first day of the next one (leave_type.rb:300,     *)
(* 322-340, 449-452).                                                      *)
(***************************************************************************)
DeductionsFit ==
    JoinedWithCycle /\ Employed =>
        \A e \in Edges :
            \/ Deductions(type, person, asAt, e) = 1
            \/ Deductions(type, person, asAt, e) = 2 /\ e = DayOf(Start)

Earned == EarnedBefore(type, person, asAt) + EarnedNow(type, person, asAt)
Elapsed == Midnight(asAt + 1) - Begins(person)

(***************************************************************************)
(* The days that earn annual leave, carried forward or in the present      *)
(* cycle, are the days since the employee joined, for those who joined on  *)
(* the first day of a cycle: at the end of a cycle nothing that was earned *)
(* is lost, and nothing earned twice, but for a day per past cycle, since  *)
(* a period is a day longer than the difference of its ends                *)
(* (leave_type.rb:326-338, 354-363).                                       *)
(***************************************************************************)
AccrualKeepsPace ==
    JoinedWithCycle /\ Employed =>
        Elapsed - Earned \in -1 .. 4 * Cardinality(PastPeriods(type, person, asAt))

(***************************************************************************)
(* What the comment of leave_carried_forward_for says: "accumulate leave   *)
(* from the start date up to the cycle start date of `date_as_at`"         *)
(* (leave_type.rb:306), where leave_taken_for takes over.  So no day of    *)
(* leave is deducted twice.                                                *)
(***************************************************************************)
NoDayDeductedTwice ==
    type.annual /\ Employed =>
        \A e \in Edges : Deductions(type, person, asAt, e) <= 1
=============================================================================
