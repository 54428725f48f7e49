---------------------------- MODULE LeaveCycles ----------------------------
(***************************************************************************)
(* The leave cycles of app/models/leave_type.rb: which cycle a date falls  *)
(* into, and in which cycle a take-on balance counts.  Annual leave runs   *)
(* in cycles that begin on a fixed day of the year, the other types in     *)
(* cycles that roll from the employee's first day.                         *)
(*                                                                         *)
(* A year lasts 365.25 days to Integer#years, and Ruby keeps the fraction  *)
(* when it adds that to a Date, so dates are counted in quarter days here; *)
(* a query only sees the day.  The one state variable that changes is the  *)
(* date a balance is asked for.                                            *)
(***************************************************************************)
EXTENDS Integers

CONSTANTS
    Types,      \* leave types: [annual, unit, n, day]
    People,     \* employees: [start, takeOn], takeOn is NoDate or not before start
    FirstDate, LastDate     \* bound: the dates balances are asked for

NoDate == -1

Units == {"days", "months", "years"}

\* day is the day of a leap year (0 .. 365) on which annual cycles begin.
\* 59 is 29 February, for which Date.new raises in other years.
ASSUME CycleAssumption ==
    /\ Types \subseteq [annual : BOOLEAN, unit : Units, n : Nat \ {0}, day : 0 .. 365 \ {59}]
    /\ \A p \in People :
          /\ p.start \in Nat
          /\ p.takeOn # NoDate => p.takeOn \in Nat /\ p.takeOn >= p.start
    /\ FirstDate \in Nat /\ LastDate \in Nat

VARIABLES type, person, asAt

cycleVars == <<type, person, asAt>>

-----------------------------------------------------------------------------
(* Date: day 0 is 1 January 2001; every fourth year is a leap year.        *)

Midnight(d) == 4 * d
DayOf(q) == q \div 4

Year(d) == 2001 + ((4 * d + 3) \div 1461)
IsLeap(y) == y % 4 = 0
YearStart(y) == 365 * (y - 2001) + ((y - 2001) \div 4)

\* The day c of a leap year, in the year y.
DayIn(c, y) == YearStart(y) + (IF c < 60 \/ IsLeap(y) THEN c ELSE c - 1)

\* cycle_duration_days
Length(t) ==
    CASE t.unit = "days"   -> 4 * t.n
      [] t.unit = "months" -> 4 * 30 * t.n
      [] t.unit = "years"  -> 1461 * t.n

-----------------------------------------------------------------------------
(* The cycle of a moment q.                                                *)

Begins(p) == Midnight(IF p.takeOn # NoDate THEN p.takeOn ELSE p.start)

\* Mutant of RollOn: a cycle holds the first day of the next one.
RollOnAfter(t, s, q) ==
    LET from[m \in Int] == IF q > m + Length(t) THEN from[m + Length(t)] ELSE m
    IN  from[s]

\* Cycles of t follow on s until one ends after q: the loop of cycle_start_date_for.
RollOn(t, s, q) ==
    LET from[m \in Int] == IF q >= m + Length(t) THEN from[m + Length(t)] ELSE m
    IN  from[s]

RollingStart(t, p, q) == IF q < Begins(p) THEN NoDate ELSE RollOn(t, Begins(p), q)

RollingEnd(t, p, q) ==
    LET s == RollingStart(t, p, q) IN
    IF s = NoDate THEN NoDate
    ELSE s + Length(t) - (IF IsLeap(Year(DayOf(s))) THEN 0 ELSE 4)

Before(p, q) == Midnight(p.start) > q \/ (p.takeOn # NoDate /\ Midnight(p.takeOn) > q)

AnnualStart(t, p, q) ==
    LET y == Year(DayOf(q))
        this == Midnight(DayIn(t.day, y))
        s == IF this > q THEN Midnight(DayIn(t.day, y - 1)) ELSE this
    IN  IF Before(p, q) THEN NoDate
        ELSE IF Begins(p) > s /\ Begins(p) < s + Length(t) THEN Begins(p)
        ELSE s

AnnualEnd(t, p, q) ==
    IF Before(p, q) THEN NoDate ELSE AnnualStart(t, p, q) + Length(t)

CycleStart(t, p, q) == IF t.annual THEN AnnualStart(t, p, q) ELSE RollingStart(t, p, q)
CycleEnd(t, p, q) == IF t.annual THEN AnnualEnd(t, p, q) ELSE RollingEnd(t, p, q)

-----------------------------------------------------------------------------
(* What a balance as at the date d is made of (LeaveBalanceDetail).        *)

\* Mutant of CountsTakeOn: the start of the cycle is not looked at.
CountsTakeOnToEnd(t, p, d) ==
    /\ p.takeOn # NoDate
    /\ d >= p.takeOn
    /\ Midnight(p.takeOn) <= CycleEnd(t, p, Midnight(d))

\* take_on_balance_for is the employee's take-on balance, and not 0.
CountsTakeOn(t, p, d) ==
    /\ p.takeOn # NoDate
    /\ d >= p.takeOn
    /\ Midnight(p.takeOn) >= CycleStart(t, p, Midnight(d))
    /\ Midnight(p.takeOn) <= CycleEnd(t, p, Midnight(d))

UpTo(t, p, d) == CycleStart(t, p, Midnight(d)) - 4

CarriesForward(t, p, d) ==
    /\ t.annual
    /\ CycleStart(t, p, Midnight(d)) # NoDate
    /\ Begins(p) <= UpTo(t, p, d)

CarriesTakeOn(t, p, d) == CarriesForward(t, p, d) /\ p.takeOn # NoDate

-----------------------------------------------------------------------------

CycleInit == type \in Types /\ person \in People /\ asAt = FirstDate

DatePasses ==
    /\ asAt < LastDate
    /\ asAt' = asAt + 1
    /\ UNCHANGED <<type, person>>

CycleSpec == CycleInit /\ [][DatePasses]_cycleVars

Start == CycleStart(type, person, Midnight(asAt))
Employed == Midnight(asAt) >= Begins(person)

\* A cycle of annual leave begins every year, but how long it lasts is what the
\* administrator enters, and nothing rejects less than a year.
Yearly == type.annual => Length(type) >= 1461

\* The cycles of the other types roll on by their length.  One, two or three
\* years of 365.25 days are no whole number of days.
WholeDays == ~type.annual => Length(type) % 4 = 0

(***************************************************************************)
(* Cycles follow on each other without a gap: from the first day on every  *)
(* date has a cycle, cycles never go back, and a new one begins on the     *)
(* first date that falls into it (leave_type.rb:135-137, 272-290).         *)
(* Rolling cycles that end in the middle of a day do not.                  *)
(***************************************************************************)
CyclesFollowOn ==
    [][Yearly /\ WholeDays =>
          /\ Start' >= Start
          /\ Employed' <=> Start' # NoDate
          /\ Start' # Start => Start' = Midnight(asAt')]_cycleVars

(***************************************************************************)
(* A take-on balance counts exactly once in every balance of annual leave, *)
(* as take on in the first cycle and as part of what is carried forward in *)
(* later ones (leave_type.rb:194-196, 316-320); of other leave with cycles *)
(* of whole days it counts in the first cycle and in no other.             *)
(***************************************************************************)
TakeOnCountsOnce ==
    Yearly /\ WholeDays /\ person.takeOn # NoDate /\ Employed =>
        IF type.annual
        THEN CountsTakeOn(type, person, asAt) # CarriesTakeOn(type, person, asAt)
        ELSE CountsTakeOn(type, person, asAt) <=>
                Midnight(asAt) < Begins(person) + Length(type)
=============================================================================
