------------------------ MODULE LeaveBalances_proofs ------------------------
(***************************************************************************)
(* Proofs about what balances are made of.  The duration of a request is   *)
(* what it takes from the balance, for any dates, holidays, forms and      *)
(* settings (LeaveConstraints).  Cycles follow on each other, and take-on  *)
(* balances count in one of them, for any leave types, any employees and   *)
(* any number of years (LeaveCycles).  Year after year the past periods    *)
(* and the present one fit together, what they deduct and what they earn   *)
(* (LeavePeriods).                                                         *)
(*                                                                         *)
(* The loops are recursive functions, and a recursive function is known    *)
(* to satisfy its equation only if some function does.  Each proof first   *)
(* gives one, in closed form or from the least set of moments that the     *)
(* loop reaches, and then shows what the function is for the least number  *)
(* of rounds where it might be something else.                             *)
(***************************************************************************)
EXTENDS LeaveConstraints, LeavePeriods, FiniteSetTheorems, WellFoundedInduction, TLAPS

-----------------------------------------------------------------------------
(* In place of induction: the least number for which something fails.      *)

LEMMA LeastNatural ==
    ASSUME NEW S \in SUBSET Nat, S # {}
    PROVE  \E k \in S : \A l \in S : k <= l
<1>1. PICK k \in S : \A l \in S : <<l, k>> \notin OpToRel(<, Nat)
  BY Zenon, NatLessThanWellFounded, WFMin
<1>2. \A l \in S : ~(l < k)
  BY <1>1 DEF OpToRel
<1> QED BY <1>2

-----------------------------------------------------------------------------
(* What the rows of a set of days add up to.                               *)

\* The days of the form f whose row is half a day.
HalfDays(f) == {d \in {f.from, f.to} : RowDuration(f, d) = 1}

\* Two half days a day, less one for each half day.
RowSum(f, days) == 2 * Cardinality(days) - Cardinality(days \cap HalfDays(f))

LEMMA RowSumStep ==
    ASSUME NEW f, NEW days, IsFiniteSet(days), NEW d \in days
    PROVE  RowSum(f, days) = RowDuration(f, d) + RowSum(f, days \ {d})
<1>1. Cardinality(days) \in Nat /\ Cardinality(days \ {d}) = Cardinality(days) - 1
  BY FS_CardinalityType, FS_RemoveElement
<1> DEFINE halves == days \cap HalfDays(f)
<1>2. IsFiniteSet(halves) /\ Cardinality(halves) \in Nat
  BY FS_Intersection, FS_CardinalityType
<1>3. (days \ {d}) \cap HalfDays(f) = halves \ {d}
  OBVIOUS
<1>4. CASE RowDuration(f, d) = 1
  <2>1. d \in halves
    BY <1>4 DEF HalfDays, RowDuration
  <2>2. Cardinality(halves \ {d}) = Cardinality(halves) - 1
    BY <1>2, <2>1, FS_RemoveElement
  <2> QED BY <1>1, <1>2, <1>3, <1>4, <2>2 DEF RowSum
<1>5. CASE RowDuration(f, d) = 2
  <2>1. halves \ {d} = halves
    BY <1>5 DEF HalfDays
  <2>2. Cardinality((days \ {d}) \cap HalfDays(f)) = Cardinality(halves)
    BY <1>3, <2>1
  <2> QED BY <1>1, <1>2, <1>5, <2>2 DEF RowSum
<1> QED BY <1>4, <1>5 DEF RowDuration

\* The sum is a recursive function on the subsets of days.  RowSum satisfies
\* the same equation, so the two agree on every subset: a smallest one on
\* which they differ cannot be empty, and without one of its days they agree.
LEMMA SumOfRows ==
    ASSUME NEW f, NEW days, IsFiniteSet(days)
    PROVE  MapThenSumSet(LAMBDA d : RowDuration(f, d), days) = RowSum(f, days)
<1> DEFINE Rec(g) == [S \in SUBSET days |->
                        IF S = {} THEN 0
                        ELSE LET d == CHOOSE d \in S : TRUE
                             IN  RowDuration(f, d) + g[S \ {d}]]
           sums == [S \in SUBSET days |-> RowSum(f, S)]
           sum == CHOOSE g : g = Rec(g)
<1>1. \A S \in SUBSET days : IsFiniteSet(S)
  BY FS_Subset
<1>2. RowSum(f, {}) = 0
  <2>1. {} \cap HalfDays(f) = {}
    OBVIOUS
  <2> QED BY <2>1, FS_EmptySet DEF RowSum
<1>3. ASSUME NEW S \in SUBSET days, S # {}
      PROVE  sums[S] = Rec(sums)[S]
  <2> DEFINE d == CHOOSE d \in S : TRUE
  <2>1. d \in S
    BY <1>3
  <2> HIDE DEF d
  <2>2. RowSum(f, S) = RowDuration(f, d) + RowSum(f, S \ {d})
    BY <1>1, <2>1, RowSumStep
  <2> QED BY <1>3, <2>2 DEF d
<1>4. sums = Rec(sums)
  BY <1>2, <1>3
<1>5. MapThenSumSet(LAMBDA d : RowDuration(f, d), days) = sum[days]
  BY DEF MapThenSumSet, MapThenFoldSet
<1>6. sum = Rec(sum)
  BY <1>4
<1> HIDE DEF sum
<1> DEFINE Differ == {S \in SUBSET days : sum[S] # sums[S]}
<1>7. ASSUME Differ # {}
      PROVE  FALSE
  <2>1. Differ \subseteq FiniteSubsetsOf(days)
    BY <1>1 DEF FiniteSubsetsOf
  <2>2. PICK S \in Differ : \A T \in Differ : <<T, S>> \notin StrictSubsetOrdering(days)
    <3> HIDE DEF Differ
    <3> QED BY <1>7, <2>1, FS_StrictSubsetOrderingWellFounded, WFMin
  <2>3. \A T \in SUBSET days : T \subseteq S /\ T # S => sum[T] = sums[T]
    BY <2>2 DEF StrictSubsetOrdering
  <2>4. S # {}
    BY <1>2, <1>6, <2>2
  <2> DEFINE d == CHOOSE d \in S : TRUE
  <2>5. d \in S
    BY <2>4
  <2>6. sum[S] = RowDuration(f, d) + sum[S \ {d}]
    BY <1>6, <2>2, <2>4
  <2>7. sums[S] = RowDuration(f, d) + sums[S \ {d}]
    BY <1>3, <2>2, <2>4
  <2> HIDE DEF d, sums
  <2>8. sum[S \ {d}] = sums[S \ {d}]
    BY <2>2, <2>3, <2>5
  <2> QED BY <2>2, <2>6, <2>7, <2>8
<1> QED BY <1>5, <1>7

-----------------------------------------------------------------------------
(* How a request is measured.                                              *)

Working(f) == {d \in f.from .. f.to : ~IsWeekend(d)}

\* The duration of f by the calendar c.
DurationBy(f, c) ==
    LET n == 2 * (Cardinality(Working(f)) - Cardinality({d \in Working(f) : d \in c}))
             - Half(f.halfFrom) - Half(f.halfTo)
    IN  IF n < 0 THEN 0 ELSE n

\* What the validations leave through.
WellFormed(f) == f.from <= f.to /\ ~(f.from = f.to /\ f.halfFrom /\ f.halfTo)

RequestRow ==
    [form : Forms, duration : Int, violations : SUBSET ConstraintNames, active : BOOLEAN,
     measuredBy : SUBSET Nat]

\* The inductive invariant: a request keeps the duration of its days by the
\* calendar of the day it was made, of which no entry is ever removed.
MeasuredInv ==
    /\ calendar \subseteq Nat
    /\ requests \subseteq RequestRow
    /\ \A r \in requests :
          /\ WellFormed(r.form)
          /\ r.measuredBy \subseteq calendar
          /\ r.duration = DurationBy(r.form, r.measuredBy)

LEMMA DisjointCardinality ==
    ASSUME NEW S, IsFiniteSet(S), NEW T, IsFiniteSet(T), S \cap T = {}
    PROVE  Cardinality(S \cup T) = Cardinality(S) + Cardinality(T)
<1>1. Cardinality(S \cup T) = Cardinality(S) + Cardinality(T) - Cardinality(S \cap T)
  BY FS_Union
<1>2. Cardinality(S \cap T) = 0
  BY FS_EmptySet
<1> QED BY <1>1, <1>2, FS_CardinalityType

LEMMA FormType ==
    ASSUME NEW f \in Forms
    PROVE  /\ f.from \in Nat /\ f.to \in Nat
           /\ f.halfFrom \in BOOLEAN /\ f.halfTo \in BOOLEAN
<1>1. Dates \subseteq Nat
  BY ConstraintAssumption
<1>2. /\ f.from \in Dates /\ f.to \in Dates
      /\ f.halfFrom \in BOOLEAN /\ f.halfTo \in BOOLEAN
  BY DEF Forms
<1> QED BY <1>1, <1>2

LEMMA WorkingFinite ==
    ASSUME NEW f \in Forms, NEW c
    PROVE  /\ IsFiniteSet(Working(f)) /\ Cardinality(Working(f)) \in Nat
           /\ Cardinality({d \in Working(f) : d \in c}) \in Nat
           /\ Cardinality(Working(f) \ c)
                = Cardinality(Working(f)) - Cardinality({d \in Working(f) : d \in c})
<1>1. f.from \in Int /\ f.to \in Int
  BY FormType
<1>2. IsFiniteSet(Working(f))
  BY <1>1, FS_Interval, FS_Subset DEF Working
<1>3. {d \in Working(f) : d \in c} = Working(f) \cap c
  OBVIOUS
<1> QED BY <1>2, <1>3, FS_Intersection, FS_Difference, FS_CardinalityType

LEMMA DurationType ==
    ASSUME NEW f \in Forms
    PROVE  Duration(f) = DurationBy(f, calendar) /\ DurationBy(f, calendar) \in Int
<1>1. {d \in (f.from .. f.to) \cap calendar : ~IsWeekend(d)} = {d \in Working(f) : d \in calendar}
  BY DEF Working
<1>2. Duration(f) = DurationBy(f, calendar)
  BY <1>1 DEF Duration, DurationBy, Working
<1>3. Half(f.halfFrom) \in Int /\ Half(f.halfTo) \in Int
  BY DEF Half
<1>4. /\ Cardinality(Working(f)) \in Nat
      /\ Cardinality({d \in Working(f) : d \in calendar}) \in Nat
  BY WorkingFinite
<1> QED BY <1>2, <1>3, <1>4 DEF DurationBy

LEMMA MeasuredInit == ConstraintInit => MeasuredInv
BY ConstraintAssumption DEF ConstraintInit, MeasuredInv

LEMMA SubmitKeepsMeasured ==
    ASSUME MeasuredInv, NEW f \in Forms, Submit(f)
    PROVE  MeasuredInv'
<1> DEFINE new == [form |-> f, duration |-> Duration(f), violations |-> Violations(f),
                   active |-> Violations(f) = {}, measuredBy |-> calendar]
<1>1. new \in RequestRow
  BY DurationType DEF RequestRow, Violations, MeasuredInv
<1>2. /\ new.measuredBy \subseteq calendar
      /\ WellFormed(new.form)
      /\ new.duration = DurationBy(new.form, new.measuredBy)
  BY DurationType DEF Submit, Valid, WellFormed
<1>3. requests' = requests \cup {new} /\ calendar' = calendar
  BY DEF Submit
<1> HIDE DEF new
<1> QED BY <1>1, <1>2, <1>3 DEF MeasuredInv

LEMMA ConfirmKeepsMeasured ==
    ASSUME MeasuredInv, NEW r \in requests, Confirm(r)
    PROVE  MeasuredInv'
<1> DEFINE new == [r EXCEPT !.active = TRUE]
<1>1. /\ new \in RequestRow
      /\ new.form = r.form /\ new.duration = r.duration /\ new.measuredBy = r.measuredBy
  BY DEF MeasuredInv, RequestRow
<1>2. requests' = (requests \ {r}) \cup {new} /\ calendar' = calendar
  BY DEF Confirm
<1> HIDE DEF new
<1> QED BY <1>1, <1>2 DEF MeasuredInv

LEMMA MeasuredNext == MeasuredInv /\ [ConstraintNext]_constraintVars => MeasuredInv'
<1> SUFFICES ASSUME MeasuredInv, [ConstraintNext]_constraintVars PROVE MeasuredInv'
  OBVIOUS
<1>1. ASSUME NEW d \in LateHolidays, EnterHoliday(d)
      PROVE  MeasuredInv'
  <2>1. d \in Nat
    BY ConstraintAssumption
  <2> QED BY <1>1, <2>1 DEF EnterHoliday, MeasuredInv
<1>2. CASE DayPasses \/ UNCHANGED constraintVars
  BY <1>2 DEF DayPasses, constraintVars, MeasuredInv
<1> QED
  BY <1>1, <1>2, SubmitKeepsMeasured, ConfirmKeepsMeasured DEF ConstraintNext

-----------------------------------------------------------------------------
(* The rows of a request that is measured so.                              *)

\* The half days that are taken, and those booked on days off, are the half
\* days of the form.
LEMMA HalvesAreTakenOrOff ==
    ASSUME NEW f \in Forms, WellFormed(f), NEW c
    PROVE  LET off(d) == IsWeekend(d) \/ d \in c
           IN  Cardinality((Working(f) \ c) \cap HalfDays(f))
                 = Half(f.halfFrom) + Half(f.halfTo)
                   - Half(f.halfFrom /\ off(f.from)) - Half(f.halfTo /\ off(f.to))
<1> DEFINE off(d) == IsWeekend(d) \/ d \in c
           first == IF f.halfFrom /\ ~off(f.from) THEN {f.from} ELSE {}
           last == IF f.halfTo /\ ~off(f.to) THEN {f.to} ELSE {}
<1>1. f.from \in Int /\ f.to \in Int /\ f.halfFrom \in BOOLEAN /\ f.halfTo \in BOOLEAN
  BY FormType
<1>2. f.from \in f.from .. f.to /\ f.to \in f.from .. f.to
  BY <1>1 DEF WellFormed
<1>3. HalfDays(f) = {d \in {f.from, f.to} : (d = f.from /\ f.halfFrom) \/ (d = f.to /\ f.halfTo)}
  BY DEF HalfDays, RowDuration
<1>4. (Working(f) \ c) \cap HalfDays(f) = first \cup last
  BY <1>2, <1>3 DEF Working
<1>5. first \cap last = {}
  BY DEF WellFormed
<1>6. /\ IsFiniteSet(first) /\ Cardinality(first) = Half(f.halfFrom /\ ~off(f.from))
      /\ IsFiniteSet(last) /\ Cardinality(last) = Half(f.halfTo /\ ~off(f.to))
  BY FS_EmptySet, FS_Singleton DEF Half
<1> HIDE DEF first, last
<1>7. Cardinality(first \cup last) = Cardinality(first) + Cardinality(last)
  BY <1>5, <1>6, FS_Union, FS_EmptySet DEF Half
<1> HIDE DEF off
<1>8. Cardinality(first \cup last) = Half(f.halfFrom) + Half(f.halfTo)
        - Half(f.halfFrom /\ off(f.from)) - Half(f.halfTo /\ off(f.to))
  BY <1>1, <1>6, <1>7 DEF Half
<1> QED BY <1>4, <1>8 DEF off

\* The rows taken now, and those on which holidays were entered since, are the
\* working days by the calendar of then.
LEMMA RowsTakenAndLate ==
    ASSUME MeasuredInv, NEW r \in requests
    PROVE  DaysTaken(r.form, r.form.to)
             + MapThenSumSet(LAMBDA d : RowDuration(r.form, d), Late(r))
           = RowSum(r.form, Working(r.form) \ r.measuredBy)
<1> DEFINE f == r.form
           taken == {d \in f.from .. f.to : Works(d) /\ d <= f.to}
           all == Working(f) \ r.measuredBy
<1>1. f \in Forms /\ f.from \in Int /\ f.to \in Int /\ r.measuredBy \subseteq calendar
  BY FormType DEF MeasuredInv, RequestRow
<1>2. taken \cup Late(r) = all /\ taken \cap Late(r) = {}
  BY <1>1 DEF Late, Working, Works
<1>3. IsFiniteSet(taken) /\ IsFiniteSet(Late(r))
  BY <1>1, FS_Interval, FS_Subset DEF Late
<1>4. /\ DaysTaken(f, f.to) = RowSum(f, taken)
      /\ MapThenSumSet(LAMBDA d : RowDuration(f, d), Late(r)) = RowSum(f, Late(r))
  BY <1>3, SumOfRows DEF DaysTaken
<1> HIDE DEF f, taken, all
<1>5. Cardinality(all) = Cardinality(taken) + Cardinality(Late(r))
  BY <1>2, <1>3, DisjointCardinality
<1> DEFINE H == HalfDays(f)
<1>6. Cardinality(all \cap H) = Cardinality(taken \cap H) + Cardinality(Late(r) \cap H)
  <2>1. /\ all \cap H = (taken \cap H) \cup (Late(r) \cap H)
        /\ (taken \cap H) \cap (Late(r) \cap H) = {}
    BY <1>2
  <2>2. IsFiniteSet(taken \cap H) /\ IsFiniteSet(Late(r) \cap H)
    BY <1>3, FS_Intersection
  <2> QED BY <2>1, <2>2, DisjointCardinality
<1>7. /\ Cardinality(taken) \in Nat /\ Cardinality(Late(r)) \in Nat
      /\ Cardinality(taken \cap H) \in Nat /\ Cardinality(Late(r) \cap H) \in Nat
  BY <1>3, FS_CardinalityType, FS_Intersection
<1>8. RowSum(f, taken) + RowSum(f, Late(r)) = RowSum(f, all)
  BY <1>5, <1>6, <1>7 DEF RowSum
<1> QED BY <1>4, <1>8 DEF f, all

LEMMA MeasuredMatches == MeasuredInv => DurationMatchesDays
<1> SUFFICES ASSUME MeasuredInv, NEW r \in requests
             PROVE  LET f == r.form
                        off(d) == IsWeekend(d) \/ d \in r.measuredBy
                        taken == DaysTaken(f, f.to)
                                 + MapThenSumSet(LAMBDA d : RowDuration(f, d), Late(r))
                        onDaysOff == Half(f.halfFrom /\ off(f.from))
                                     + Half(f.halfTo /\ off(f.to))
                    IN  r.duration = IF taken < onDaysOff THEN 0 ELSE taken - onDaysOff
  BY DEF DurationMatchesDays
<1> DEFINE f == r.form
           c == r.measuredBy
           off(d) == IsWeekend(d) \/ d \in c
           taken == DaysTaken(f, f.to) + MapThenSumSet(LAMBDA d : RowDuration(f, d), Late(r))
           onDaysOff == Half(f.halfFrom /\ off(f.from)) + Half(f.halfTo /\ off(f.to))
           halves == Half(f.halfFrom) + Half(f.halfTo)
           days == Cardinality(Working(f)) - Cardinality({d \in Working(f) : d \in c})
<1>1. f \in Forms /\ WellFormed(f) /\ r.duration = DurationBy(f, c)
  BY DEF MeasuredInv, RequestRow
<1>2. taken = RowSum(f, Working(f) \ c)
  BY RowsTakenAndLate
<1>3. Cardinality((Working(f) \ c) \cap HalfDays(f)) = halves - onDaysOff
  <2>1. Cardinality((Working(f) \ c) \cap HalfDays(f))
          = Half(f.halfFrom) + Half(f.halfTo)
            - Half(f.halfFrom /\ off(f.from)) - Half(f.halfTo /\ off(f.to))
    BY <1>1, HalvesAreTakenOrOff
  <2> QED BY <2>1 DEF Half
<1>4. Cardinality(Working(f) \ c) = days /\ days \in Int
  <2> HIDE DEF f, c
  <2> QED BY <1>1, WorkingFinite
<1>5. halves \in Int /\ onDaysOff \in Int
  BY DEF Half
<1>6. r.duration = IF 2 * days - halves < 0 THEN 0 ELSE 2 * days - halves
  BY <1>1, <1>4 DEF DurationBy, Half
<1>7. taken = 2 * days - (halves - onDaysOff)
  BY <1>2, <1>3, <1>4 DEF RowSum
<1> HIDE DEF taken, days, halves, onDaysOff
<1>8. r.duration = IF taken < onDaysOff THEN 0 ELSE taken - onDaysOff
  BY <1>4, <1>5, <1>6, <1>7
<1> QED BY <1>8 DEF taken, onDaysOff

(***************************************************************************)
(* The duration that is shown to the approver and measured by the          *)
(* constraints is what the rows of the request take from the balance, but  *)
(* for half days booked on days off and for holidays that were entered     *)
(* since: for any range of dates, any weekends and holidays in it, any     *)
(* half days at its ends, and any settings of the leave type.              *)
(***************************************************************************)
THEOREM DurationCorrect == ConstraintSpec => []DurationMatchesDays
BY MeasuredInit, MeasuredNext, MeasuredMatches, PTL DEF ConstraintSpec

-----------------------------------------------------------------------------
(* The calendar of LeaveCycles.                                            *)

LEMMA YearHoldsDay ==
    ASSUME NEW d \in Nat
    PROVE  /\ Year(d) \in Nat
           /\ YearStart(Year(d)) <= d /\ d < YearStart(Year(d) + 1)
BY DEF Year, YearStart

LEMMA YearStep ==
    ASSUME NEW d \in Nat
    PROVE  \/ Year(d + 1) = Year(d)
           \/ Year(d + 1) = Year(d) + 1 /\ d + 1 = YearStart(Year(d) + 1)
BY DEF Year, YearStart

LEMMA DayInYear ==
    ASSUME NEW c \in 0 .. 365, c # 59, NEW y \in Int
    PROVE  /\ DayIn(c, y) \in Int /\ YearStart(y) \in Int
           /\ YearStart(y) <= DayIn(c, y) /\ DayIn(c, y) < YearStart(y + 1)
           /\ DayIn(c, y + 1) - DayIn(c, y) \in 365 .. 366
BY DEF DayIn, YearStart, IsLeap

LEMMA TypeFields ==
    ASSUME NEW t \in Types
    PROVE  /\ t.annual \in BOOLEAN /\ t.day \in 0 .. 365 /\ t.day # 59
           /\ Length(t) \in Nat /\ Length(t) >= 4
<1>1. /\ t.annual \in BOOLEAN /\ t.day \in 0 .. 365 \ {59}
      /\ t.unit \in Units /\ t.n \in Nat \ {0}
  BY CycleAssumption
<1> QED BY <1>1 DEF Length, Units

\* The day of every year on which annual cycles begin.
LEMMA CycleDay ==
    ASSUME NEW t \in Types, NEW y \in Int
    PROVE  /\ DayIn(t.day, y) \in Int /\ YearStart(y) \in Int
           /\ YearStart(y) <= DayIn(t.day, y) /\ DayIn(t.day, y) < YearStart(y + 1)
           /\ DayIn(t.day, y + 1) - DayIn(t.day, y) \in 365 .. 366
<1>1. t.day \in 0 .. 365 /\ t.day # 59
  BY TypeFields
<1> QED BY <1>1, DayInYear

\* The first day that counts: nobody is employed before it.
LEMMA PersonFields ==
    ASSUME NEW p \in People
    PROVE  /\ \E b \in Nat : Begins(p) = Midnight(b)
           /\ p.takeOn # NoDate => p.takeOn \in Nat /\ Begins(p) = Midnight(p.takeOn)
           /\ \A d \in Nat : Before(p, Midnight(d)) <=> Midnight(d) < Begins(p)
<1>1. p.start \in Nat /\ (p.takeOn # NoDate => p.takeOn \in Nat /\ p.takeOn >= p.start)
  BY CycleAssumption
<1> QED BY <1>1 DEF Begins, Before, Midnight, NoDate

-----------------------------------------------------------------------------
(* Annual leave.                                                           *)

\* The last day on or before d on which annual cycles begin.
Anniversary(t, d) ==
    IF DayIn(t.day, Year(d)) > d THEN DayIn(t.day, Year(d) - 1) ELSE DayIn(t.day, Year(d))

LEMMA AnniversaryBound ==
    ASSUME NEW t \in Types, NEW d \in Nat
    PROVE  /\ Anniversary(t, d) \in Int
           /\ Anniversary(t, d) <= d /\ d < Anniversary(t, d) + 366
<1> DEFINE y == Year(d)
<1>1. y \in Int /\ y - 1 \in Int /\ (y - 1) + 1 = y
  BY YearHoldsDay
<1>2. YearStart(y) <= d /\ d < YearStart(y + 1)
  BY YearHoldsDay
<1> HIDE DEF y
<1>3. /\ DayIn(t.day, y) \in Int /\ DayIn(t.day, y - 1) \in Int /\ DayIn(t.day, y + 1) \in Int
      /\ YearStart(y) \in Int /\ YearStart(y + 1) \in Int
      /\ DayIn(t.day, y - 1) < YearStart(y) /\ YearStart(y + 1) <= DayIn(t.day, y + 1)
      /\ DayIn(t.day, y) - DayIn(t.day, y - 1) \in 365 .. 366
      /\ DayIn(t.day, y + 1) - DayIn(t.day, y) \in 365 .. 366
  <2>1. y + 1 \in Int
    BY <1>1
  <2> QED BY <1>1, <2>1, CycleDay
<1>4. Anniversary(t, d) = IF DayIn(t.day, y) > d THEN DayIn(t.day, y - 1) ELSE DayIn(t.day, y)
  BY DEF Anniversary, y
<1> QED BY <1>2, <1>3, <1>4

LEMMA AnniversaryStep ==
    ASSUME NEW t \in Types, NEW d \in Nat
    PROVE  \/ Anniversary(t, d + 1) = Anniversary(t, d)
           \/ Anniversary(t, d + 1) = d + 1 /\ Anniversary(t, d) < d + 1
<1> DEFINE y == Year(d)
<1>1. y \in Int /\ YearStart(y) <= d /\ d < YearStart(y + 1)
  BY YearHoldsDay
<1>2. Year(d + 1) = y \/ (Year(d + 1) = y + 1 /\ d + 1 = YearStart(y + 1))
  BY YearStep
<1>3. Anniversary(t, d) = IF DayIn(t.day, y) > d THEN DayIn(t.day, y - 1) ELSE DayIn(t.day, y)
  BY DEF Anniversary
<1> HIDE DEF y
<1>4. /\ DayIn(t.day, y) \in Int /\ DayIn(t.day, y + 1) \in Int
      /\ YearStart(y) \in Int /\ YearStart(y + 1) \in Int
      /\ DayIn(t.day, y) < YearStart(y + 1) /\ YearStart(y + 1) <= DayIn(t.day, y + 1)
  <2>1. y + 1 \in Int
    BY <1>1
  <2> QED BY <1>1, <2>1, CycleDay
<1>5. Anniversary(t, d) \in Int /\ Anniversary(t, d) <= d
  BY AnniversaryBound
<1>6. CASE Year(d + 1) = y
  <2>1. Anniversary(t, d + 1)
          = IF DayIn(t.day, y) > d + 1 THEN DayIn(t.day, y - 1) ELSE DayIn(t.day, y)
    BY <1>6 DEF Anniversary
  <2> QED BY <1>3, <1>4, <1>5, <2>1
<1>7. CASE Year(d + 1) = y + 1 /\ d + 1 = YearStart(y + 1)
  <2>1. Anniversary(t, d + 1)
          = IF DayIn(t.day, y + 1) > d + 1 THEN DayIn(t.day, y) ELSE DayIn(t.day, y + 1)
    <3>1. (y + 1) - 1 = y
      BY <1>1
    <3> QED BY <1>7, <3>1 DEF Anniversary
  <2> QED BY <1>1, <1>3, <1>4, <1>5, <1>7, <2>1
<1> QED BY <1>2, <1>6, <1>7

\* A cycle of a year at least holds the first day of everybody who began in it,
\* so the start of a cycle is its anniversary or that day, whichever is later.
LEMMA AnnualStartIs ==
    ASSUME NEW t \in Types, Length(t) >= 1461, NEW p \in People, NEW d \in Nat,
           Midnight(d) >= Begins(p)
    PROVE  AnnualStart(t, p, Midnight(d))
             = IF Begins(p) > Midnight(Anniversary(t, d)) THEN Begins(p)
               ELSE Midnight(Anniversary(t, d))
<1> DEFINE y == Year(d)
           a == Anniversary(t, d)
<1>1. DayOf(Midnight(d)) = d
  BY DEF DayOf, Midnight
<1>2. ~Before(p, Midnight(d))
  <2>1. Begins(p) \in Int /\ Midnight(d) \in Int
    BY PersonFields DEF Midnight
  <2> QED BY <2>1, PersonFields
<1>3. a \in Int /\ a <= d /\ d < a + 366 /\ Length(t) \in Int
  BY AnniversaryBound, TypeFields
<1>4. /\ DayIn(t.day, y) \in Int /\ DayIn(t.day, y - 1) \in Int
  <2>1. y \in Int /\ y - 1 \in Int
    BY YearHoldsDay
  <2> HIDE DEF y
  <2> QED BY <2>1, CycleDay
<1>5. (IF Midnight(DayIn(t.day, y)) > Midnight(d) THEN Midnight(DayIn(t.day, y - 1))
       ELSE Midnight(DayIn(t.day, y))) = Midnight(a)
  BY <1>4 DEF Midnight, Anniversary
<1>6. AnnualStart(t, p, Midnight(d))
        = IF Begins(p) > Midnight(a) /\ Begins(p) < Midnight(a) + Length(t) THEN Begins(p)
          ELSE Midnight(a)
  BY <1>1, <1>2, <1>5 DEF AnnualStart
<1> HIDE DEF a
<1>7. Begins(p) > Midnight(a) => Begins(p) < Midnight(a) + Length(t)
  <2>1. PICK b \in Nat : Begins(p) = Midnight(b)
    BY PersonFields
  <2> QED BY <1>3, <2>1 DEF Midnight
<1> QED BY <1>6, <1>7 DEF a

-----------------------------------------------------------------------------
(* Other leave.                                                            *)

LEMMA DivisionBound ==
    ASSUME NEW n \in Nat \ {0}, NEW x \in Nat
    PROVE  /\ x \div n \in Nat
           /\ n * (x \div n) <= x /\ x < n * (x \div n) + n
OBVIOUS

LEMMA LaterMultiple ==
    ASSUME NEW n \in Nat \ {0}, NEW i \in Nat, NEW j \in Nat, n * i < n * j + n
    PROVE  i <= j
OBVIOUS

\* The division that the loop of RollOn comes down to, from every moment.
Divided(n, q) == [m \in Int |-> IF q >= m THEN m + n * ((q - m) \div n) ELSE m]

LEMMA DivisionStep ==
    ASSUME NEW n \in Nat \ {0}, NEW x \in Nat
    PROVE  /\ x < n => n * (x \div n) = 0
           /\ x >= n => n * (x \div n) = n + n * ((x - n) \div n)
<1> DEFINE i == x \div n
<1>1. i \in Nat /\ n * i \in Nat /\ n * i <= x /\ x < n * i + n
  BY DivisionBound
<1> HIDE DEF i
<1>2. CASE x < n
  <2>1. n * 0 = 0 /\ n * i < n * 0 + n
    BY <1>1, <1>2
  <2>2. i <= 0
    BY <1>1, <2>1, LaterMultiple
  <2>3. i = 0
    BY <1>1, <2>2
  <2> QED BY <1>2, <2>1, <2>3 DEF i
<1>3. CASE x >= n
  <2> DEFINE j == (x - n) \div n
  <2>1. x - n \in Nat
    BY <1>3
  <2>2. j \in Nat /\ n * j \in Nat /\ n * j <= x - n /\ x - n < n * j + n
    BY <2>1, DivisionBound
  <2> HIDE DEF j
  <2>3. n * (j + 1) = n * j + n /\ j + 1 \in Nat
    BY <2>2
  <2>4. i <= j + 1
    BY <1>1, <2>2, <2>3, LaterMultiple
  <2>5. j + 1 <= i
    BY <1>1, <2>2, <2>3, LaterMultiple
  <2>6. i = j + 1
    BY <1>1, <2>2, <2>4, <2>5
  <2> QED BY <1>3, <2>2, <2>3, <2>6 DEF i, j
<1> QED BY <1>2, <1>3

\* The loop ends, in the cycle that holds q: there is a function that satisfies
\* its equation, and going back from q, the first moment for which such a
\* function gave anything else would have a successor for which it does not.
LEMMA RollOnEnds ==
    ASSUME NEW t \in Types, NEW q \in Nat, NEW s \in Nat, s <= q
    PROVE  \E k \in Nat :
              /\ RollOn(t, s, q) = s + Length(t) * k
              /\ s + Length(t) * k <= q /\ q < s + Length(t) * k + Length(t)
<1> DEFINE n == Length(t)
           Rec(g) == [m \in Int |-> IF q >= m + Length(t) THEN g[m + Length(t)] ELSE m]
           from == CHOOSE g : g = Rec(g)
           Holds(m) == \E k \in Nat : /\ from[m] = m + n * k
                                      /\ m + n * k <= q /\ q < m + n * k + n
           Bad == {x \in Nat : ~Holds(q - x)}
<1>1. n \in Nat \ {0}
  BY TypeFields
<1>2. Divided(n, q) = Rec(Divided(n, q))
  <2>1. ASSUME NEW m \in Int
        PROVE  Divided(n, q)[m] = IF q >= m + n THEN Divided(n, q)[m + n] ELSE m
    <3> HIDE DEF n
    <3>1. m + n \in Int
      BY <1>1
    <3>2. CASE q >= m + n
      <4> DEFINE here == n * ((q - m) \div n)
                 there == n * ((q - m - n) \div n)
      <4>1. q - m \in Nat /\ q - m >= n /\ q >= m /\ q - (m + n) = q - m - n
        BY <1>1, <3>2
      <4>2. here = n + there
        BY <1>1, <4>1, DivisionStep
      <4>3. Divided(n, q)[m] = m + here
        BY <4>1 DEF Divided
      <4>4. Divided(n, q)[m + n] = m + n + there
        BY <3>1, <3>2, <4>1 DEF Divided
      <4>5. there \in Int
        <5>1. q - m - n \in Nat
          BY <1>1, <4>1
        <5> QED BY <1>1, <5>1, DivisionBound
      <4> HIDE DEF here, there
      <4> QED BY <1>1, <3>2, <4>2, <4>3, <4>4, <4>5
    <3>3. CASE ~(q >= m + n) /\ q >= m
      <4>1. q - m \in Nat /\ q - m < n
        BY <1>1, <3>3
      <4>2. n * ((q - m) \div n) = 0
        BY <1>1, <4>1, DivisionStep
      <4>3. Divided(n, q)[m] = m + n * ((q - m) \div n)
        BY <3>3 DEF Divided
      <4> QED BY <3>3, <4>2, <4>3
    <3>4. CASE ~(q >= m)
      <4>1. ~(q >= m + n)
        BY <1>1, <3>4
      <4> QED BY <3>4, <4>1 DEF Divided
    <3> QED BY <1>1, <3>2, <3>3, <3>4
  <2>2. Divided(n, q) = [m \in Int |-> Divided(n, q)[m]]
    BY DEF Divided
  <2> HIDE DEF n
  <2>3. Divided(n, q) = [m \in Int |-> IF q >= m + n THEN Divided(n, q)[m + n] ELSE m]
    BY <2>1, <2>2
  <2> QED BY <2>3 DEF n
<1>3. RollOn(t, s, q) = from[s]
  BY DEF RollOn
<1>4. from = Rec(from)
  <2> HIDE DEF Rec
  <2> QED BY <1>2
<1>5. \A m \in Int : from[m] = IF q >= m + n THEN from[m + n] ELSE m
  <2> HIDE DEF from
  <2> QED BY <1>4
<1> HIDE DEF from, n
<1>6. ASSUME Bad # {}
      PROVE  FALSE
  <2>1. PICK x \in Bad : \A y \in Bad : x <= y
    <3>1. Bad \in SUBSET Nat
      OBVIOUS
    <3> HIDE DEF Bad
    <3> QED BY <1>6, <3>1, LeastNatural
  <2> DEFINE m == q - x
  <2>2. x \in Nat /\ m \in Int /\ m <= q /\ ~Holds(m)
    BY <2>1
  <2>3. CASE q >= m + n
    <3>1. x - n \in Nat /\ ~(x <= x - n) /\ q - (x - n) = m + n
      BY <1>1, <2>2, <2>3
    <3>2. Holds(m + n)
      BY <2>1, <3>1
    <3> HIDE DEF m
    <3>3. PICK k \in Nat : /\ from[m + n] = m + n + n * k
                           /\ m + n + n * k <= q /\ q < m + n + n * k + n
      BY <3>2
    <3>4. n * (k + 1) = n + n * k /\ k + 1 \in Nat /\ n * k \in Nat
      BY <1>1
    <3>5. m + n * (k + 1) = m + n + n * k
      BY <1>1, <2>2, <3>4
    <3> QED BY <1>5, <2>2, <2>3, <3>3, <3>4, <3>5
  <2>4. CASE ~(q >= m + n)
    <3> HIDE DEF m
    <3>1. n * 0 = 0 /\ m + n * 0 = m /\ from[m] = m
      BY <1>1, <1>5, <2>2, <2>4
    <3> QED BY <1>1, <2>2, <2>4, <3>1
  <2> QED BY <2>3, <2>4
<1>7. q - s \in Nat /\ q - (q - s) = s
  OBVIOUS
<1>8. Holds(s)
  BY <1>6, <1>7
<1> QED BY <1>3, <1>8 DEF n

LEMMA RollingStartIs ==
    ASSUME NEW t \in Types, NEW p \in People, NEW d \in Nat, Midnight(d) >= Begins(p)
    PROVE  \E k \in Nat :
              /\ RollingStart(t, p, Midnight(d)) = Begins(p) + Length(t) * k
              /\ Begins(p) + Length(t) * k <= Midnight(d)
              /\ Midnight(d) < Begins(p) + Length(t) * k + Length(t)
<1>1. Begins(p) \in Nat /\ Midnight(d) \in Nat
  BY PersonFields DEF Midnight
<1>2. RollingStart(t, p, Midnight(d)) = RollOn(t, Begins(p), Midnight(d))
  BY <1>1 DEF RollingStart
<1> QED BY <1>1, <1>2, RollOnEnds

-----------------------------------------------------------------------------
(* From one date to the next.                                              *)

LEMMA NoCycleBefore ==
    ASSUME NEW t \in Types, NEW p \in People, NEW d \in Nat, Midnight(d) < Begins(p)
    PROVE  CycleStart(t, p, Midnight(d)) = NoDate
<1>1. Before(p, Midnight(d))
  BY PersonFields
<1> QED BY <1>1 DEF CycleStart, AnnualStart, RollingStart

LEMMA CycleHoldsDate ==
    ASSUME NEW t \in Types, t.annual => Length(t) >= 1461,
           NEW p \in People, NEW d \in Nat, Midnight(d) >= Begins(p)
    PROVE  /\ CycleStart(t, p, Midnight(d)) \in Nat
           /\ Begins(p) <= CycleStart(t, p, Midnight(d))
           /\ CycleStart(t, p, Midnight(d)) <= Midnight(d)
<1>1. Begins(p) \in Nat /\ Midnight(d) \in Nat
  BY PersonFields DEF Midnight
<1>2. CASE t.annual
  <2>1. CycleStart(t, p, Midnight(d))
          = IF Begins(p) > Midnight(Anniversary(t, d)) THEN Begins(p)
            ELSE Midnight(Anniversary(t, d))
    BY <1>2, AnnualStartIs DEF CycleStart
  <2>2. Midnight(Anniversary(t, d)) \in Int /\ Midnight(Anniversary(t, d)) <= Midnight(d)
    BY AnniversaryBound DEF Midnight
  <2> QED BY <1>1, <2>1, <2>2
<1>3. CASE ~t.annual
  <2>1. PICK k \in Nat :
           /\ CycleStart(t, p, Midnight(d)) = Begins(p) + Length(t) * k
           /\ Begins(p) + Length(t) * k <= Midnight(d)
    BY <1>3, RollingStartIs DEF CycleStart
  <2>2. Length(t) * k \in Nat
    BY TypeFields
  <2> QED BY <1>1, <2>1, <2>2
<1> QED BY <1>2, <1>3

\* The next date is in the same cycle, or in one that begins on it.
NextCycle(t, p, d) ==
    LET now == CycleStart(t, p, Midnight(d))
        next == CycleStart(t, p, Midnight(d + 1))
    IN  \/ next = now
        \/ next > now /\ next = Midnight(d + 1)

LEMMA AnnualNext ==
    ASSUME NEW t \in Types, t.annual, Length(t) >= 1461, NEW p \in People, NEW d \in Nat,
           Midnight(d) >= Begins(p)
    PROVE  NextCycle(t, p, d)
<1> DEFINE a == Anniversary(t, d)
           b == Anniversary(t, d + 1)
<1>1. Begins(p) \in Nat /\ d + 1 \in Nat
  BY PersonFields DEF Midnight
<1>2. Midnight(d + 1) >= Begins(p)
  BY <1>1 DEF Midnight
<1>3. CycleStart(t, p, Midnight(d)) = IF Begins(p) > Midnight(a) THEN Begins(p) ELSE Midnight(a)
  BY AnnualStartIs DEF CycleStart
<1>4. CycleStart(t, p, Midnight(d + 1))
        = IF Begins(p) > Midnight(b) THEN Begins(p) ELSE Midnight(b)
  BY <1>1, <1>2, AnnualStartIs DEF CycleStart
<1>5. a \in Int /\ a <= d /\ (b = a \/ (b = d + 1 /\ a < d + 1))
  BY AnniversaryBound, AnniversaryStep
<1> HIDE DEF a, b
<1> QED BY <1>1, <1>3, <1>4, <1>5 DEF NextCycle, Midnight

LEMMA RollingNext ==
    ASSUME NEW t \in Types, ~t.annual, Length(t) % 4 = 0, NEW p \in People, NEW d \in Nat,
           Midnight(d) >= Begins(p)
    PROVE  NextCycle(t, p, d)
<1> DEFINE n == Length(t)
<1>1. Begins(p) \in Nat /\ d + 1 \in Nat /\ n \in Nat \ {0}
  BY PersonFields, TypeFields DEF Midnight
<1>2. Midnight(d) \in Nat /\ Midnight(d + 1) = Midnight(d) + 4
  BY DEF Midnight
<1>3. PICK i \in Nat :
         /\ CycleStart(t, p, Midnight(d)) = Begins(p) + n * i
         /\ Begins(p) + n * i <= Midnight(d) /\ Midnight(d) < Begins(p) + n * i + n
  BY RollingStartIs DEF CycleStart
<1>4. PICK j \in Nat :
         /\ CycleStart(t, p, Midnight(d + 1)) = Begins(p) + n * j
         /\ Begins(p) + n * j <= Midnight(d + 1) /\ Midnight(d + 1) < Begins(p) + n * j + n
  BY <1>1, <1>2, RollingStartIs DEF CycleStart
<1>5. n % 4 = 0
  OBVIOUS
<1> HIDE DEF n
<1>6. n * i \in Nat /\ n * j \in Nat
  BY <1>1
<1>7. i <= j
  BY <1>1, <1>2, <1>3, <1>4, <1>6, LaterMultiple
<1>8. CASE i = j
  BY <1>3, <1>4, <1>8 DEF NextCycle
<1>9. CASE i < j
  <2>1. n * i + n <= n * j
    BY <1>1, <1>9
  <2>2. \E m \in Int : Begins(p) + n * j = 4 * m
    <3>1. PICK b \in Nat : Begins(p) = 4 * b
      BY PersonFields DEF Midnight
    <3>2. n = 4 * (n \div 4) /\ n \div 4 \in Nat
      BY <1>1, <1>5
    <3>3. n * j = 4 * ((n \div 4) * j)
      <4> DEFINE w == n \div 4
      <4> HIDE DEF w
      <4>1. n = 4 * w /\ w \in Nat
        BY <3>2 DEF w
      <4>2. (4 * w) * j = 4 * (w * j)
        BY <4>1
      <4> QED BY <4>1, <4>2 DEF w
    <3>4. (n \div 4) * j \in Int
      BY <3>2
    <3> HIDE DEF n
    <3> DEFINE x == (n \div 4) * j
    <3> HIDE DEF x
    <3>5. x \in Int /\ n * j = 4 * x
      BY <3>3, <3>4 DEF x
    <3>6. Begins(p) + n * j = 4 * (b + x) /\ b + x \in Int
      BY <3>1, <3>5
    <3> QED BY <3>6
  <2>3. Begins(p) + n * j = Midnight(d + 1)
    <3>1. PICK m \in Int : Begins(p) + n * j = 4 * m
      BY <2>2
    <3>2. Midnight(d) < Begins(p) + n * j
      BY <1>1, <1>2, <1>3, <1>6, <2>1
    <3>3. Begins(p) + n * j <= Midnight(d + 1)
      BY <1>4
    <3> DEFINE x == Begins(p) + n * j
    <3> HIDE DEF x
    <3>4. 4 * d < x /\ x <= 4 * (d + 1) /\ x = 4 * m
      BY <3>1, <3>2, <3>3 DEF Midnight, x
    <3>5. x = 4 * (d + 1)
      BY <3>4
    <3> QED BY <3>5 DEF Midnight, x
  <2>4. CycleStart(t, p, Midnight(d)) < CycleStart(t, p, Midnight(d + 1))
    BY <1>1, <1>3, <1>4, <1>6, <2>1
  <2>5. CycleStart(t, p, Midnight(d + 1)) = Midnight(d + 1)
    BY <1>4, <2>3
  <2> QED BY <2>4, <2>5 DEF NextCycle
<1> QED BY <1>7, <1>8, <1>9

CycleInv == type \in Types /\ person \in People /\ asAt \in Nat

LEMMA CycleInvariant == CycleSpec => []CycleInv
<1>1. CycleInit => CycleInv
  BY CycleAssumption DEF CycleInit, CycleInv
<1>2. CycleInv /\ [DatePasses]_cycleVars => CycleInv'
  BY DEF CycleInv, DatePasses, cycleVars
<1> QED BY <1>1, <1>2, PTL DEF CycleSpec

(***************************************************************************)
(* Cycles of annual leave, and rolling cycles of whole days, follow on     *)
(* each other without a gap, never go back, and begin on the first date    *)
(* that falls into them: for any first days and take-on dates, for ever.   *)
(***************************************************************************)
THEOREM CyclesCorrect == CycleSpec => CyclesFollowOn
<1> DEFINE Follows == Yearly /\ WholeDays => /\ Start' >= Start
                                             /\ Employed' <=> Start' # NoDate
                                             /\ Start' # Start => Start' = Midnight(asAt')
<1>1. ASSUME CycleInv, DatePasses, Yearly, WholeDays
      PROVE  /\ Start' >= Start
             /\ Employed' <=> Start' # NoDate
             /\ Start' # Start => Start' = Midnight(asAt')
  <2> DEFINE t == type
             p == person
             d == asAt
  <2>1. t \in Types /\ p \in People /\ d \in Nat /\ d + 1 \in Nat
    BY <1>1 DEF CycleInv
  <2>2. (t.annual => Length(t) >= 1461) /\ (~t.annual => Length(t) % 4 = 0)
    BY <1>1 DEF Yearly, WholeDays
  <2>3. /\ Start = CycleStart(t, p, Midnight(d))
        /\ Start' = CycleStart(t, p, Midnight(d + 1))
        /\ asAt' = d + 1
        /\ Employed' <=> Midnight(d + 1) >= Begins(p)
    BY <1>1 DEF DatePasses, Start, Employed
  <2> HIDE DEF t, p, d
  <2>4. Begins(p) \in Nat /\ Midnight(d) \in Nat /\ Midnight(d + 1) = Midnight(d) + 4
    BY <2>1, PersonFields DEF Midnight
  <2>5. CASE Midnight(d) >= Begins(p)
    <3>1. Midnight(d + 1) >= Begins(p)
      BY <2>4, <2>5
    <3>2. Start \in Nat /\ Start' \in Nat
      BY <2>1, <2>2, <2>3, <2>5, <3>1, CycleHoldsDate
    <3>3. NextCycle(t, p, d)
      BY <2>1, <2>2, <2>5, AnnualNext, RollingNext, TypeFields
    <3> QED BY <2>3, <3>1, <3>2, <3>3 DEF NextCycle, NoDate
  <2>6. CASE Midnight(d) < Begins(p) /\ Midnight(d + 1) >= Begins(p)
    <3>1. Start = NoDate
      BY <2>1, <2>3, <2>6, NoCycleBefore
    <3>2. Midnight(d + 1) = Begins(p)
      <4>1. PICK b \in Nat : Begins(p) = Midnight(b)
        BY <2>1, PersonFields
      <4> QED BY <2>1, <2>6, <4>1 DEF Midnight
    <3>3. Start' \in Nat /\ Start' = Midnight(d + 1)
      BY <2>1, <2>2, <2>3, <2>4, <2>6, <3>2, CycleHoldsDate
    <3> QED BY <2>3, <2>6, <3>1, <3>3 DEF NoDate
  <2>7. CASE Midnight(d + 1) < Begins(p)
    <3>1. Midnight(d) < Begins(p)
      BY <2>4, <2>7
    <3>2. Start = NoDate /\ Start' = NoDate
      BY <2>1, <2>3, <2>7, <3>1, NoCycleBefore
    <3> QED BY <2>3, <2>4, <2>7, <3>2 DEF NoDate
  <2> QED BY <2>4, <2>5, <2>6, <2>7
<1>2. CycleInv /\ [DatePasses]_cycleVars => [Follows]_cycleVars
  BY <1>1
<1> QED BY <1>2, CycleInvariant, PTL DEF CycleSpec, CyclesFollowOn

(***************************************************************************)
(* A take-on balance counts once: in balances of annual leave either as    *)
(* take on or in what is carried forward, never both and never neither, in *)
(* balances of other leave, with cycles of whole days, in the first only.  *)
(***************************************************************************)
THEOREM TakeOnCorrect == CycleSpec => []TakeOnCountsOnce
<1>1. ASSUME CycleInv, Yearly, WholeDays, person.takeOn # NoDate, Employed
      PROVE  IF type.annual
             THEN CountsTakeOn(type, person, asAt) # CarriesTakeOn(type, person, asAt)
             ELSE CountsTakeOn(type, person, asAt) <=>
                     Midnight(asAt) < Begins(person) + Length(type)
  <2> DEFINE t == type
             p == person
             d == asAt
             s == CycleStart(t, p, Midnight(d))
  <2>1. t \in Types /\ p \in People /\ d \in Nat /\ (t.annual => Length(t) >= 1461)
    BY <1>1 DEF CycleInv, Yearly
  <2>2. /\ p.takeOn \in Nat /\ Begins(p) = Midnight(p.takeOn) /\ Begins(p) \in Nat
        /\ Midnight(d) >= Begins(p) /\ d >= p.takeOn
    BY <1>1, <2>1, PersonFields DEF Employed, Midnight
  <2>3. s \in Nat /\ Begins(p) <= s
    BY <2>1, <2>2, CycleHoldsDate
  <2>4. s = CycleStart(type, person, Midnight(asAt)) /\ Start = s
    BY DEF Start
  <2>5. CASE t.annual
    <3>1. CycleEnd(t, p, Midnight(d)) = s + Length(t)
      <4>1. ~Before(p, Midnight(d))
        BY <2>1, <2>2, PersonFields DEF Midnight
      <4> QED BY <2>5, <4>1 DEF CycleEnd, CycleStart, AnnualEnd
    <3>2. Length(t) \in Nat
      BY <2>1, TypeFields
    <3>3. CountsTakeOn(t, p, d) <=> Begins(p) = s
      <4>1. CountsTakeOn(t, p, d) <=> Begins(p) >= s /\ Begins(p) <= s + Length(t)
        BY <1>1, <2>2, <3>1 DEF CountsTakeOn
      <4> HIDE DEF s, t, p, d
      <4> QED BY <2>2, <2>3, <3>2, <4>1
    <3>4. CarriesTakeOn(t, p, d) <=> Begins(p) <= s - 4
      BY <1>1, <2>3, <2>5 DEF CarriesTakeOn, CarriesForward, UpTo, NoDate
    <3>5. \E a \in Int : s = Midnight(a)
      BY <2>1, <2>2, <2>5, AnnualStartIs, AnniversaryBound DEF CycleStart
    <3>6. Begins(p) = s \/ Begins(p) <= s - 4
      BY <2>2, <2>3, <3>5 DEF Midnight
    <3>7. CountsTakeOn(t, p, d) <=> ~CarriesTakeOn(t, p, d)
      BY <2>3, <2>2, <3>3, <3>4, <3>6 DEF Midnight
    <3> QED BY <2>5, <3>7 DEF CountsTakeOn, CarriesTakeOn, CarriesForward
  <2>6. CASE ~t.annual
    <3>1. Begins(p) <= CycleEnd(t, p, Midnight(d))
      <4>1. \/ CycleEnd(t, p, Midnight(d)) = s + Length(t)
            \/ CycleEnd(t, p, Midnight(d)) = s + Length(t) - 4
        <5>1. Length(t) \in Nat
          BY <2>1, TypeFields
        <5>2. s = RollingStart(t, p, Midnight(d)) /\ s # NoDate
          BY <2>3, <2>6 DEF CycleStart, NoDate
        <5> HIDE DEF s, t, p, d
        <5> QED BY <2>3, <2>6, <5>1, <5>2 DEF CycleEnd, RollingEnd
      <4> QED BY <2>1, <2>2, <2>3, <4>1, TypeFields DEF Midnight
    <3>2. CountsTakeOn(t, p, d) <=> Begins(p) = s
      BY <1>1, <2>2, <2>3, <3>1 DEF CountsTakeOn, Midnight
    <3>3. Begins(p) = s <=> Midnight(d) < Begins(p) + Length(t)
      <4> DEFINE n == Length(t)
      <4>1. PICK k \in Nat : /\ s = Begins(p) + n * k
                             /\ s <= Midnight(d) /\ Midnight(d) < s + n
        BY <2>1, <2>2, <2>6, RollingStartIs DEF CycleStart
      <4>2. n \in Nat \ {0} /\ Midnight(d) \in Nat
        BY <2>1, TypeFields DEF Midnight
      <4> HIDE DEF n, s
      <4>3. CASE k = 0
        <5>1. n * k = 0
          BY <4>2, <4>3
        <5> QED BY <2>2, <4>1, <4>2, <5>1 DEF n
      <4>4. CASE k # 0
        <5>1. n * k \in Nat /\ n * k >= n
          BY <4>2, <4>4
        <5> QED BY <2>2, <4>1, <4>2, <5>1 DEF n
      <4> QED BY <4>3, <4>4
    <3> QED BY <2>4, <2>6, <3>2, <3>3
  <2> QED BY <2>1, <2>5, <2>6, TypeFields
<1>2. CycleInv => TakeOnCountsOnce
  BY <1>1 DEF TakeOnCountsOnce
<1> QED BY <1>2, CycleInvariant, PTL
-----------------------------------------------------------------------------
(* The annual cycle of any moment: the loop of past periods goes by        *)
(* moments that are not the beginning of a day.                            *)

LEMMA YearIs ==
    ASSUME NEW d \in Nat, NEW y \in Int, YearStart(y) <= d, d < YearStart(y + 1)
    PROVE  Year(d) = y
BY DEF Year, YearStart

\* The anniversary of a date is the only one of its year on or before it.
LEMMA AnniversaryIs ==
    ASSUME NEW t \in Types, NEW d \in Nat, NEW y \in Int,
           DayIn(t.day, y) <= d, d < DayIn(t.day, y + 1)
    PROVE  Anniversary(t, d) = DayIn(t.day, y)
<1>1. y + 1 \in Int /\ (y + 1) + 1 \in Int
  OBVIOUS
<1>2. /\ DayIn(t.day, y) \in Int /\ DayIn(t.day, y + 1) \in Int
      /\ YearStart(y) \in Int /\ YearStart(y + 1) \in Int /\ YearStart((y + 1) + 1) \in Int
      /\ YearStart(y) <= DayIn(t.day, y) /\ DayIn(t.day, y + 1) < YearStart((y + 1) + 1)
  BY <1>1, CycleDay
<1>3. CASE d < YearStart(y + 1)
  <2>1. Year(d) = y
    BY <1>2, <1>3, YearIs
  <2> QED BY <1>2, <2>1 DEF Anniversary
<1>4. CASE YearStart(y + 1) <= d
  <2>1. Year(d) = y + 1
    BY <1>1, <1>2, <1>4, YearIs
  <2>2. (y + 1) - 1 = y
    OBVIOUS
  <2> QED BY <1>2, <2>1, <2>2 DEF Anniversary
<1> QED BY <1>2, <1>3, <1>4

\* The annual cycle of a moment, which may be a fraction of a day after midnight.
LEMMA AnnualStartAt ==
    ASSUME NEW t \in Types, Length(t) >= 1461, NEW p \in People, NEW q \in Nat, q >= Begins(p)
    PROVE  /\ ~Before(p, q)
           /\ AnnualStart(t, p, q)
                = IF Begins(p) > Midnight(Anniversary(t, DayOf(q))) THEN Begins(p)
                  ELSE Midnight(Anniversary(t, DayOf(q)))
<1> DEFINE d == DayOf(q)
           y == Year(d)
           a == Anniversary(t, d)
<1>1. d \in Nat /\ 4 * d <= q /\ q < 4 * d + 4
  BY DEF DayOf
<1>2. ~Before(p, q)
  <2>1. p.start \in Nat /\ (p.takeOn # NoDate => p.takeOn \in Nat /\ p.takeOn >= p.start)
    BY CycleAssumption
  <2> QED BY <2>1 DEF Begins, Before, Midnight
<1>3. /\ y \in Int /\ y - 1 \in Int
  BY <1>1, YearHoldsDay
<1> HIDE DEF d
<1>4. a \in Int /\ a <= d /\ d < a + 366 /\ Length(t) \in Int
  BY <1>1, AnniversaryBound, TypeFields
<1>5. /\ DayIn(t.day, y) \in Int /\ DayIn(t.day, y - 1) \in Int
  <2> HIDE DEF y
  <2> QED BY <1>3, CycleDay
<1>6. (IF Midnight(DayIn(t.day, y)) > q THEN Midnight(DayIn(t.day, y - 1))
       ELSE Midnight(DayIn(t.day, y))) = Midnight(a)
  <2>1. a = IF DayIn(t.day, y) > d THEN DayIn(t.day, y - 1) ELSE DayIn(t.day, y)
    BY DEF Anniversary
  <2> HIDE DEF y, a
  <2> QED BY <1>1, <1>5, <2>1 DEF Midnight
<1>7. AnnualStart(t, p, q)
        = IF Begins(p) > Midnight(a) /\ Begins(p) < Midnight(a) + Length(t) THEN Begins(p)
          ELSE Midnight(a)
  <2> HIDE DEF a
  <2> QED BY <1>2, <1>6 DEF AnnualStart, d
<1> HIDE DEF a
<1>8. Begins(p) > Midnight(a) => Begins(p) < Midnight(a) + Length(t)
  <2>1. PICK b \in Nat : Begins(p) = Midnight(b)
    BY PersonFields
  <2> QED BY <1>1, <1>4, <2>1 DEF Midnight
<1> QED BY <1>2, <1>7, <1>8 DEF a, d

-----------------------------------------------------------------------------
(* Cycles of a year, for somebody who joined on the first day of one.      *)

\* p joined on the first day of the cycle that begins in the year y.
Joined(t, p, y) ==
    /\ t.annual /\ Length(t) = 1461
    /\ Begins(p) = Midnight(DayIn(t.day, y))

\* The first days of the cycles since then.
Turn(t, y, k) == DayIn(t.day, y + k)

LEMMA TurnStep ==
    ASSUME NEW t \in Types, NEW y \in Int, NEW k \in Nat
    PROVE  /\ Turn(t, y, k) \in Int
           /\ Turn(t, y, k + 1) - Turn(t, y, k) \in 365 .. 366
<1>1. y + k \in Int /\ y + (k + 1) = (y + k) + 1
  OBVIOUS
<1> QED BY <1>1, CycleDay DEF Turn

LEMMA TurnGrows ==
    ASSUME NEW t \in Types, NEW y \in Int, NEW i \in Nat, NEW j \in Nat, i <= j
    PROVE  Turn(t, y, i) <= Turn(t, y, j)
<1> DEFINE Bad == {x \in Nat : ~(Turn(t, y, i) <= Turn(t, y, i + x))}
<1>1. ASSUME Bad # {}
      PROVE  FALSE
  <2>1. PICK x \in Bad : \A z \in Bad : x <= z
    <3>1. Bad \in SUBSET Nat
      OBVIOUS
    <3> HIDE DEF Bad
    <3> QED BY <1>1, <3>1, LeastNatural
  <2>2. x \in Nat /\ ~(Turn(t, y, i) <= Turn(t, y, i + x))
    BY <2>1
  <2>3. CASE x = 0
    <3>1. i + x = i
      BY <2>3
    <3> QED BY <2>2, <3>1, TurnStep
  <2>4. CASE x # 0
    <3>1. x - 1 \in Nat /\ ~(x <= x - 1) /\ i + (x - 1) \in Nat /\ (i + (x - 1)) + 1 = i + x
      BY <2>2, <2>4
    <3>2. Turn(t, y, i) <= Turn(t, y, i + (x - 1))
      BY <2>1, <3>1
    <3>3. /\ Turn(t, y, i + (x - 1)) \in Int /\ Turn(t, y, i) \in Int
          /\ Turn(t, y, i + x) \in Int
          /\ Turn(t, y, i + x) - Turn(t, y, i + (x - 1)) \in 365 .. 366
      BY <2>2, <3>1, TurnStep
    <3> QED BY <2>2, <3>2, <3>3
  <2> QED BY <2>3, <2>4
<1>2. j - i \in Nat /\ i + (j - i) = j
  OBVIOUS
<1> QED BY <1>1, <1>2

\* The period that the k-th round of the loop finds.
Period(t, y, k) ==
    [from |-> IF k = 0 THEN Midnight(Turn(t, y, 0)) ELSE Midnight(Turn(t, y, k - 1)) + 1465,
     to   |-> Midnight(Turn(t, y, k)) + 1461]

\* The periods of the first n rounds.
Past(t, y, n) == {Period(t, y, k) : k \in {j \in Nat : j < n}}

LEMMA PeriodFields ==
    ASSUME NEW t \in Types, NEW p \in People, NEW y \in Int, Joined(t, p, y), NEW k \in Nat
    PROVE  /\ Period(t, y, k).from \in Nat /\ Period(t, y, k).to \in Nat
           /\ Begins(p) <= Period(t, y, k).from /\ Begins(p) \in Nat
           /\ Midnight(Turn(t, y, k)) <= Period(t, y, k).from
           /\ Period(t, y, k).from < Midnight(Turn(t, y, k)) + 8
           /\ Period(t, y, k).from < Period(t, y, k).to
           /\ Period(t, y, k).to + 4 = Period(t, y, k + 1).from
<1>0. Turn(t, y, 0) = DayIn(t.day, y)
  <2>1. y + 0 = y
    OBVIOUS
  <2> QED BY <2>1 DEF Turn
<1>1. Begins(p) \in Nat /\ Begins(p) = Midnight(Turn(t, y, 0))
  BY <1>0, PersonFields DEF Joined, Midnight
<1>2. Turn(t, y, k) \in Int /\ Turn(t, y, 0) \in Int /\ Turn(t, y, 0) <= Turn(t, y, k)
  BY TurnStep, TurnGrows
<1>3. k = 0 \/ (k - 1 \in Nat /\ (k - 1) + 1 = k)
  OBVIOUS
<1>4. k # 0 => /\ Turn(t, y, k - 1) \in Int /\ Turn(t, y, k) - Turn(t, y, k - 1) \in 365 .. 366
               /\ Turn(t, y, 0) <= Turn(t, y, k - 1)
  <2>1. k # 0 => k - 1 \in Nat
    OBVIOUS
  <2> QED BY <1>3, <2>1, TurnStep, TurnGrows
<1>5. Period(t, y, k + 1).from = Midnight(Turn(t, y, k)) + 1465
  <2>1. k + 1 # 0 /\ (k + 1) - 1 = k
    OBVIOUS
  <2> QED BY <2>1 DEF Period
<1>6. /\ Period(t, y, k).to = Midnight(Turn(t, y, k)) + 1461
      /\ Period(t, y, k).from
           = IF k = 0 THEN Midnight(Turn(t, y, 0)) ELSE Midnight(Turn(t, y, k - 1)) + 1465
  BY DEF Period
<1> QED BY <1>1, <1>2, <1>4, <1>5, <1>6 DEF Midnight

LEMMA PeriodEnds ==
    ASSUME NEW t \in Types, NEW p \in People, NEW y \in Int, Joined(t, p, y), NEW k \in Nat
    PROVE  CycleEnd(t, p, Period(t, y, k).from) = Period(t, y, k).to
<1> DEFINE q == Period(t, y, k).from
<1>1. /\ q \in Nat /\ Begins(p) <= q /\ Begins(p) \in Nat
      /\ Midnight(Turn(t, y, k)) <= q /\ q < Midnight(Turn(t, y, k)) + 8
  BY PeriodFields
<1> HIDE DEF q
<1>2. t.annual /\ Length(t) = 1461
  BY DEF Joined
<1>3. Turn(t, y, k) \in Int /\ Turn(t, y, k + 1) - Turn(t, y, k) \in 365 .. 366
      /\ Turn(t, y, k + 1) \in Int
  BY TurnStep
<1>4. DayOf(q) \in Nat /\ Turn(t, y, k) <= DayOf(q) /\ DayOf(q) < Turn(t, y, k + 1)
  BY <1>1, <1>3 DEF DayOf, Midnight
<1>5. Anniversary(t, DayOf(q)) = Turn(t, y, k)
  <2>1. y + k \in Int /\ y + (k + 1) = (y + k) + 1
    OBVIOUS
  <2> QED BY <1>4, <2>1, AnniversaryIs DEF Turn
<1>6. Begins(p) <= Midnight(Turn(t, y, k))
  <2>1. Turn(t, y, 0) <= Turn(t, y, k) /\ Turn(t, y, 0) \in Int
    BY TurnGrows, TurnStep
  <2>2. Begins(p) = Midnight(Turn(t, y, 0))
    <3>1. y + 0 = y
      OBVIOUS
    <3> QED BY <3>1 DEF Turn, Joined
  <2> QED BY <1>3, <2>1, <2>2 DEF Midnight
<1>7. ~Before(p, q) /\ AnnualStart(t, p, q) = Midnight(Turn(t, y, k))
  <2>1. Midnight(Turn(t, y, k)) \in Int
    BY <1>3 DEF Midnight
  <2> QED BY <1>1, <1>2, <1>5, <1>6, <2>1, AnnualStartAt
<1> QED BY <1>2, <1>7 DEF CycleEnd, AnnualEnd, Period, q

-----------------------------------------------------------------------------
(* The loop of past periods.                                               *)

LEMMA AnnualEndType ==
    ASSUME NEW t \in Types, t.annual, NEW p \in People, NEW q \in Int
    PROVE  CycleEnd(t, p, q) \in Int
<1> DEFINE y == Year(DayOf(q))
<1>1. Begins(p) \in Int /\ Length(t) \in Int
  BY PersonFields, TypeFields DEF Midnight
<1>2. y \in Int /\ y - 1 \in Int
  BY DEF Year, DayOf
<1> HIDE DEF y
<1>3. Midnight(DayIn(t.day, y)) \in Int /\ Midnight(DayIn(t.day, y - 1)) \in Int
  BY <1>2, CycleDay DEF Midnight
<1>4. AnnualStart(t, p, q) \in Int
  BY <1>1, <1>3 DEF AnnualStart, y, NoDate
<1> QED BY <1>1, <1>4 DEF CycleEnd, AnnualEnd, NoDate

\* f is the loop of past periods, from every moment.
Unfolds(t, p, limit, f) ==
    /\ Periods(t, p, limit) = f[Begins(p)]
    /\ \A s \in Int :
          f[s] = IF s >= limit \/ CycleEnd(t, p, s) <= s THEN {}
                 ELSE {[from |-> s, to |-> CycleEnd(t, p, s)]} \cup f[CycleEnd(t, p, s) + 4]

\* The loop of past periods does what it says, from every moment: some function
\* satisfies its equation, the one that collects the periods that begin in
\* the least set of moments which holds s and is closed under further rounds.
LEMMA LoopUnfolds ==
    ASSUME NEW t \in Types, t.annual, NEW p \in People, NEW limit \in Int
    PROVE  \E f : Unfolds(t, p, limit, f)
<1> DEFINE End(s) == CycleEnd(t, p, s)
           Goes(s) == ~(s >= limit \/ End(s) <= s)
           Rec(g) == [s \in Int |->
                        IF s >= limit \/ End(s) <= s THEN {}
                        ELSE {[from |-> s, to |-> End(s)]} \cup g[End(s) + 4]]
           from == CHOOSE g : g = Rec(g)
           Closed(X) == \A m \in X : Goes(m) => End(m) + 4 \in X
           Reach(s) == {x \in Int : \A X \in SUBSET Int : s \in X /\ Closed(X) => x \in X}
           Found(s) == {[from |-> x, to |-> End(x)] : x \in {z \in Reach(s) : Goes(z)}}
           found == [s \in Int |-> Found(s)]
<1>1. \A s \in Int : End(s) \in Int /\ End(s) + 4 \in Int
  BY AnnualEndType
<1> HIDE DEF End
<1>2. ASSUME NEW s \in Int
      PROVE  s \in Reach(s) /\ Closed(Reach(s)) /\ Reach(s) \in SUBSET Int
  <2>1. s \in Reach(s) /\ Reach(s) \in SUBSET Int
    OBVIOUS
  <2>2. ASSUME NEW m \in Reach(s), Goes(m)
        PROVE  End(m) + 4 \in Reach(s)
    <3>1. End(m) + 4 \in Int
      BY <1>1
    <3> HIDE DEF Goes
    <3> QED BY <2>2, <3>1
  <2> HIDE DEF Reach, Goes
  <2> QED BY <2>1, <2>2
<1>3. ASSUME NEW s \in Int, NEW X \in SUBSET Int, s \in X, Closed(X)
      PROVE  Reach(s) \subseteq X
  <2> HIDE DEF Closed
  <2> QED BY <1>3
<1> HIDE DEF Reach, Goes
<1>4. ASSUME NEW s \in Int, ~Goes(s)
      PROVE  Reach(s) = {s}
  <2>1. Closed({s})
    BY <1>4
  <2>2. Reach(s) \subseteq {s}
    <3> HIDE DEF Closed
    <3> QED BY <1>3, <2>1
  <2> QED BY <1>2, <2>2
<1>5. ASSUME NEW s \in Int, Goes(s)
      PROVE  Reach(s) = {s} \cup Reach(End(s) + 4)
  <2> DEFINE n == End(s) + 4
  <2>1. n \in Int
    BY <1>1
  <2> HIDE DEF n
  <2>2. Closed({s} \cup Reach(n))
    <3>1. n \in Reach(n) /\ Closed(Reach(n))
      BY <1>2, <2>1
    <3> QED BY <3>1 DEF n
  <2>3. Reach(s) \subseteq {s} \cup Reach(n)
    <3>1. {s} \cup Reach(n) \in SUBSET Int /\ s \in {s} \cup Reach(n)
      BY <1>2, <2>1
    <3> HIDE DEF Closed
    <3> QED BY <1>3, <2>2, <3>1
  <2>4. s \in Reach(s) /\ n \in Reach(s) /\ Closed(Reach(s)) /\ Reach(s) \in SUBSET Int
    BY <1>2, <1>5 DEF n
  <2>5. Reach(n) \subseteq Reach(s)
    <3> HIDE DEF Closed
    <3> QED BY <1>3, <2>1, <2>4
  <2> QED BY <2>3, <2>4, <2>5 DEF n
<1> HIDE DEF Closed
<1>6. ASSUME NEW s \in Int
      PROVE  found[s] = IF s >= limit \/ End(s) <= s THEN {}
                        ELSE {[from |-> s, to |-> End(s)]} \cup found[End(s) + 4]
  <2>1. CASE ~Goes(s)
    <3>1. Found(s) = {}
      BY <1>4, <2>1
    <3> QED BY <2>1, <3>1 DEF Goes
  <2>2. CASE Goes(s)
    <3>1. End(s) + 4 \in Int
      BY <1>1
    <3>2. Found(s) = {[from |-> s, to |-> End(s)]} \cup Found(End(s) + 4)
      BY <1>5, <2>2
    <3> HIDE DEF Found
    <3>3. found[s] = Found(s) /\ found[End(s) + 4] = Found(End(s) + 4)
      BY <3>1
    <3> QED BY <2>2, <3>2, <3>3 DEF Goes
  <2> QED BY <2>1, <2>2
<1>7. found = Rec(found)
  <2> DEFINE body(s) == IF s >= limit \/ End(s) <= s THEN {}
                        ELSE {[from |-> s, to |-> End(s)]} \cup found[End(s) + 4]
  <2>1. found = [s \in Int |-> found[s]]
    OBVIOUS
  <2>2. \A s \in Int : found[s] = body(s)
    BY <1>6
  <2> HIDE DEF found, body
  <2>3. found = [s \in Int |-> body(s)]
    BY <2>1, <2>2
  <2> QED BY <2>3 DEF body
<1>8. Periods(t, p, limit) = from[Begins(p)]
  BY DEF Periods, End
<1>9. from = Rec(from)
  <2> HIDE DEF Rec, found
  <2> QED BY <1>7
<1>10. \A s \in Int : from[s] = IF s >= limit \/ End(s) <= s THEN {}
                                ELSE {[from |-> s, to |-> End(s)]} \cup from[End(s) + 4]
  <2> HIDE DEF from
  <2> QED BY <1>9
<1> HIDE DEF from
<1>11. Unfolds(t, p, limit, from)
  BY <1>8, <1>10 DEF Unfolds, End
<1> QED BY <1>11

\* As at the date d, in the n-th cycle since p joined.
LEMMA PresentCycle ==
    ASSUME NEW t \in Types, NEW p \in People, NEW y \in Int, Joined(t, p, y),
           NEW n \in Nat, NEW d \in Nat, Turn(t, y, n) <= d, d < Turn(t, y, n + 1)
    PROVE  /\ CycleStart(t, p, Midnight(d)) = Midnight(Turn(t, y, n))
           /\ CarriesForward(t, p, d) <=> n # 0
<1>1. t.annual /\ Length(t) = 1461
  BY DEF Joined
<1>2. /\ Turn(t, y, n) \in Int /\ Turn(t, y, 0) \in Int /\ Turn(t, y, 0) <= Turn(t, y, n)
      /\ Begins(p) = Midnight(Turn(t, y, 0)) /\ Begins(p) \in Nat
  <2>1. y + 0 = y /\ 0 \in Nat /\ 0 <= n
    OBVIOUS
  <2>2. Begins(p) = Midnight(Turn(t, y, 0))
    BY <2>1 DEF Turn, Joined
  <2>3. Turn(t, y, n) \in Int /\ Turn(t, y, 0) \in Int /\ Turn(t, y, 0) <= Turn(t, y, n)
    BY <2>1, TurnGrows, TurnStep
  <2>4. Begins(p) \in Nat
    BY PersonFields DEF Midnight
  <2> QED BY <2>2, <2>3, <2>4
<1>3. Midnight(d) \in Nat /\ Midnight(d) >= Begins(p)
      /\ Begins(p) <= Midnight(Turn(t, y, n)) /\ Midnight(Turn(t, y, n)) \in Nat
  BY <1>2 DEF Midnight
<1>4. Anniversary(t, d) = Turn(t, y, n)
  <2>1. y + n \in Int /\ y + (n + 1) = (y + n) + 1
    OBVIOUS
  <2> QED BY <2>1, AnniversaryIs DEF Turn
<1>5. CycleStart(t, p, Midnight(d)) = Midnight(Turn(t, y, n))
  BY <1>1, <1>2, <1>3, <1>4, AnnualStartIs DEF CycleStart
<1>6. CarriesForward(t, p, d) <=> Begins(p) <= Midnight(Turn(t, y, n)) - 4
  BY <1>1, <1>3, <1>5 DEF CarriesForward, UpTo, NoDate
<1>7. n # 0 => Turn(t, y, 0) < Turn(t, y, n)
  <2>1. n # 0 => /\ 1 \in Nat /\ 0 + 1 = 1 /\ 1 <= n
    OBVIOUS
  <2>2. Turn(t, y, 0 + 1) - Turn(t, y, 0) \in 365 .. 366 /\ Turn(t, y, 1) \in Int
    BY TurnStep
  <2>3. n # 0 => Turn(t, y, 1) <= Turn(t, y, n)
    BY <2>1, TurnGrows
  <2> QED BY <1>2, <2>1, <2>2, <2>3
<1>8. CarriesForward(t, p, d) <=> n # 0
  BY <1>2, <1>6, <1>7 DEF Midnight
<1> QED BY <1>5, <1>8

\* The loop finds a period for every past cycle.
LEMMA PastPeriodsAre ==
    ASSUME NEW t \in Types, NEW p \in People, NEW y \in Int, Joined(t, p, y),
           NEW n \in Nat, NEW d \in Nat, Turn(t, y, n) <= d, d < Turn(t, y, n + 1)
    PROVE  PastPeriods(t, p, d) = Past(t, y, n)
<1> DEFINE Rounds(i) == {Period(t, y, k) : k \in {j \in Nat : i <= j /\ j < n}}
           limit == UpTo(t, p, d)
<1>1. CASE n = 0
  <2>1. ~CarriesForward(t, p, d)
    BY <1>1, PresentCycle
  <2>2. {j \in Nat : j < n} = {}
    BY <1>1
  <2> QED BY <2>1, <2>2 DEF PastPeriods, Past
<1>2. CASE n # 0
  <2>1. CarriesForward(t, p, d) /\ limit = Midnight(Turn(t, y, n)) - 4
    BY <1>2, PresentCycle DEF UpTo
  <2>2. /\ n - 1 \in Nat /\ (n - 1) + 1 = n /\ Turn(t, y, n - 1) \in Int
        /\ Turn(t, y, n) \in Int /\ Turn(t, y, n) - Turn(t, y, n - 1) \in 365 .. 366
    <3>1. n - 1 \in Nat /\ (n - 1) + 1 = n
      BY <1>2
    <3> QED BY <3>1, TurnStep
  <2>3. limit \in Int
    BY <2>1, <2>2 DEF Midnight
  <2> HIDE DEF limit
  <2>4. PICK f : Unfolds(t, p, limit, f)
    <3>1. t.annual
      BY DEF Joined
    <3> QED BY <2>3, <3>1, LoopUnfolds
  <2>5. ASSUME NEW k \in Nat
        PROVE  f[Period(t, y, k).from]
                 = IF Period(t, y, k).from >= limit THEN {}
                   ELSE {Period(t, y, k)} \cup f[Period(t, y, k + 1).from]
    <3> DEFINE s == Period(t, y, k).from
               e == Period(t, y, k).to
    <3>1. s \in Nat /\ e \in Nat /\ s < e /\ e + 4 = Period(t, y, k + 1).from
      BY PeriodFields
    <3>2. CycleEnd(t, p, s) = e
      BY PeriodEnds
    <3>3. Period(t, y, k) = [from |-> s, to |-> e]
      BY DEF Period
    <3> HIDE DEF s, e
    <3>4. s \in Int /\ ~(e <= s)
      BY <3>1
    <3>5. f[s] = IF s >= limit THEN {} ELSE {[from |-> s, to |-> e]} \cup f[e + 4]
      BY <2>4, <3>2, <3>4 DEF Unfolds
    <3> QED BY <3>1, <3>3, <3>5 DEF s
  <2>6. ASSUME NEW k \in Nat
        PROVE  /\ k < n => Period(t, y, k).from < limit
               /\ k = n => Period(t, y, k).from >= limit
    <3>1. Period(t, y, k).from < Midnight(Turn(t, y, k)) + 8
      BY PeriodFields
    <3>2. Turn(t, y, k) \in Int /\ Period(t, y, k).from \in Int
      BY TurnStep, PeriodFields
    <3>3. CASE k < n
      <4>1. k <= n - 1
        BY <3>3
      <4>2. Turn(t, y, k) <= Turn(t, y, n - 1)
        BY <2>2, <4>1, TurnGrows
      <4> QED BY <2>1, <2>2, <3>1, <3>2, <3>3, <4>2 DEF Midnight
    <3>4. CASE k = n
      <4>1. Midnight(Turn(t, y, n)) <= Period(t, y, n).from
        BY PeriodFields
      <4> QED BY <2>1, <2>2, <3>2, <3>4, <4>1 DEF Midnight
    <3> QED BY <3>3, <3>4
  <2> DEFINE Bad == {x \in Nat : x <= n /\ f[Period(t, y, n - x).from] # Rounds(n - x)}
  <2>7. ASSUME Bad # {}
        PROVE  FALSE
    <3>1. PICK x \in Bad : \A z \in Bad : x <= z
      <4>1. Bad \in SUBSET Nat
        OBVIOUS
      <4> HIDE DEF Bad
      <4> QED BY <2>7, <4>1, LeastNatural
    <3> DEFINE k == n - x
    <3>2. x \in Nat /\ k \in Nat /\ k <= n /\ f[Period(t, y, k).from] # Rounds(k)
      BY <3>1
    <3>3. CASE x = 0
      <4>1. k = n
        BY <3>3
      <4>2. Rounds(k) = {}
        BY <4>1
      <4>3. f[Period(t, y, k).from] = {}
        <5> HIDE DEF k
        <5> QED BY <2>5, <2>6, <3>2, <4>1
      <4> QED BY <3>2, <4>2, <4>3
    <3>4. CASE x # 0
      <4>1. /\ x - 1 \in Nat /\ x - 1 <= n /\ ~(x <= x - 1) /\ n - (x - 1) = k + 1
            /\ k < n /\ k + 1 \in Nat
        BY <3>2, <3>4
      <4>2. f[Period(t, y, n - (x - 1)).from] = Rounds(n - (x - 1))
        BY <3>1, <4>1
      <4> HIDE DEF k
      <4>3. f[Period(t, y, k + 1).from] = Rounds(k + 1)
        BY <4>1, <4>2
      <4>4. {j \in Nat : k <= j /\ j < n} = {k} \cup {j \in Nat : k + 1 <= j /\ j < n}
        BY <3>2, <4>1
      <4>5. Rounds(k) = {Period(t, y, k)} \cup Rounds(k + 1)
        BY <4>4
      <4>6. ~(Period(t, y, k).from >= limit)
        <5>1. Period(t, y, k).from < limit /\ Period(t, y, k).from \in Int
          BY <2>6, <3>2, <4>1, PeriodFields
        <5> QED BY <2>3, <5>1
      <4>7. f[Period(t, y, k).from] = {Period(t, y, k)} \cup f[Period(t, y, k + 1).from]
        BY <2>5, <3>2, <4>6
      <4> HIDE DEF Rounds
      <4> QED BY <3>2, <4>3, <4>5, <4>7
    <3> QED BY <3>3, <3>4
  <2>8. f[Period(t, y, 0).from] = Rounds(0)
    <3>1. n \in Nat /\ n <= n /\ n - n = 0
      OBVIOUS
    <3> QED BY <2>7, <3>1
  <2>9. Period(t, y, 0).from = Begins(p)
    <3>1. y + 0 = y
      OBVIOUS
    <3> QED BY <3>1 DEF Period, Turn, Joined
  <2>10. Rounds(0) = Past(t, y, n)
    <3>1. {j \in Nat : 0 <= j /\ j < n} = {j \in Nat : j < n}
      OBVIOUS
    <3> QED BY <3>1 DEF Past
  <2> QED BY <2>1, <2>4, <2>8, <2>9, <2>10 DEF PastPeriods, Unfolds, limit
<1> QED BY <1>1, <1>2

\* A date since p joined is in one of the cycles.
LEMMA SomeTurn ==
    ASSUME NEW t \in Types, NEW p \in People, NEW y \in Int, Joined(t, p, y),
           NEW d \in Nat, Begins(p) <= Midnight(d)
    PROVE  \E n \in Nat : Turn(t, y, n) <= d /\ d < Turn(t, y, n + 1)
<1> DEFINE z == IF DayIn(t.day, Year(d)) > d THEN Year(d) - 1 ELSE Year(d)
<1>1. Year(d) \in Int /\ YearStart(Year(d)) <= d /\ d < YearStart(Year(d) + 1)
  BY YearHoldsDay
<1>2. z \in Int /\ z + 1 \in Int /\ z - y \in Int /\ z = y + (z - y)
      /\ z + 1 = y + ((z - y) + 1)
  BY <1>1
<1>3. DayIn(t.day, z) <= d /\ d < DayIn(t.day, z + 1)
  <2> DEFINE w == Year(d)
  <2>1. w \in Int /\ w - 1 \in Int /\ w + 1 \in Int /\ (w - 1) + 1 = w
    BY <1>1
  <2> HIDE DEF w
  <2>2. /\ DayIn(t.day, w) \in Int /\ YearStart(w) \in Int
        /\ YearStart(w + 1) \in Int /\ DayIn(t.day, w + 1) \in Int
        /\ YearStart(w + 1) <= DayIn(t.day, w + 1)
    BY <2>1, CycleDay
  <2>3. DayIn(t.day, w - 1) \in Int /\ DayIn(t.day, w - 1) < YearStart((w - 1) + 1)
    BY <2>1, CycleDay
  <2>4. YearStart(w) <= d /\ d < YearStart(w + 1)
    BY <1>1 DEF w
  <2>5. z = IF DayIn(t.day, w) > d THEN w - 1 ELSE w
    BY DEF w
  <2> HIDE DEF z
  <2> QED BY <2>1, <2>2, <2>3, <2>4, <2>5
<1> HIDE DEF z
<1>4. z - y \in Nat
  <2>1. ASSUME z < y
        PROVE  FALSE
    <3>1. y - (z + 1) \in Nat /\ (z + 1) + 0 = z + 1 /\ (z + 1) + (y - (z + 1)) = y
      BY <1>2, <2>1
    <3>2. Turn(t, z + 1, 0) <= Turn(t, z + 1, y - (z + 1))
      BY <1>2, <3>1, TurnGrows
    <3>3. DayIn(t.day, z + 1) <= DayIn(t.day, y)
      BY <3>1, <3>2 DEF Turn
    <3>4. DayIn(t.day, z + 1) \in Int /\ DayIn(t.day, y) \in Int
      BY <1>2, CycleDay
    <3>5. DayIn(t.day, y) <= d
      BY <3>4 DEF Joined, Midnight
    <3> QED BY <1>3, <3>3, <3>4, <3>5
  <2> QED BY <1>2, <2>1
<1> QED BY <1>2, <1>3, <1>4 DEF Turn

-----------------------------------------------------------------------------
(* The deductions.                                                         *)

\* The first day of the period that the k-th round finds.
First(t, y, k) == IF k = 0 THEN Turn(t, y, 0) ELSE Turn(t, y, k - 1) + 366

LEMMA FirstDays ==
    ASSUME NEW t \in Types, NEW y \in Int, NEW k \in Nat
    PROVE  /\ First(t, y, k) \in Int /\ First(t, y, k + 1) \in Int
           /\ First(t, y, k) - Turn(t, y, k) \in {0, 1}
           /\ \A e \in Int :
                 e \in Queried(Period(t, y, k))
                   <=> First(t, y, k) <= e /\ e < First(t, y, k + 1)
<1>1. k + 1 # 0 /\ (k + 1) - 1 = k /\ (k # 0 => k - 1 \in Nat /\ (k - 1) + 1 = k)
  OBVIOUS
<1>2. Turn(t, y, k) \in Int /\ Turn(t, y, 0) \in Int
  BY TurnStep
<1>3. k # 0 => /\ Turn(t, y, k - 1) \in Int
               /\ Turn(t, y, k) - Turn(t, y, k - 1) \in 365 .. 366
  BY <1>1, TurnStep
<1>4. First(t, y, k + 1) = Turn(t, y, k) + 366
  BY <1>1 DEF First
<1>5. /\ k = 0 => First(t, y, k) = Turn(t, y, k)
      /\ k # 0 => First(t, y, k) = Turn(t, y, k - 1) + 366
  BY DEF First
<1>6. First(t, y, k) \in Int /\ First(t, y, k) - Turn(t, y, k) \in {0, 1}
  BY <1>2, <1>3, <1>5
<1>7. DayOf(Period(t, y, k).to) = Turn(t, y, k) + 365
  BY <1>2 DEF Period, DayOf, Midnight
<1>8. DayOf(Period(t, y, k).from) = First(t, y, k)
  <2>1. CASE k = 0
    BY <1>2, <1>5, <2>1 DEF Period, DayOf, Midnight
  <2>2. CASE k # 0
    BY <1>3, <1>5, <2>2 DEF Period, DayOf, Midnight
  <2> QED BY <2>1, <2>2
<1>9. Queried(Period(t, y, k)) = First(t, y, k) .. (Turn(t, y, k) + 365)
  BY <1>7, <1>8 DEF Queried
<1> QED BY <1>2, <1>4, <1>6, <1>9

LEMMA FirstGrows ==
    ASSUME NEW t \in Types, NEW y \in Int, NEW i \in Nat, NEW j \in Nat, i < j
    PROVE  First(t, y, i + 1) <= First(t, y, j)
<1>1. j - 1 \in Nat /\ i <= j - 1 /\ i + 1 # 0 /\ (i + 1) - 1 = i /\ j # 0
  OBVIOUS
<1>2. Turn(t, y, i) <= Turn(t, y, j - 1)
  BY <1>1, TurnGrows
<1>3. Turn(t, y, i) \in Int /\ Turn(t, y, j - 1) \in Int
  BY <1>1, TurnStep
<1> QED BY <1>1, <1>2, <1>3 DEF First

\* The days before the n-th period are each in one of the periods before it.
LEMMA OnePeriod ==
    ASSUME NEW t \in Types, NEW y \in Int, NEW n \in Nat,
           NEW e \in Int, Turn(t, y, 0) <= e
    PROVE  Cardinality({i \in Past(t, y, n) : e \in Queried(i)})
             = IF e < First(t, y, n) THEN 1 ELSE 0
<1> DEFINE hit == {i \in Past(t, y, n) : e \in Queried(i)}
           Hits(k) == First(t, y, k) <= e /\ e < First(t, y, k + 1)
<1>1. First(t, y, n) \in Int
  BY FirstDays
<1>2. hit = {Period(t, y, k) : k \in {j \in Nat : j < n /\ Hits(j)}}
  <2>1. \A k \in Nat : e \in Queried(Period(t, y, k)) <=> Hits(k)
    BY FirstDays
  <2> HIDE DEF Hits
  <2> QED BY <2>1 DEF Past
<1>3. CASE ~(e < First(t, y, n))
  <2>1. ASSUME NEW k \in Nat, k < n, Hits(k)
        PROVE  FALSE
    <3>1. First(t, y, k + 1) <= First(t, y, n) /\ First(t, y, k + 1) \in Int
      BY <2>1, FirstGrows, FirstDays
    <3> QED BY <1>1, <1>3, <2>1, <3>1
  <2>2. hit = {}
    BY <1>2, <2>1
  <2> QED BY <1>3, <2>2, FS_EmptySet
<1>4. CASE e < First(t, y, n)
  <2> DEFINE Over == {k \in Nat : e < First(t, y, k + 1)}
  <2>1. n # 0
    BY <1>4, TurnStep DEF First
  <2>2. n - 1 \in Nat /\ (n - 1) + 1 = n
    BY <2>1
  <2>3. n - 1 \in Over
    BY <1>4, <2>2
  <2>4. PICK k \in Over : \A l \in Over : k <= l
    <3>1. Over \in SUBSET Nat /\ Over # {}
      BY <2>3
    <3> HIDE DEF Over
    <3> QED BY <3>1, LeastNatural
  <2>5. k \in Nat /\ k < n /\ e < First(t, y, k + 1)
    BY <2>2, <2>3, <2>4
  <2>6. First(t, y, k) <= e
    <3>1. CASE k = 0
      BY <3>1 DEF First
    <3>2. CASE k # 0
      <4>1. k - 1 \in Nat /\ (k - 1) + 1 = k /\ ~(k <= k - 1)
        BY <2>5, <3>2
      <4>2. ~(e < First(t, y, (k - 1) + 1))
        BY <2>4, <4>1
      <4>3. First(t, y, k) \in Int
        BY <2>5, FirstDays
      <4> QED BY <4>1, <4>2, <4>3
    <3> QED BY <3>1, <3>2
  <2>7. ASSUME NEW j \in Nat, Hits(j)
        PROVE  j = k
    <3>1. /\ First(t, y, j) \in Int /\ First(t, y, j + 1) \in Int
          /\ First(t, y, k) \in Int /\ First(t, y, k + 1) \in Int
      BY <2>5, FirstDays
    <3>2. j < k => First(t, y, j + 1) <= First(t, y, k)
      BY <2>5, FirstGrows
    <3>3. k < j => First(t, y, k + 1) <= First(t, y, j)
      BY <2>5, FirstGrows
    <3>4. ~(j < k) /\ ~(k < j)
      BY <2>5, <2>6, <2>7, <3>1, <3>2, <3>3
    <3> QED BY <2>5, <3>4
  <2>8. {j \in Nat : j < n /\ Hits(j)} = {k}
    <3>1. Hits(k)
      BY <2>5, <2>6
    <3> HIDE DEF Hits
    <3> QED BY <2>5, <2>7, <3>1
  <2>9. hit = {Period(t, y, k)}
    BY <1>2, <2>8
  <2> QED BY <1>4, <2>9, FS_Singleton
<1> QED BY <1>3, <1>4

LEMMA JoinedAsStated ==
    ASSUME CycleInv, JoinedWithCycle
    PROVE  /\ type \in Types /\ person \in People /\ asAt \in Nat
           /\ Year(DayOf(Begins(person))) \in Int
           /\ Joined(type, person, Year(DayOf(Begins(person))))
<1>1. type \in Types /\ person \in People /\ asAt \in Nat
  BY DEF CycleInv
<1>2. PICK b \in Nat : Begins(person) = Midnight(b)
  BY <1>1, PersonFields
<1>3. DayOf(Begins(person)) = b
  BY <1>2 DEF DayOf, Midnight
<1>4. Year(b) \in Int
  BY YearHoldsDay
<1> QED BY <1>1, <1>2, <1>3, <1>4 DEF JoinedWithCycle, Joined

(***************************************************************************)
(* Every day of annual leave since the employee joined, with the first day *)
(* of a cycle, is deducted once from a balance, and none but the first day *)
(* of the present cycle twice: over any number of years, whichever of them *)
(* are leap years, on whichever day cycles begin.                          *)
(***************************************************************************)
THEOREM DeductionsCorrect == CycleSpec => []DeductionsFit
<1>1. ASSUME CycleInv, JoinedWithCycle, Employed, NEW e \in Edges
      PROVE  \/ Deductions(type, person, asAt, e) = 1
             \/ Deductions(type, person, asAt, e) = 2 /\ e = DayOf(Start)
  <2> DEFINE t == type
             p == person
             d == asAt
             y == Year(DayOf(Begins(person)))
  <2>1. t \in Types /\ p \in People /\ d \in Nat /\ y \in Int /\ Joined(t, p, y)
    BY <1>1, JoinedAsStated
  <2>2. /\ Begins(p) <= Midnight(d) /\ e \in Int /\ Begins(p) <= Midnight(e) /\ e <= d
    <3>1. Begins(p) \in Nat /\ Midnight(d) \in Nat
      BY <2>1, PersonFields DEF Midnight
    <3>2. Midnight(e) >= Begins(p) /\ e <= d /\ e \in Int
      BY <1>1 DEF Edges
    <3>3. Midnight(d) >= Begins(p)
      BY <1>1 DEF Employed
    <3> QED BY <3>1, <3>2, <3>3 DEF Midnight
  <2>3. Start = CycleStart(t, p, Midnight(d))
    BY DEF Start
  <2> HIDE DEF t, p, d, y
  <2>4. PICK n \in Nat : Turn(t, y, n) <= d /\ d < Turn(t, y, n + 1)
    BY <2>1, <2>2, SomeTurn
  <2>5. Turn(t, y, n) \in Int /\ Turn(t, y, 0) \in Int /\ First(t, y, n) \in Int
        /\ First(t, y, n) - Turn(t, y, n) \in {0, 1}
    BY <2>1, TurnStep, FirstDays
  <2>6. Start = Midnight(Turn(t, y, n))
    BY <2>1, <2>3, <2>4, PresentCycle
  <2>7. DayOf(Start) = Turn(t, y, n) /\ CurrentPeriod(t, p, d) = Turn(t, y, n) .. d
    BY <2>3, <2>5, <2>6 DEF DayOf, Midnight, CurrentPeriod
  <2>8. Turn(t, y, 0) <= e
    <3>1. Begins(p) = Midnight(Turn(t, y, 0))
      <4>1. y + 0 = y
        BY <2>1
      <4> QED BY <2>1, <4>1 DEF Joined, Turn
    <3> QED BY <2>2, <2>5, <3>1 DEF Midnight
  <2>9. Cardinality({i \in PastPeriods(t, p, d) : e \in Queried(i)})
          = IF e < First(t, y, n) THEN 1 ELSE 0
    <3>1. PastPeriods(t, p, d) = Past(t, y, n)
      BY <2>1, <2>4, PastPeriodsAre
    <3> QED BY <2>1, <2>2, <2>8, <3>1, OnePeriod
  <2>10. e \in CurrentPeriod(t, p, d) <=> Turn(t, y, n) <= e
    BY <2>1, <2>2, <2>5, <2>7
  <2>11. Deductions(t, p, d, e) = (IF e < First(t, y, n) THEN 1 ELSE 0)
                                  + (IF Turn(t, y, n) <= e THEN 1 ELSE 0)
    BY <2>9, <2>10 DEF Deductions
  <2>12. \/ Deductions(t, p, d, e) = 1
         \/ Deductions(t, p, d, e) = 2 /\ e = Turn(t, y, n)
    BY <2>2, <2>5, <2>11
  <2> QED BY <2>7, <2>12 DEF t, p, d
<1>2. CycleInv => DeductionsFit
  BY <1>1 DEF DeductionsFit
<1> QED BY <1>2, CycleInvariant, PTL

-----------------------------------------------------------------------------
(* The days that earn leave.                                               *)

\* The quarter days of the periods, each with its period.
Quarters(i) == {i} \X (i.from .. (i.to - 1))
Weight(S) == Cardinality(UNION {Quarters(i) : i \in S})

\* A set of periods: their ends, in order.
PeriodSet(S) ==
    /\ IsFiniteSet(S)
    /\ \A i \in S : i.from \in Int /\ i.to \in Int /\ i.from <= i.to

LEMMA WeightStep ==
    ASSUME NEW S, PeriodSet(S), NEW i \in S
    PROVE  Weight(S) = (i.to - i.from) + Weight(S \ {i}) /\ Weight(S \ {i}) \in Nat
<1> DEFINE rest == UNION {Quarters(j) : j \in S \ {i}}
<1>1. /\ IsFiniteSet(S) /\ i.from \in Int /\ i.to \in Int /\ i.from <= i.to
      /\ \A j \in S : j.from \in Int /\ j.to - 1 \in Int
  BY DEF PeriodSet
<1>2. \A j \in S : IsFiniteSet(Quarters(j))
  <2>1. ASSUME NEW j \in S
        PROVE  IsFiniteSet(Quarters(j))
    <3>1. IsFiniteSet({j}) /\ IsFiniteSet(j.from .. (j.to - 1))
      BY <1>1, FS_Singleton, FS_Interval
    <3> QED BY <3>1, FS_Product DEF Quarters
  <2> QED BY <2>1
<1>3. Cardinality(Quarters(i)) = i.to - i.from
  <2>1. IsFiniteSet({i}) /\ Cardinality({i}) = 1
    BY FS_Singleton
  <2>2. i.to - 1 \in Int
    BY <1>1
  <2>3. /\ IsFiniteSet(i.from .. (i.to - 1))
        /\ Cardinality(i.from .. (i.to - 1))
             = IF i.from > i.to - 1 THEN 0 ELSE (i.to - 1) - i.from + 1
    BY <1>1, <2>2, FS_Interval
  <2>4. Cardinality(i.from .. (i.to - 1)) = i.to - i.from
    BY <1>1, <2>3
  <2> DEFINE moments == i.from .. (i.to - 1)
  <2>5. Cardinality(moments) = i.to - i.from /\ IsFiniteSet(moments)
    BY <2>3, <2>4
  <2> HIDE DEF moments
  <2>6. Cardinality({i} \X moments) = Cardinality({i}) * Cardinality(moments)
    BY <2>1, <2>5, FS_Product
  <2> QED BY <1>1, <2>1, <2>5, <2>6 DEF Quarters, moments
<1>4. IsFiniteSet(rest)
  <2>1. IsFiniteSet(S \ {i})
    BY <1>1, FS_RemoveElement
  <2>2. IsFiniteSet({Quarters(j) : j \in S \ {i}})
    <3> DEFINE f == [j \in S \ {i} |-> Quarters(j)]
    <3>1. f \in Surjection(S \ {i}, {Quarters(j) : j \in S \ {i}})
      BY DEF Surjection
    <3> QED BY <2>1, <3>1, FS_Surjection
  <2>3. \A T \in {Quarters(j) : j \in S \ {i}} : IsFiniteSet(T)
    BY <1>2
  <2> QED BY <2>2, <2>3, FS_UNION
<1>5. UNION {Quarters(j) : j \in S} = Quarters(i) \cup rest
  OBVIOUS
<1>6. Quarters(i) \cap rest = {}
  <2>1. ASSUME NEW j \in S \ {i}, NEW x, x \in Quarters(i), x \in Quarters(j)
        PROVE  FALSE
    BY <2>1 DEF Quarters
  <2> QED BY <2>1
<1> HIDE DEF rest
<1>7. Cardinality(Quarters(i) \cup rest) = Cardinality(Quarters(i)) + Cardinality(rest)
  BY <1>2, <1>4, <1>6, DisjointCardinality
<1>8. Weight(S) = Cardinality(Quarters(i) \cup rest) /\ Weight(S \ {i}) = Cardinality(rest)
  BY <1>5 DEF Weight, rest
<1>9. Cardinality(rest) \in Nat
  BY <1>4, FS_CardinalityType
<1> QED BY <1>3, <1>7, <1>8, <1>9

\* As in SumOfRows.
LEMMA EarnedIs ==
    ASSUME NEW t, NEW p, NEW d, PeriodSet(PastPeriods(t, p, d))
    PROVE  EarnedBefore(t, p, d) = Weight(PastPeriods(t, p, d))
<1> DEFINE periods == PastPeriods(t, p, d)
           Rec(g) == [S \in SUBSET periods |->
                        IF S = {} THEN 0
                        ELSE LET i == CHOOSE i \in S : TRUE
                             IN  (i.to - i.from) + g[S \ {i}]]
           sums == [S \in SUBSET periods |-> Weight(S)]
           sum == CHOOSE g : g = Rec(g)
<1>1. \A S \in SUBSET periods : PeriodSet(S)
  BY FS_Subset DEF PeriodSet
<1>2. Weight({}) = 0
  <2>1. UNION {Quarters(i) : i \in {}} = {}
    OBVIOUS
  <2> QED BY <2>1, FS_EmptySet DEF Weight
<1>3. ASSUME NEW S \in SUBSET periods, S # {}
      PROVE  sums[S] = Rec(sums)[S]
  <2> DEFINE i == CHOOSE i \in S : TRUE
  <2>1. i \in S
    BY <1>3
  <2> HIDE DEF i
  <2>2. Weight(S) = (i.to - i.from) + Weight(S \ {i})
    BY <1>1, <2>1, WeightStep
  <2> QED BY <1>3, <2>2 DEF i
<1>4. sums = Rec(sums)
  BY <1>2, <1>3
<1>5. EarnedBefore(t, p, d) = sum[periods]
  BY DEF EarnedBefore, MapThenSumSet, MapThenFoldSet
<1>6. sum = Rec(sum)
  BY <1>4
<1>7. IsFiniteSet(periods)
  BY DEF PeriodSet
<1> HIDE DEF sum, periods
<1> DEFINE Differ == {S \in SUBSET periods : sum[S] # sums[S]}
<1>8. ASSUME Differ # {}
      PROVE  FALSE
  <2>1. Differ \subseteq FiniteSubsetsOf(periods)
    BY <1>1 DEF FiniteSubsetsOf, PeriodSet
  <2>2. PICK S \in Differ : \A T \in Differ : <<T, S>> \notin StrictSubsetOrdering(periods)
    <3> HIDE DEF Differ
    <3> QED BY <1>7, <1>8, <2>1, FS_StrictSubsetOrderingWellFounded, WFMin
  <2>3. \A T \in SUBSET periods : T \subseteq S /\ T # S => sum[T] = sums[T]
    BY <2>2 DEF StrictSubsetOrdering
  <2>4. S # {}
    BY <1>2, <1>6, <2>2
  <2> DEFINE i == CHOOSE i \in S : TRUE
  <2>5. i \in S
    BY <2>4
  <2>6. sum[S] = (i.to - i.from) + sum[S \ {i}]
    BY <1>6, <2>2, <2>4
  <2>7. sums[S] = (i.to - i.from) + sums[S \ {i}]
    BY <1>3, <2>2, <2>4
  <2> HIDE DEF i, sums
  <2>8. sum[S \ {i}] = sums[S \ {i}]
    BY <2>2, <2>3, <2>5
  <2> QED BY <2>2, <2>6, <2>7, <2>8
<1> QED BY <1>5, <1>8 DEF periods

\* The past periods of n cycles: how many they are, and what they last.
LEMMA RoundsAddUp ==
    ASSUME NEW t \in Types, NEW p \in People, NEW y \in Int, Joined(t, p, y), NEW n \in Nat
    PROVE  /\ PeriodSet(Past(t, y, n))
           /\ Cardinality(Past(t, y, n)) = n
           /\ Weight(Past(t, y, n)) = IF n = 0 THEN 0
                                     ELSE 1465 - 4 * n
                                          + 4 * (Turn(t, y, n - 1) - Turn(t, y, 0))
<1> DEFINE Total(m) == IF m = 0 THEN 0
                       ELSE 1465 - 4 * m + 4 * (Turn(t, y, m - 1) - Turn(t, y, 0))
           Fine(m) == /\ PeriodSet(Past(t, y, m)) /\ Cardinality(Past(t, y, m)) = m
                      /\ Weight(Past(t, y, m)) = Total(m)
           Bad == {m \in Nat : ~Fine(m)}
<1>1. ASSUME NEW m \in Nat
      PROVE  /\ Past(t, y, m + 1) = Past(t, y, m) \cup {Period(t, y, m)}
             /\ Period(t, y, m) \notin Past(t, y, m)
  <2>1. {j \in Nat : j < m + 1} = {j \in Nat : j < m} \cup {m}
    OBVIOUS
  <2>2. ASSUME NEW k \in Nat, k < m, Period(t, y, k) = Period(t, y, m)
        PROVE  FALSE
    <3>1. m - 1 \in Nat /\ k <= m - 1 /\ m # 0
      BY <2>2
    <3>2. Turn(t, y, k) <= Turn(t, y, m - 1)
      BY <3>1, TurnGrows
    <3>3. Turn(t, y, k) \in Int /\ Turn(t, y, m - 1) \in Int
      BY <3>1, TurnStep
    <3>4. /\ Period(t, y, m).from = Midnight(Turn(t, y, m - 1)) + 1465
          /\ Period(t, y, k).to = Midnight(Turn(t, y, k)) + 1461
      BY <3>1 DEF Period
    <3>5. /\ Period(t, y, k).from < Period(t, y, k).to
          /\ Period(t, y, k).from = Period(t, y, m).from
          /\ Period(t, y, k).from \in Nat
      BY <2>2, PeriodFields
    <3> QED BY <3>2, <3>3, <3>4, <3>5 DEF Midnight
  <2> QED BY <2>1, <2>2 DEF Past
<1>2. Past(t, y, 0) = {}
  BY DEF Past
<1>3. ASSUME Bad # {}
      PROVE  FALSE
  <2>1. PICK m \in Bad : \A l \in Bad : m <= l
    <3>1. Bad \in SUBSET Nat
      OBVIOUS
    <3> HIDE DEF Bad
    <3> QED BY <1>3, <3>1, LeastNatural
  <2>2. m \in Nat /\ ~Fine(m)
    BY <2>1
  <2>3. CASE m = 0
    <3>1. UNION {Quarters(i) : i \in {}} = {}
      OBVIOUS
    <3>2. Weight({}) = 0 /\ Cardinality({}) = 0 /\ PeriodSet({})
      BY <3>1, FS_EmptySet DEF PeriodSet, Weight
    <3>3. Fine(0)
      BY <1>2, <3>2
    <3> QED BY <2>2, <2>3, <3>3
  <2>4. CASE m # 0
    <3> DEFINE l == m - 1
               new == Period(t, y, l)
    <3>1. l \in Nat /\ l + 1 = m /\ ~(m <= l)
      BY <2>2, <2>4
    <3>2. Fine(l)
      BY <2>1, <3>1
    <3> HIDE DEF l
    <3>3. /\ Past(t, y, m) = Past(t, y, l) \cup {new} /\ new \notin Past(t, y, l)
      BY <1>1, <3>1
    <3>4. new.from \in Int /\ new.to \in Int /\ new.from <= new.to
      BY <3>1, PeriodFields
    <3>5. IsFiniteSet(Past(t, y, m)) /\ Cardinality(Past(t, y, m)) = m
      <4>1. IsFiniteSet(Past(t, y, l)) /\ Cardinality(Past(t, y, l)) = l
        BY <3>2 DEF PeriodSet
      <4> HIDE DEF new
      <4>2. /\ IsFiniteSet(Past(t, y, l) \cup {new})
            /\ Cardinality(Past(t, y, l) \cup {new}) = l + 1
        BY <3>3, <4>1, FS_AddElement
      <4> QED BY <3>1, <3>3, <4>2
    <3>6. PeriodSet(Past(t, y, m))
      <4> HIDE DEF new
      <4> QED BY <3>2, <3>3, <3>4, <3>5 DEF PeriodSet
    <3>7. Weight(Past(t, y, m)) = (new.to - new.from) + Weight(Past(t, y, l))
      <4>1. Past(t, y, m) \ {new} = Past(t, y, l) /\ new \in Past(t, y, m)
        BY <3>3
      <4> HIDE DEF new
      <4> QED BY <3>6, <4>1, WeightStep
    <3>8. (new.to - new.from) + Total(l) = Total(m)
      <4>1. Turn(t, y, l) \in Int /\ Turn(t, y, 0) \in Int
        BY <3>1, TurnStep
      <4>2. Total(m) = 1465 - 4 * m + 4 * (Turn(t, y, l) - Turn(t, y, 0))
        BY <2>4 DEF l
      <4>3. CASE l = 0
        <5>1. new.to - new.from = 1461
          BY <4>1, <4>3 DEF Period, Midnight
        <5> QED BY <3>1, <4>1, <4>2, <4>3, <5>1
      <4>4. CASE l # 0
        <5>1. l - 1 \in Nat
          BY <3>1, <4>4
        <5>2. Turn(t, y, l - 1) \in Int
          BY <5>1, TurnStep
        <5>3. new.to - new.from = 4 * (Turn(t, y, l) - Turn(t, y, l - 1)) - 4
          BY <4>1, <4>4, <5>2 DEF Period, Midnight
        <5>4. Total(l) = 1465 - 4 * l + 4 * (Turn(t, y, l - 1) - Turn(t, y, 0))
          BY <4>4
        <5> HIDE DEF Total, new
        <5> QED BY <3>1, <4>1, <4>2, <5>2, <5>3, <5>4
      <4> QED BY <4>3, <4>4
    <3> HIDE DEF Total, new
    <3> QED BY <2>2, <3>2, <3>5, <3>6, <3>7, <3>8
  <2> QED BY <2>3, <2>4
<1>4. Fine(n)
  <2> HIDE DEF Fine
  <2> QED BY <1>3
<1> QED BY <1>4

(***************************************************************************)
(* Of the days since the employee joined, with the first day of a cycle,   *)
(* what is carried forward and the present cycle leave out at most a day   *)
(* per past cycle, and count at most a quarter of a day too many, over any *)
(* number of years.                                                        *)
(***************************************************************************)
THEOREM AccrualCorrect == CycleSpec => []AccrualKeepsPace
<1>1. ASSUME CycleInv, JoinedWithCycle, Employed
      PROVE  Elapsed - Earned \in -1 .. 4 * Cardinality(PastPeriods(type, person, asAt))
  <2> DEFINE t == type
             p == person
             d == asAt
             y == Year(DayOf(Begins(person)))
  <2>1. t \in Types /\ p \in People /\ d \in Nat /\ y \in Int /\ Joined(t, p, y)
    BY <1>1, JoinedAsStated
  <2>2. Begins(p) <= Midnight(d)
    <3>1. Begins(p) \in Nat /\ Midnight(d) \in Nat
      BY <2>1, PersonFields DEF Midnight
    <3> QED BY <1>1, <3>1 DEF Employed
  <2>3. /\ Elapsed = Midnight(d + 1) - Begins(p)
        /\ Earned = EarnedBefore(t, p, d) + EarnedNow(t, p, d)
    BY DEF Elapsed, Earned
  <2> HIDE DEF t, p, d, y
  <2>4. PICK n \in Nat : Turn(t, y, n) <= d /\ d < Turn(t, y, n + 1)
    BY <2>1, <2>2, SomeTurn
  <2>5. Turn(t, y, n) \in Int /\ Turn(t, y, 0) \in Int
    BY <2>1, TurnStep
  <2>6. Begins(p) = Midnight(Turn(t, y, 0))
    <3>1. y + 0 = y
      BY <2>1
    <3> QED BY <2>1, <3>1 DEF Joined, Turn
  <2>7. EarnedNow(t, p, d) = Midnight(d + 1) - Midnight(Turn(t, y, n))
    BY <2>1, <2>4, PresentCycle DEF EarnedNow
  <2>8. /\ EarnedBefore(t, p, d) = IF n = 0 THEN 0
                                   ELSE 1465 - 4 * n
                                        + 4 * (Turn(t, y, n - 1) - Turn(t, y, 0))
        /\ Cardinality(PastPeriods(t, p, d)) = n
    <3>1. PastPeriods(t, p, d) = Past(t, y, n)
      BY <2>1, <2>4, PastPeriodsAre
    <3>2. /\ PeriodSet(Past(t, y, n)) /\ Cardinality(Past(t, y, n)) = n
          /\ Weight(Past(t, y, n))
               = IF n = 0 THEN 0 ELSE 1465 - 4 * n + 4 * (Turn(t, y, n - 1) - Turn(t, y, 0))
      BY <2>1, RoundsAddUp
    <3>3. EarnedBefore(t, p, d) = Weight(PastPeriods(t, p, d))
      BY <3>1, <3>2, EarnedIs
    <3> QED BY <3>1, <3>2, <3>3
  <2>9. Elapsed - Earned \in -1 .. 4 * n
    <3>1. CASE n = 0
      <4>1. Elapsed - Earned = 0
        BY <2>1, <2>3, <2>5, <2>6, <2>7, <2>8, <3>1 DEF Midnight
      <4> QED BY <3>1, <4>1
    <3>2. CASE n # 0
      <4>1. n - 1 \in Nat /\ (n - 1) + 1 = n
        BY <3>2
      <4>2. /\ Turn(t, y, n - 1) \in Int
            /\ Turn(t, y, n) - Turn(t, y, n - 1) \in 365 .. 366
        BY <2>1, <4>1, TurnStep
      <4>3. Elapsed - Earned
              = 4 * (Turn(t, y, n) - Turn(t, y, n - 1)) - 1465 + 4 * n
        BY <2>1, <2>3, <2>5, <2>6, <2>7, <2>8, <3>2, <4>2 DEF Midnight
      <4> QED BY <4>1, <4>2, <4>3
    <3> QED BY <3>1, <3>2
  <2> QED BY <2>8, <2>9 DEF t, p, d
<1>2. CycleInv => AccrualKeepsPace
  BY <1>1 DEF AccrualKeepsPace
<1> QED BY <1>2, CycleInvariant, PTL
=============================================================================
