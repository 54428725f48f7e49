------------------------- MODULE MCLeaveConstraints -------------------------
(***************************************************************************)
(* The days around a weekend, Friday to Tuesday, with a holiday on the     *)
(* Sunday and one on the Monday; and eight days to the Friday after, with  *)
(* holidays on the Sunday, the Monday and that Friday, and one on the      *)
(* Wednesday that is entered later.                                        *)
(***************************************************************************)
EXTENDS LeaveConstraints

FridayToTuesday == 5 .. 9
SundayAndMonday == {7, 8}
FridayToFriday == 5 .. 12
SeveralHolidays == {7, 8, 12}
ThatWednesday == {10}
NoDates == {}

\* Amounts in half days: as provisioned, with a take-on balance, and sickness.
Provisioned ==
    [minDays |-> 2, maxDays |-> 60, notice |-> 1, maxFuture |-> 365, maxBack |-> 365,
     documentsAfter |-> 2, maxNegative |-> 0, allowance |-> 3, takeOn |-> 0,
     documents |-> FALSE, sickness |-> FALSE]

SomeSettings ==
    {Provisioned, [Provisioned EXCEPT !.takeOn = 4, !.maxFuture = 2, !.maxDays = 2],
     [Provisioned EXCEPT !.sickness = TRUE, !.documents = TRUE, !.documentsAfter = 4,
                         !.maxBack = 1]}
=============================================================================
