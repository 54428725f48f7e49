--------------------------- MODULE MCLeaveCycles ---------------------------
(***************************************************************************)
(* Employees who join at the ends of years and months, 2003 to 2007, and   *)
(* the leave types that provisioning creates, with some others.            *)
(***************************************************************************)
EXTENDS LeavePeriods

\* Days since 1 January 2001.
NewYear2003 == 730
July2003 == 925
LastOf2003 == 1094
LeapDay2004 == 1154
March2004 == 1155
May2007 == 2315

Annual(day) == [annual |-> TRUE, unit |-> "years", n |-> 1, day |-> day]
Rolling(unit, n) == [annual |-> FALSE, unit |-> unit, n |-> n, day |-> 0]

\* Cycles from 1 January and from 1 March; one, three or four years, two months.
SomeTypes ==
    {Annual(0), Annual(60), Rolling("years", 1), Rolling("years", 3), Rolling("years", 4),
     Rolling("months", 2)}

SomePeople ==
    {[start |-> NewYear2003, takeOn |-> NoDate],
     [start |-> July2003, takeOn |-> NoDate],
     [start |-> LastOf2003, takeOn |-> NoDate],
     [start |-> NewYear2003, takeOn |-> NewYear2003],
     [start |-> NewYear2003, takeOn |-> LastOf2003],
     [start |-> July2003, takeOn |-> LeapDay2004],
     [start |-> July2003, takeOn |-> March2004]}
=============================================================================
