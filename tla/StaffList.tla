----------------------------- MODULE StaffList -----------------------------
(***************************************************************************)
(* Employee#build_staff_list as it is written, beside the chains of        *)
(* approvers that EmployeeAdmin compares the permission checks of the      *)
(* other modules with.  Administrators may draw any graph of approvers,    *)
(* loops included.                                                         *)
(***************************************************************************)
EXTENDS EmployeeAdmin, SequencesExt

\* staff << e unless staff.include?(e), for each e of the second list
AppendMissing(staff, more) ==
    FoldLeft(LAMBDA s, e : IF e \in ToSet(s) THEN s ELSE Append(s, e), staff, more)

\* The loop over the rows of a query, where below[e] is what the call for e returns.
Listing(below) ==
    FoldLeft(LAMBDA staff, e : AppendMissing(Append(staff, e), below[e]),
             <<>>, SetToSeq(DOMAIN below))

\* Mutant of BuildStaffList: it follows down managers only.
ListBelowManagers(emp, m) ==
    LET below[e \in Hierarchy(emp, m)] ==
            IF e = m \/ emp[e].role # "manager" THEN <<>>
            ELSE Listing([d \in DirectStaff(emp, e) |-> below[d]])
    IN  Listing([d \in DirectStaff(emp, m) |-> below[d]])

(***************************************************************************)
(* The recursion of a manager m over the direct staff of somebody.  The    *)
(* final sort by full name only fixes an order, so the order in which the  *)
(* query returns rows is left to SetToSeq.                                 *)
(***************************************************************************)
BuildStaffList(emp, m) ==
    LET below[e \in Hierarchy(emp, m)] ==
            IF e = m \/ emp[e].role = "employee" THEN <<>>
            ELSE Listing([d \in DirectStaff(emp, e) |-> below[d]])
    IN  Listing([d \in DirectStaff(emp, m) |-> below[d]])

ManagerStaffList(m) == BuildStaffList(employee, m)

(***************************************************************************)
(* For every manager and every graph of approvers the recursion ends, and  *)
(* lists exactly the people whose chain of approvers leads up to him       *)
(* through people with staff of their own, each of them once.              *)
(***************************************************************************)
StaffListComplete ==
    \A m \in Present(employee) : employee[m].role = "manager" =>
        LET list == ManagerStaffList(m) IN
        /\ ToSet(list) = {e \in Employees : ReportsTo(employee, e, m)}
        /\ Len(list) = Cardinality(ToSet(list))
=============================================================================
