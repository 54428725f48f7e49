------------------------------- MODULE Staff -------------------------------
(***************************************************************************)
(* Who manages whom in one account: the roles of app/models/employee.rb    *)
(* and the list of staff that every permission check of the application is *)
(* built on.  There is no state here: each operator takes the employees    *)
(* table as a function from identities to rows, so that other modules can  *)
(* apply it to the table of the current state.                             *)
(***************************************************************************)
EXTENDS Integers, FiniteSets

CONSTANTS
    Employees,  \* identities an employee row may ever have
    None        \* the null of a nullable foreign key

ASSUME NoneAssumption == None \notin Employees

\* Identities are numbers of a bounded column.
ASSUME EmployeesAssumption == IsFiniteSet(Employees)

Roles == {"admin", "manager", "approver", "employee"}

(***************************************************************************)
(* The columns of a row that permissions depend on.  An identity has no    *)
(* row before the employee is created ("unused") and after the row was     *)
(* destroyed ("gone"); other rows may keep pointing at it, for the schema  *)
(* declares no foreign keys.                                               *)
(***************************************************************************)
EmployeeRow ==
    [row : {"unused", "stored", "gone"}, active : BOOLEAN, role : Roles,
     approver : Employees \cup {None}]

NoEmployee(row) ==
    [row |-> row, active |-> FALSE, role |-> "employee", approver |-> None]

Present(emp) == {e \in Employees : emp[e].row = "stored"}

IsAdmin(emp, e) == emp[e].role = "admin"

CanAuthoriseLeave(emp, e) == emp[e].role \in {"admin", "manager", "approver"}

\* The approver association: null when the row it points at is gone.
HasApprover(emp, e) == emp[e].approver \in Present(emp)

CanChooseOwnApprover(emp, e) ==
    \/ emp[e].role \in {"admin", "manager"}
    \/ ~HasApprover(emp, e)
    \/ ~emp[emp[e].approver].active

\* account.employees.where(:approver_id => m)
DirectStaff(emp, m) == {e \in Present(emp) : emp[e].approver = m}

(***************************************************************************)
(* build_staff_list descends from the direct staff of m through everybody  *)
(* who is not a plain employee, and stops at m itself.  What it collects   *)
(* is the least set S with this closure property.                          *)
(***************************************************************************)
ClosedUnderStaff(emp, m, S) ==
    /\ DirectStaff(emp, m) \subseteq S
    /\ \A e \in S \ {m} : emp[e].role # "employee" => DirectStaff(emp, e) \subseteq S

Hierarchy(emp, m) ==
    {e \in Present(emp) :
        \A S \in SUBSET Present(emp) : ClosedUnderStaff(emp, m, S) => e \in S}

\* Mutant of StaffOf: managers are treated like approvers.
StaffOneLevelDown(emp, m) ==
    CASE emp[m].role = "admin"    -> Present(emp)
      [] emp[m].role \in {"manager", "approver"} -> DirectStaff(emp, m)
      [] emp[m].role = "employee" -> {}

StaffOf(emp, m) ==
    CASE emp[m].role = "admin"    -> Present(emp)
      [] emp[m].role = "manager"  -> Hierarchy(emp, m)
      [] emp[m].role = "approver" -> DirectStaff(emp, m)
      [] emp[m].role = "employee" -> {}

\* Chains of approvers.
Chains == UNION {[1 .. n -> Employees] : n \in 1 .. Cardinality(Employees)}

\* m is reached from e by following approvers through people with staff.
ReportsTo(emp, e, m) ==
    \E c \in Chains :
        /\ c[1] = e
        /\ \A i \in DOMAIN c :
              /\ c[i] \in Present(emp)
              /\ emp[c[i]].approver = IF i + 1 \in DOMAIN c THEN c[i + 1] ELSE m
        /\ \A i \in DOMAIN c \ {1} : c[i] # m /\ emp[c[i]].role # "employee"

IsManagerOf(emp, m, e) == emp[e].approver = m \/ e \in StaffOf(emp, m)
=============================================================================
