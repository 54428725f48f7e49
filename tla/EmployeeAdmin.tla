--------------------------- MODULE EmployeeAdmin ---------------------------
(***************************************************************************)
(* What administrators do to the employees table of an account through     *)
(* app/controllers/tenant/employees_controller.rb, with the validations of *)
(* app/models/employee.rb that involve a second row.                       *)
(***************************************************************************)
EXTENDS Staff

CONSTANTS
    Staffing,       \* the table at the start
    Hires,          \* bound: the forms submitted for new employees
    Edits,          \* bound: the forms submitted for existing ones
    Suspendable,    \* bound: the employees that are (de)activated
    Leavers         \* bound: the employees that are deleted

EmployeeForm == [who : Employees, role : Roles, approver : Employees \cup {None},
                 active : BOOLEAN]

ASSUME AdminAssumption ==
    /\ Staffing \in [Employees -> EmployeeRow]
    /\ Hires \subseteq EmployeeForm
    /\ Edits \subseteq EmployeeForm
    /\ Suspendable \subseteq Employees
    /\ Leavers \subseteq Employees

VARIABLE employee   \* the employees table

EmployeeInit == employee = Staffing

\* Only a stored and active employee gets past authenticate_employee!.
Actor(a) == a \in Present(employee) /\ employee[a].active

\* ensure_admin
Administers(a) == Actor(a) /\ IsAdmin(employee, a)

\* Everybody but an administrator needs an approver that exists.
SaveEmployee(e, row) ==
    /\ row.approver \in Present(employee) \/ row.role = "admin"
    /\ employee' = [employee EXCEPT ![e] = row]

SaveForm(form) ==
    SaveEmployee(form.who, [row |-> "stored", active |-> form.active, role |-> form.role,
                            approver |-> form.approver])

CreateEmployee(a, form) ==
    /\ Administers(a)
    /\ employee[form.who].row = "unused"
    /\ SaveForm(form)

EditEmployee(a, form) ==
    /\ Administers(a)
    /\ form.who \in Present(employee)
    /\ SaveForm(form)

\* deactivate and reactivate
SetActive(a, e, active) ==
    /\ Administers(a)
    /\ e \in Present(employee)
    /\ SaveEmployee(e, [employee[e] EXCEPT !.active = active])

\* The row only; LeaveRequests adds what goes with it.
DestroyEmployeeRow(a, e) ==
    /\ Administers(a)
    /\ e \in Present(employee)
    /\ employee' = [employee EXCEPT ![e] = NoEmployee("gone")]

EmployeeChange(a) ==
    \/ \E form \in Hires : CreateEmployee(a, form)
    \/ \E form \in Edits : EditEmployee(a, form)
    \/ \E e \in Suspendable, active \in BOOLEAN : SetActive(a, e, active)

EmployeeNext ==
    \E a \in Employees :
        EmployeeChange(a) \/ \E e \in Leavers : DestroyEmployeeRow(a, e)

EmployeeSpec == EmployeeInit /\ [][EmployeeNext]_employee

\* Every row has the columns the permissions read.
EmployeeTypeOK == employee \in [Employees -> EmployeeRow]

(***************************************************************************)
(* The staff of a manager, on which his permissions depend, are the people *)
(* whose chain of approvers leads up to him through people with staff of   *)
(* their own, whatever graph of approvers the administrators draw, loops   *)
(* included (employee.rb:259-277, 293-318).                                *)
(***************************************************************************)
StaffReportUp ==
    \A m \in Present(employee) : employee[m].role = "manager" =>
        StaffOf(employee, m) = {e \in Employees : ReportsTo(employee, e, m)}

(***************************************************************************)
(* What somebody may do to his staff, every manager above him may do too:  *)
(* the staff of a member of a manager's staff, approver or manager, are    *)
(* staff of the manager, in loops of approvers as well, where each is on   *)
(* the other's list and the lists stop at different people                 *)
(* (employee.rb:259-277, 297-318).                                         *)
(***************************************************************************)
StaffNests ==
    \A m \in Present(employee) : employee[m].role = "manager" =>
        \A e \in StaffOf(employee, m) : employee[e].role # "admin" =>
            StaffOf(employee, e) \subseteq StaffOf(employee, m)
=============================================================================
