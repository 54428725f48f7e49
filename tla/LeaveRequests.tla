--------------------------- MODULE LeaveRequests ---------------------------
(***************************************************************************)
(* The leave request workflow of one account, as app/models/leave_request  *)
(* .rb and its controllers implement it, with the employee changes that    *)
(* reach into it.  LeaveNotifications adds the mailer jobs its observer    *)
(* leaves for the worker.                                                  *)
(*                                                                         *)
(* The Procfile runs one single-threaded web process and one worker.  A    *)
(* web handler is therefore one atomic action here, except that approving  *)
(* saves twice, each save in a transaction of its own: the process may     *)
(* stop between the two, which the ...Interrupted actions show.            *)
(***************************************************************************)
EXTENDS EmployeeAdmin

CONSTANTS
    Requests,       \* ids that leave_requests rows may get
    LeaveTypes,     \* the leave types of the account
    ApprovalFree,   \* those with approval_required = false
    Constraints,    \* the names of LeaveConstraints that may be violated
    LastDay,        \* dates are the days 1 .. LastDay
    Weekend,        \* the dates that are a Saturday or a Sunday
    FirstDay        \* the later of start_date and take_on_balance_as_at

ASSUME ModelAssumption ==
    /\ ApprovalFree \subseteq LeaveTypes /\ None \notin LeaveTypes
    /\ LastDay \in Nat
    /\ FirstDay \in [Employees -> Int]

VARIABLES
    request,    \* the leave_requests table
    days,       \* the dates of the leave_request_days rows of each request
    today       \* Date.today

vars == <<employee, request, days, today>>

Statuses == {"NEW", "PENDING", "APPROVED", "DECLINED", "CANCELLED", "REINSTATED"}
ACTIVE_STATUSES == {"PENDING", "APPROVED", "REINSTATED"}
APPROVED_STATUSES == {"APPROVED", "REINSTATED"}

Dates == 1 .. LastDay
Person == Employees \cup {None}

(***************************************************************************)
(* "unused" is an id no row has got yet, "gone" the id of a destroyed row. *)
(* captured? is capturedBy # None; the unpaid flag, which approve sets     *)
(* together with the overrides, is not told apart from them.               *)
(***************************************************************************)
LeaveRequestRow ==
    [status : Statuses \cup {"unused", "gone"},
     employee : Person, approver : Person, capturedBy : Person,
     leaveType : LeaveTypes \cup {None},
     dateFrom : Dates \cup {0}, dateTo : Dates \cup {0},
     violations : SUBSET Constraints, overrides : SUBSET Constraints,
     approvedDeclinedBy : Person, cancelledBy : Person, reinstatedBy : Person]

NoRow(status) ==
    [status |-> status, employee |-> None, approver |-> None, capturedBy |-> None,
     leaveType |-> None, dateFrom |-> 0, dateTo |-> 0,
     violations |-> {}, overrides |-> {},
     approvedDeclinedBy |-> None, cancelledBy |-> None, reinstatedBy |-> None]

Stored(r) == request[r].status \in Statuses

Init ==
    /\ EmployeeInit
    /\ request = [r \in Requests |-> NoRow("unused")]
    /\ days = [r \in Requests |-> {}]
    /\ today = 1

-----------------------------------------------------------------------------
(* Permissions.                                                            *)

CanAuthorise(a, row) ==
    /\ CanAuthoriseLeave(employee, a)
    /\ row.approver = a \/ IsManagerOf(employee, a, row.employee)

CanCancel(a, row) ==
    \/ row.status = "PENDING"
    \/ row.employee = a /\ row.dateFrom > today
    \/ row.approver = a
    \/ IsManagerOf(employee, a, row.employee)
    \/ row.employee # a /\ IsAdmin(employee, a)

\* The guard inside approve, weaker than the one its controller has.
MayApprove(a, row) == CanAuthorise(a, row) \/ row.leaveType \in ApprovalFree

\* confirm goes on to approve: captured by its own approver, or nobody has to.
AutoApproves(a, row) ==
    \/ row.capturedBy # None /\ row.approver = a
    \/ row.leaveType \in ApprovalFree

-----------------------------------------------------------------------------
(* Saving a row.  Every save validates that the approver still exists and  *)
(* rebuilds the day rows in its transaction.                               *)

\* Mutant of Weekdays: one date too many.
WeekdaysPastTheEnd(from, to) == (from .. to + 1) \ Weekend

Weekdays(from, to) == (from .. to) \ Weekend

\* Mutant of Save: the approver is not looked up.
SaveUnvalidated(r, row) ==
    /\ request' = [request EXCEPT ![r] = row]
    /\ days' = [days EXCEPT ![r] = Weekdays(row.dateFrom, row.dateTo)]
    /\ UNCHANGED <<employee, today>>

Save(r, row) ==
    /\ row.approver \in Present(employee)
    /\ request' = [request EXCEPT ![r] = row]
    /\ days' = [days EXCEPT ![r] = Weekdays(row.dateFrom, row.dateTo)]
    /\ UNCHANGED <<employee, today>>

\* Mutant of DestroyRequests: the day rows are forgotten.
DestroyRowsOnly(S) ==
    /\ request' = [r \in Requests |-> IF r \in S THEN NoRow("gone") ELSE request[r]]
    /\ UNCHANGED <<days, today>>

\* has_many :leave_request_days, :dependent => :destroy
DestroyRequests(S) ==
    /\ request' = [r \in Requests |-> IF r \in S THEN NoRow("gone") ELSE request[r]]
    /\ days' = [r \in Requests |-> IF r \in S THEN {} ELSE days[r]]
    /\ UNCHANGED today

Pending(row, o) == [row EXCEPT !.status = "PENDING", !.overrides = o]
Approved(row, a) == [row EXCEPT !.status = "APPROVED", !.approvedDeclinedBy = a]

-----------------------------------------------------------------------------
(* Creating a request.                                                     *)

NewRow(e, ap, by, t, from, to, v) ==
    [NoRow("NEW") EXCEPT !.employee = e, !.approver = ap, !.capturedBy = by,
                         !.leaveType = t, !.dateFrom = from, !.dateTo = to,
                         !.violations = v, !.overrides = v]

\* The SQL condition of must_not_overlap_with_another_request.
Intersects(row, other) ==
    \/ row.dateFrom \in other.dateFrom .. other.dateTo
    \/ row.dateTo \in other.dateFrom .. other.dateTo
    \/ row.dateFrom <= other.dateFrom /\ row.dateTo >= other.dateTo

\* Mutant of ValidOnCreate: requests that still wait do not count.
ValidBesideApproved(row) ==
    /\ row.dateFrom <= row.dateTo
    /\ \A s \in Requests :
          request[s].status \in APPROVED_STATUSES /\ request[s].employee = row.employee
            => ~Intersects(row, request[s])
    /\ row.dateFrom >= FirstDay[row.employee]

ValidOnCreate(row) ==
    /\ row.dateFrom <= row.dateTo
    /\ \A s \in Requests :
          request[s].status \in ACTIVE_STATUSES /\ request[s].employee = row.employee
            => ~Intersects(row, request[s])
    /\ row.dateFrom >= FirstDay[row.employee]

(***************************************************************************)
(* request! and capture! for a new row: rows that violate a constraint     *)
(* stay NEW until somebody confirms them, the others are confirmed on the  *)
(* spot by a.  A confirmation that approves inserts the row as PENDING     *)
(* first and updates it afterwards.                                        *)
(***************************************************************************)
Insert(a, r, row) ==
    /\ request[r].status = "unused"
    /\ ValidOnCreate(row)
    /\ \/ row.violations # {} /\ Save(r, row)
       \/ /\ row.violations = {}
          /\ ~AutoApproves(a, row)
          /\ Save(r, Pending(row, {}))
       \/ /\ row.violations = {}
          /\ AutoApproves(a, row)
          /\ MayApprove(a, row)
          /\ Save(r, Approved(Pending(row, {}), a))

InsertInterrupted(a, r, row) ==
    /\ request[r].status = "unused"
    /\ ValidOnCreate(row)
    /\ row.violations = {}
    /\ AutoApproves(a, row)
    /\ MayApprove(a, row)
    /\ Save(r, Pending(row, {}))

\* The approver a form may name besides the one the controller falls back on.
ApproverChoices(a, fallback) ==
    {fallback} \cup
    IF CanChooseOwnApprover(employee, a)
    THEN {e \in Employees : Actor(e) /\ CanAuthoriseLeave(employee, e)}
    ELSE {}

\* The filled-in forms: a row for employee e, captured by somebody or not.
Forms(a, e, by, fallback) ==
    {NewRow(e, ap, by, t, from, to, v) :
        ap \in ApproverChoices(a, fallback) \ {None}, t \in LeaveTypes,
        from \in Dates, to \in Dates, v \in SUBSET Constraints}

OwnForms(a) == Forms(a, a, None, employee[a].approver)
StaffForms(a) == UNION {Forms(a, e, a, a) : e \in Present(employee)}

Request(a, r) ==
    /\ Actor(a)
    /\ \E row \in OwnForms(a) : Insert(a, r, row)

RequestInterrupted(a, r) ==
    /\ Actor(a)
    /\ \E row \in OwnForms(a) : InsertInterrupted(a, r, row)

Capture(a, r) ==
    /\ Actor(a)
    /\ \E row \in StaffForms(a) : Insert(a, r, row)

CaptureInterrupted(a, r) ==
    /\ Actor(a)
    /\ \E row \in StaffForms(a) : InsertInterrupted(a, r, row)

-----------------------------------------------------------------------------
(* Deciding about a request.  o is the set of override boxes ticked.       *)

Confirm(a, r, o) ==
    /\ Actor(a)
    /\ request[r].status = "NEW"
    /\ \/ /\ ~AutoApproves(a, request[r])
          /\ Save(r, Pending(request[r], request[r].overrides))
       \/ /\ AutoApproves(a, request[r])
          /\ MayApprove(a, request[r])
          /\ Save(r, Approved(Pending(request[r], o), a))

ConfirmInterrupted(a, r, o) ==
    /\ Actor(a)
    /\ request[r].status = "NEW"
    /\ AutoApproves(a, request[r])
    /\ MayApprove(a, request[r])
    /\ Save(r, Pending(request[r], o))

Approve(a, r, o) ==
    /\ Actor(a)
    /\ request[r].status = "PENDING"
    /\ CanAuthorise(a, request[r])
    /\ Save(r, Approved(Pending(request[r], o), a))

ApproveInterrupted(a, r, o) ==
    /\ Actor(a)
    /\ request[r].status = "PENDING"
    /\ CanAuthorise(a, request[r])
    /\ Save(r, Pending(request[r], o))

Decline(a, r) ==
    /\ Actor(a)
    /\ request[r].status = "PENDING"
    /\ CanAuthorise(a, request[r])
    /\ Save(r, [request[r] EXCEPT !.status = "DECLINED", !.approvedDeclinedBy = a])

Cancel(a, r) ==
    /\ Actor(a)
    /\ Stored(r)
    /\ CanCancel(a, request[r])
    /\ IF request[r].status = "NEW"
       THEN DestroyRequests({r}) /\ UNCHANGED employee
       ELSE Save(r, [request[r] EXCEPT !.status = "CANCELLED", !.cancelledBy = a])

\* Mutants of Reinstate: the cancellation details stay; whoever might cancel
\* the request may restore it.
ReinstateKeepingDetails(a, r) ==
    /\ Actor(a)
    /\ request[r].status = "CANCELLED"
    /\ CanAuthorise(a, request[r])
    /\ Save(r, [request[r] EXCEPT !.status = "REINSTATED", !.reinstatedBy = a])

ReinstateByCanceller(a, r) ==
    /\ Actor(a)
    /\ request[r].status = "CANCELLED"
    /\ CanCancel(a, request[r])
    /\ Save(r, [request[r] EXCEPT !.status = "REINSTATED", !.cancelledBy = None,
                                  !.reinstatedBy = a])

Reinstate(a, r) ==
    /\ Actor(a)
    /\ request[r].status = "CANCELLED"
    /\ CanAuthorise(a, request[r])
    /\ Save(r, [request[r] EXCEPT !.status = "REINSTATED", !.cancelledBy = None,
                                  !.reinstatedBy = a])

\* The controller checks neither the status nor can_update_constraints?.
UpdateConstraints(a, r, o) ==
    /\ Actor(a)
    /\ Stored(r)
    /\ Save(r, [request[r] EXCEPT !.overrides = o])

-----------------------------------------------------------------------------
(* Employees change under the requests.                                    *)

ChangeEmployee(a) ==
    /\ EmployeeChange(a)
    /\ UNCHANGED <<request, days, today>>

\* Mutant of DestroyEmployee: without the dependent requests.
DestroyEmployeeOnly(a, e) ==
    /\ DestroyEmployeeRow(a, e)
    /\ UNCHANGED <<request, days, today>>

\* has_many :leave_requests, :dependent => :destroy
DestroyEmployee(a, e) ==
    /\ DestroyEmployeeRow(a, e)
    /\ DestroyRequests({r \in Requests : request[r].employee = e})

NextDay ==
    /\ today < LastDay
    /\ today' = today + 1
    /\ UNCHANGED <<employee, request, days>>

-----------------------------------------------------------------------------

Handler(a, r) ==
    \/ Request(a, r)
    \/ RequestInterrupted(a, r)
    \/ Capture(a, r)
    \/ CaptureInterrupted(a, r)
    \/ \E o \in SUBSET Constraints :
          \/ Confirm(a, r, o)
          \/ ConfirmInterrupted(a, r, o)
          \/ Approve(a, r, o)
          \/ ApproveInterrupted(a, r, o)
          \/ UpdateConstraints(a, r, o)
    \/ Decline(a, r)
    \/ Cancel(a, r)
    \/ Reinstate(a, r)

Next ==
    \/ \E a \in Employees, r \in Requests : Handler(a, r)
    \/ \E a \in Employees : ChangeEmployee(a)
    \/ \E a \in Employees, e \in Leavers : DestroyEmployee(a, e)
    \/ NextDay

Spec == Init /\ [][Next]_vars

-----------------------------------------------------------------------------
(* Properties.                                                             *)

\* Every row has the columns its table declares.
TypeOK ==
    /\ EmployeeTypeOK
    /\ request \in [Requests -> LeaveRequestRow]
    /\ days \in [Requests -> SUBSET Dates]
    /\ today \in Nat

Undecided(row) == row.approvedDeclinedBy = None /\ row.reinstatedBy = None

(***************************************************************************)
(* The audit columns agree with the status, whatever sequence of handlers  *)
(* led to it: a decided request names who decided, a cancelled one who     *)
(* cancelled it, and the cancellation details are cleared by reinstating   *)
(* and set by nothing else (leave_request.rb:292-327).                     *)
(***************************************************************************)
AuditTrail ==
    \A r \in Requests : LET row == request[r] IN
        /\ row.status \in {"NEW", "PENDING"} => Undecided(row)
        /\ row.status \in {"APPROVED", "DECLINED"} =>
              row.approvedDeclinedBy # None /\ row.reinstatedBy = None
        /\ row.status = "REINSTATED" => row.reinstatedBy # None
        /\ row.status = "CANCELLED" <=> row.cancelledBy # None

(***************************************************************************)
(* Deleting an employee leaves none of his requests and day rows behind,   *)
(* in any state of the workflow: what is stored has an owner, and the      *)
(* calendar holds days of stored requests only.                            *)
(***************************************************************************)
NoOrphans ==
    \A r \in Requests :
        /\ Stored(r) => request[r].employee \in Present(employee)
        /\ days[r] # {} => Stored(r)

\* Held back with warnings when it was created, or brought back later.
Returned(row) == row.violations # {} \/ row.status = "REINSTATED"

(***************************************************************************)
(* The leave balance and the heat map count the day rows of active         *)
(* requests (leave_request_day.rb:11-18).  A day is counted twice for one  *)
(* employee only because the overlap validation runs on creation alone: at *)
(* least one of the two requests was not active then, having been held     *)
(* back with warnings, or has been reinstated since.                       *)
(***************************************************************************)
DoubleCountExplained ==
    \A r, s \in Requests :
        /\ r # s
        /\ request[r].status \in ACTIVE_STATUSES
        /\ request[s].status \in ACTIVE_STATUSES
        /\ request[r].employee = request[s].employee
        /\ days[r] \cap days[s] # {}
        => Returned(request[r]) \/ Returned(request[s])

(***************************************************************************)
(* The inductive invariant behind the properties above: an id without a    *)
(* row holds nothing, a stored row refers to somebody and to dates, only   *)
(* rows with warnings wait as NEW, the day rows are the weekdays of the    *)
(* request, and requests that intersect are explained.                     *)
(***************************************************************************)
WellFormed ==
    \A r \in Requests :
        IF Stored(r)
        THEN /\ request[r].employee \in Employees
             /\ request[r].approver \in Employees
             /\ request[r].dateFrom \in Dates /\ request[r].dateTo \in Dates
             /\ request[r].status = "NEW" => request[r].violations # {}
        ELSE request[r] = NoRow(request[r].status)

CalendarMatches ==
    \A r \in Requests :
        days[r] = IF Stored(r)
                  THEN Weekdays(request[r].dateFrom, request[r].dateTo)
                  ELSE {}

OverlapExplained ==
    \A r, s \in Requests :
        /\ r # s
        /\ request[r].status \in ACTIVE_STATUSES
        /\ request[s].status \in ACTIVE_STATUSES
        /\ request[r].employee = request[s].employee
        /\ Intersects(request[r], request[s])
        => Returned(request[r]) \/ Returned(request[s])

WorkflowInv ==
    TypeOK /\ WellFormed /\ AuditTrail /\ NoOrphans /\ CalendarMatches /\ OverlapExplained

(***************************************************************************)
(* "validates :approver, :existence => true" (leave_request.rb:91) does    *)
(* not keep approvers from being deleted, but it keeps every handler from  *)
(* saving the requests they leave behind: a request whose approver is gone *)
(* rests as it is until it is destroyed, and only a deletion takes the     *)
(* approver of a stored request away.                                      *)
(***************************************************************************)
Stranded(r) == Stored(r) /\ request[r].approver \notin Present(employee)

StrandedStays ==
    [][\A r \in Requests :
          /\ Stranded(r) => request'[r] \in {request[r], NoRow("gone")}
          /\ Stranded(r)' => Stranded(r) \/ employee'[request'[r].approver].row = "gone"]_vars

(***************************************************************************)
(* The workflow keeps the promises of LeaveLedger: leave is granted only   *)
(* in the name of somebody with authority at that moment, and a refusal    *)
(* stands until it is withdrawn and restored by somebody with authority.   *)
(***************************************************************************)
PhaseOf(status) ==
    CASE status = "NEW" -> "draft"
      [] status = "PENDING" -> "asked"
      [] status \in APPROVED_STATUSES -> "granted"
      [] status = "DECLINED" -> "refused"
      [] status = "CANCELLED" -> "withdrawn"
      [] status = "unused" -> "unused"
      [] status = "gone" -> "erased"

GrantorOf(row) ==
    CASE row.status = "APPROVED" -> row.approvedDeclinedBy
      [] row.status = "REINSTATED" -> row.reinstatedBy
      [] OTHER -> None

AuthorityOver(r) ==
    IF Stored(r) THEN {e \in Present(employee) : CanAuthorise(e, request[r])} ELSE {}

Ledger == INSTANCE LeaveLedger WITH
    phase <- [r \in Requests |-> PhaseOf(request[r].status)],
    grantor <- [r \in Requests |-> GrantorOf(request[r])],
    authority <- [r \in Requests |-> AuthorityOver(r)],
    free <- {r \in Requests : request[r].leaveType \in ApprovalFree}

KeepsLedger == Ledger!LedgerSpec
=============================================================================
