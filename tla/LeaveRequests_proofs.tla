----------------------- MODULE LeaveRequests_proofs -----------------------
(***************************************************************************)
(* Proofs about the leave request workflow, for every account: any set of  *)
(* employees, requests, leave types, constraints and dates, any staffing   *)
(* at the start and any forms the administrators may submit.               *)
(***************************************************************************)
EXTENDS LeaveRequests, EmployeeAdmin_proofs

USE NoneAssumption, AdminAssumption, ModelAssumption

-----------------------------------------------------------------------------
(* What the handlers do to a row, seen from outside.                       *)

\* A new row that employee a has filled in.
Filed(a, r, row) ==
    /\ request[r].status = "unused"
    /\ ValidOnCreate(row)
    /\ row.employee \in Present(employee) /\ row.capturedBy \in {None, a}
    /\ row.dateFrom \in Dates /\ row.dateTo \in Dates
    /\ row.cancelledBy = None /\ row.reinstatedBy = None
    /\ \/ row.status = "NEW" /\ row.violations # {} /\ row.approvedDeclinedBy = None
       \/ row.status = "PENDING" /\ row.approvedDeclinedBy = None
       \/ /\ row.status = "APPROVED" /\ row.approvedDeclinedBy = a
          /\ MayApprove(a, row)

\* What a request is about never changes once it is stored.
SameLeave(old, row) ==
    /\ row.employee = old.employee /\ row.approver = old.approver
    /\ row.leaveType = old.leaveType /\ row.capturedBy = old.capturedBy
    /\ row.dateFrom = old.dateFrom /\ row.dateTo = old.dateTo
    /\ row.violations = old.violations

SameNames(old, row) ==
    /\ row.approvedDeclinedBy = old.approvedDeclinedBy
    /\ row.cancelledBy = old.cancelledBy
    /\ row.reinstatedBy = old.reinstatedBy

\* A stored row that employee a has moved on.
Moved(a, old, row) ==
    /\ old.status \in Statuses
    /\ SameLeave(old, row)
    /\ \/ row.status = old.status /\ SameNames(old, row)
       \/ old.status = "NEW" /\ row.status = "PENDING" /\ SameNames(old, row)
       \/ /\ old.status \in {"NEW", "PENDING"} /\ row.status = "APPROVED"
          /\ MayApprove(a, old)
          /\ row.approvedDeclinedBy = a
          /\ row.cancelledBy = old.cancelledBy /\ row.reinstatedBy = old.reinstatedBy
       \/ /\ old.status = "PENDING" /\ row.status = "DECLINED"
          /\ row.approvedDeclinedBy = a
          /\ row.cancelledBy = old.cancelledBy /\ row.reinstatedBy = old.reinstatedBy
       \/ /\ old.status # "NEW" /\ row.status = "CANCELLED"
          /\ row.cancelledBy = a
       \/ /\ old.status = "CANCELLED" /\ row.status = "REINSTATED"
          /\ CanAuthorise(a, old)
          /\ row.cancelledBy = None /\ row.reinstatedBy = a

Effect(a, r) ==
    \/ \E row \in LeaveRequestRow :
          Save(r, row) /\ (Filed(a, r, row) \/ Moved(a, request[r], row))
    \/ request[r].status = "NEW" /\ DestroyRequests({r}) /\ UNCHANGED employee

LEMMA FormType ==
    ASSUME NEW a \in Employees, NEW e \in Present(employee), NEW by \in Person,
           NEW fallback \in Person, NEW row \in Forms(a, e, by, fallback)
    PROVE  /\ row \in LeaveRequestRow
           /\ row.employee = e /\ row.capturedBy = by /\ row.status = "NEW"
           /\ row.dateFrom \in Dates /\ row.dateTo \in Dates
           /\ row.approvedDeclinedBy = None /\ row.cancelledBy = None
           /\ row.reinstatedBy = None
<1>1. PICK ap \in ApproverChoices(a, fallback) \ {None}, t \in LeaveTypes,
           from \in Dates, to \in Dates, v \in SUBSET Constraints :
           row = NewRow(e, ap, by, t, from, to, v)
  BY DEF Forms
<1>2. ap \in Employees /\ e \in Employees
  BY DEF ApproverChoices, Person, Present
<1> QED BY <1>1, <1>2 DEF NewRow, NoRow, LeaveRequestRow, Person, Statuses

LEMMA InsertEffect ==
    ASSUME NEW a \in Employees, NEW r \in Requests, NEW row \in LeaveRequestRow,
           row.employee \in Present(employee), row.capturedBy \in {None, a},
           row.status = "NEW",
           row.dateFrom \in Dates, row.dateTo \in Dates,
           row.approvedDeclinedBy = None, row.cancelledBy = None,
           row.reinstatedBy = None,
           Insert(a, r, row) \/ InsertInterrupted(a, r, row)
    PROVE  Effect(a, r)
<1> DEFINE pending == Pending(row, {})
           approved == Approved(pending, a)
<1>1. pending \in LeaveRequestRow /\ approved \in LeaveRequestRow
  BY DEF Pending, Approved, LeaveRequestRow, Person, Statuses
<1>2. ASSUME ValidOnCreate(row) PROVE ValidOnCreate(pending) /\ ValidOnCreate(approved)
  BY <1>2 DEF ValidOnCreate, Intersects, Pending, Approved, LeaveRequestRow
<1>3. ASSUME MayApprove(a, row) PROVE MayApprove(a, approved)
  BY <1>3 DEF MayApprove, CanAuthorise, Pending, Approved, LeaveRequestRow
<1>4. ASSUME request[r].status = "unused", ValidOnCreate(row)
      PROVE  /\ row.violations # {} => Filed(a, r, row)
             /\ Filed(a, r, pending)
             /\ MayApprove(a, row) => Filed(a, r, approved)
  BY <1>2, <1>3, <1>4 DEF Filed, Pending, Approved, LeaveRequestRow
<1> QED BY <1>1, <1>4 DEF Insert, InsertInterrupted, Effect

LEMMA CreateEffect ==
    ASSUME NEW a \in Employees, NEW r \in Requests,
           \/ Request(a, r) \/ RequestInterrupted(a, r)
           \/ Capture(a, r) \/ CaptureInterrupted(a, r),
           EmployeeTypeOK
    PROVE  Effect(a, r)
<1>1. a \in Present(employee)
  BY DEF Request, RequestInterrupted, Capture, CaptureInterrupted, Actor
<1>2. ASSUME NEW row \in OwnForms(a),
             Insert(a, r, row) \/ InsertInterrupted(a, r, row)
      PROVE  Effect(a, r)
  <2>1. None \in Person /\ employee[a].approver \in Person
    BY DEF EmployeeTypeOK, EmployeeRow, Person
  <2>2. row \in Forms(a, a, None, employee[a].approver)
    BY <1>2 DEF OwnForms
  <2> QED BY <1>1, <1>2, <2>1, <2>2, FormType, InsertEffect
<1>3. ASSUME NEW row \in StaffForms(a),
             Insert(a, r, row) \/ InsertInterrupted(a, r, row)
      PROVE  Effect(a, r)
  <2>1. PICK e \in Present(employee) : row \in Forms(a, e, a, a)
    BY <1>3 DEF StaffForms
  <2>2. a \in Person
    BY DEF Person
  <2> QED BY <1>3, <2>1, <2>2, FormType, InsertEffect
<1> QED BY <1>2, <1>3 DEF Request, RequestInterrupted, Capture, CaptureInterrupted

(* The rows the decisions write, one lemma per kind of decision.           *)

LEMMA PendingRow ==
    ASSUME NEW a \in Employees, NEW old \in LeaveRequestRow, NEW o \in SUBSET Constraints
    PROVE  /\ Pending(old, o) \in LeaveRequestRow
           /\ old.status \in {"NEW", "PENDING"} => Moved(a, old, Pending(old, o))
<1>1. Pending(old, o) \in LeaveRequestRow
  BY DEF Pending, LeaveRequestRow, Statuses
<1>2. SameLeave(old, Pending(old, o)) /\ SameNames(old, Pending(old, o))
      /\ Pending(old, o).status = "PENDING"
  BY DEF Pending, LeaveRequestRow, SameLeave, SameNames
<1> QED BY <1>1, <1>2 DEF Moved, Statuses

LEMMA ApprovedRow ==
    ASSUME NEW a \in Employees, NEW old \in LeaveRequestRow, NEW o \in SUBSET Constraints
    PROVE  LET row == Approved(Pending(old, o), a) IN
           /\ row \in LeaveRequestRow
           /\ old.status \in {"NEW", "PENDING"} /\ MayApprove(a, old)
                => Moved(a, old, row)
<1> DEFINE row == Approved(Pending(old, o), a)
<1>1. row \in LeaveRequestRow
  BY DEF Approved, Pending, LeaveRequestRow, Statuses, Person
<1>2. /\ SameLeave(old, row)
      /\ row.cancelledBy = old.cancelledBy /\ row.reinstatedBy = old.reinstatedBy
      /\ row.status = "APPROVED" /\ row.approvedDeclinedBy = a
  BY DEF Approved, Pending, LeaveRequestRow, SameLeave
<1> QED BY <1>1, <1>2 DEF Moved, Statuses

LEMMA DeclinedRow ==
    ASSUME NEW a \in Employees, NEW old \in LeaveRequestRow
    PROVE  LET row == [old EXCEPT !.status = "DECLINED", !.approvedDeclinedBy = a] IN
           row \in LeaveRequestRow /\ (old.status = "PENDING" => Moved(a, old, row))
<1> DEFINE row == [old EXCEPT !.status = "DECLINED", !.approvedDeclinedBy = a]
<1>1. row \in LeaveRequestRow
  BY DEF LeaveRequestRow, Statuses, Person
<1>2. /\ SameLeave(old, row)
      /\ row.cancelledBy = old.cancelledBy /\ row.reinstatedBy = old.reinstatedBy
      /\ row.status = "DECLINED" /\ row.approvedDeclinedBy = a
  BY DEF LeaveRequestRow, SameLeave
<1> QED BY <1>1, <1>2 DEF Moved, Statuses

LEMMA CancelledRow ==
    ASSUME NEW a \in Employees, NEW old \in LeaveRequestRow
    PROVE  LET row == [old EXCEPT !.status = "CANCELLED", !.cancelledBy = a] IN
           /\ row \in LeaveRequestRow
           /\ old.status \in Statuses /\ old.status # "NEW" => Moved(a, old, row)
<1> DEFINE row == [old EXCEPT !.status = "CANCELLED", !.cancelledBy = a]
<1>1. row \in LeaveRequestRow
  BY DEF LeaveRequestRow, Statuses, Person
<1>2. SameLeave(old, row) /\ row.status = "CANCELLED" /\ row.cancelledBy = a
  BY DEF LeaveRequestRow, SameLeave
<1> QED BY <1>1, <1>2 DEF Moved

LEMMA ReinstatedRow ==
    ASSUME NEW a \in Employees, NEW old \in LeaveRequestRow
    PROVE  LET row == [old EXCEPT !.status = "REINSTATED", !.cancelledBy = None,
                                  !.reinstatedBy = a] IN
           /\ row \in LeaveRequestRow
           /\ old.status = "CANCELLED" /\ CanAuthorise(a, old) => Moved(a, old, row)
<1> DEFINE row == [old EXCEPT !.status = "REINSTATED", !.cancelledBy = None,
                              !.reinstatedBy = a]
<1>1. row \in LeaveRequestRow
  BY DEF LeaveRequestRow, Statuses, Person
<1>2. SameLeave(old, row) /\ row.status = "REINSTATED" /\ row.cancelledBy = None
      /\ row.reinstatedBy = a
  BY DEF LeaveRequestRow, SameLeave
<1> QED BY <1>1, <1>2 DEF Moved, Statuses

LEMMA OverriddenRow ==
    ASSUME NEW a \in Employees, NEW old \in LeaveRequestRow, NEW o \in SUBSET Constraints
    PROVE  LET row == [old EXCEPT !.overrides = o] IN
           row \in LeaveRequestRow /\ (old.status \in Statuses => Moved(a, old, row))
<1> DEFINE row == [old EXCEPT !.overrides = o]
<1>1. row \in LeaveRequestRow
  BY DEF LeaveRequestRow
<1>2. SameLeave(old, row) /\ SameNames(old, row) /\ row.status = old.status
  BY DEF LeaveRequestRow, SameLeave, SameNames
<1> QED BY <1>1, <1>2 DEF Moved

LEMMA HandlerEffect ==
    ASSUME NEW a \in Employees, NEW r \in Requests,
           EmployeeTypeOK, request[r] \in LeaveRequestRow, Handler(a, r)
    PROVE  Effect(a, r)
<1>0. EmployeeTypeOK /\ request[r] \in LeaveRequestRow
  OBVIOUS
<1>1. CASE \/ Request(a, r) \/ RequestInterrupted(a, r)
           \/ Capture(a, r) \/ CaptureInterrupted(a, r)
  BY <1>0, <1>1, CreateEffect
<1>2. ASSUME NEW o \in SUBSET Constraints, Confirm(a, r, o)
      PROVE  Effect(a, r)
  <2>1. request[r].overrides \in SUBSET Constraints
    BY <1>0 DEF LeaveRequestRow
  <2> QED BY <1>0, <1>2, <2>1, PendingRow, ApprovedRow DEF Confirm, Effect
<1>3. ASSUME NEW o \in SUBSET Constraints, ConfirmInterrupted(a, r, o)
      PROVE  Effect(a, r)
  BY <1>0, <1>3, PendingRow DEF ConfirmInterrupted, Effect
<1>4. ASSUME NEW o \in SUBSET Constraints, Approve(a, r, o)
      PROVE  Effect(a, r)
  BY <1>0, <1>4, ApprovedRow DEF Approve, Effect, MayApprove
<1>5. ASSUME NEW o \in SUBSET Constraints, ApproveInterrupted(a, r, o)
      PROVE  Effect(a, r)
  BY <1>0, <1>5, PendingRow DEF ApproveInterrupted, Effect
<1>6. ASSUME NEW o \in SUBSET Constraints, UpdateConstraints(a, r, o)
      PROVE  Effect(a, r)
  BY <1>0, <1>6, OverriddenRow DEF UpdateConstraints, Effect, Stored
<1>7. CASE Decline(a, r)
  BY <1>0, <1>7, DeclinedRow DEF Decline, Effect
<1>8. CASE Cancel(a, r)
  BY <1>0, <1>8, CancelledRow DEF Cancel, Effect, Stored
<1>9. CASE Reinstate(a, r)
  BY <1>0, <1>9, ReinstatedRow DEF Reinstate, Effect
<1> QED BY <1>1, <1>2, <1>3, <1>4, <1>5, <1>6, <1>7, <1>8, <1>9 DEF Handler

(***************************************************************************)
(* Every step is one of four: a row is saved, requests are destroyed       *)
(* together with their owner or while NEW, an employee changes, or a day   *)
(* passes.                                                                 *)
(***************************************************************************)
Saves ==
    \E a \in Present(employee), r \in Requests, row \in LeaveRequestRow :
        Save(r, row) /\ (Filed(a, r, row) \/ Moved(a, request[r], row))

Discards ==
    \E r \in Requests :
        request[r].status = "NEW" /\ DestroyRequests({r}) /\ UNCHANGED employee

Changes == \E a \in Employees : ChangeEmployee(a)

Leaves == \E a \in Employees, e \in Leavers : DestroyEmployee(a, e)

LEMMA HandlerActor ==
    ASSUME NEW a \in Employees, NEW r \in Requests, Handler(a, r)
    PROVE  a \in Present(employee)
BY DEF Handler, Actor, Request, RequestInterrupted, Capture, CaptureInterrupted,
       Confirm, ConfirmInterrupted, Approve, ApproveInterrupted, UpdateConstraints,
       Decline, Cancel, Reinstate

LEMMA StepKinds ==
    TypeOK /\ [Next]_vars => Saves \/ Discards \/ Changes \/ Leaves \/ NextDay \/ UNCHANGED vars
BY HandlerEffect, HandlerActor DEF TypeOK, Next, Effect, Saves, Discards, Changes, Leaves

-----------------------------------------------------------------------------
(* The invariant.                                                          *)

LEMMA InitInv == Init => WorkflowInv
<1> SUFFICES ASSUME Init PROVE WorkflowInv
  OBVIOUS
<1>1. \A r \in Requests : request[r] = NoRow("unused") /\ ~Stored(r) /\ days[r] = {}
  BY DEF Init, NoRow, Stored, Statuses
<1>2. NoRow("unused") \in LeaveRequestRow
  BY DEF NoRow, LeaveRequestRow, Person
<1>3. TypeOK
  BY <1>2, EmployeeInitType DEF Init, TypeOK
<1>4. NoRow("unused").status = "unused"
  BY DEF NoRow
<1>5. WellFormed
  BY <1>1, <1>4 DEF WellFormed
<1>6. NoOrphans /\ CalendarMatches
  BY <1>1 DEF NoOrphans, CalendarMatches
<1>7. AuditTrail
  BY <1>1 DEF AuditTrail, NoRow, Undecided
<1>8. OverlapExplained
  BY <1>1 DEF OverlapExplained, NoRow, ACTIVE_STATUSES
<1> QED BY <1>3, <1>5, <1>6, <1>7, <1>8 DEF WorkflowInv

LEMMA NoRowType ==
    /\ NoRow("gone") \in LeaveRequestRow
    /\ NoRow("gone").status = "gone" /\ NoRow("gone").employee = None
    /\ NoRow("gone").cancelledBy = None
BY DEF NoRow, LeaveRequestRow, Person

(***************************************************************************)
(* A save does not make two active requests of one employee intersect that *)
(* did not before, unless one of them has been returned, or for an excuse  *)
(* that either of them had.                                                *)
(***************************************************************************)
LEMMA OverlapAfterSave ==
    ASSUME NEW a, NEW r \in Requests, NEW s \in Requests, NEW row \in LeaveRequestRow,
           NEW excuse \in BOOLEAN,
           request[r] \in LeaveRequestRow, request[s] \in LeaveRequestRow,
           Filed(a, r, row) \/ Moved(a, request[r], row),
           request[r].status = "NEW" => request[r].violations # {} \/ excuse,
           /\ request[r].status \in ACTIVE_STATUSES
           /\ request[s].status \in ACTIVE_STATUSES
           /\ request[r].employee = request[s].employee
           /\ Intersects(request[r], request[s]) \/ Intersects(request[s], request[r])
           => Returned(request[r]) \/ Returned(request[s]) \/ excuse,
           row.status \in ACTIVE_STATUSES, request[s].status \in ACTIVE_STATUSES,
           row.employee = request[s].employee,
           Intersects(row, request[s]) \/ Intersects(request[s], row)
    PROVE  Returned(row) \/ Returned(request[s]) \/ excuse
<1> DEFINE old == request[r]
<1>1. /\ row.dateFrom \in Int /\ row.dateTo \in Int
      /\ request[s].dateFrom \in Int /\ request[s].dateTo \in Int
  BY DEF LeaveRequestRow, Dates
<1>2. CASE Filed(a, r, row)
  <2>1. row.dateFrom <= row.dateTo /\ ~Intersects(row, request[s])
    BY <1>2 DEF Filed, ValidOnCreate
  <2> QED BY <1>1, <2>1 DEF Intersects
<1>3. CASE Moved(a, old, row) /\ old.status = "NEW"
  BY <1>3 DEF Moved, SameLeave, Returned
<1>4. CASE Moved(a, old, row) /\ old.status = "CANCELLED"
  BY <1>4 DEF Moved, Returned, ACTIVE_STATUSES
<1>5. CASE Moved(a, old, row) /\ old.status \in ACTIVE_STATUSES
  <2>1. /\ row.employee = old.employee /\ row.violations = old.violations
        /\ row.dateFrom = old.dateFrom /\ row.dateTo = old.dateTo
        /\ old.status = "REINSTATED" => row.status = "REINSTATED"
    BY <1>5 DEF Moved, SameLeave, ACTIVE_STATUSES
  <2>2. Intersects(old, request[s]) \/ Intersects(request[s], old)
    BY <2>1 DEF Intersects
  <2>3. Returned(old) \/ Returned(request[s]) \/ excuse
    BY <1>5, <2>1, <2>2
  <2> QED BY <2>1, <2>3 DEF Returned
<1>6. Moved(a, old, row) => old.status \in {"NEW", "CANCELLED"} \cup ACTIVE_STATUSES
  BY DEF Moved, Statuses, ACTIVE_STATUSES
<1> QED BY <1>2, <1>3, <1>4, <1>5, <1>6

\* A save: the rows of the other requests stay as they are.
LEMMA SaveKeepsInv ==
    ASSUME WorkflowInv, NEW a \in Employees, NEW r \in Requests,
           NEW row \in LeaveRequestRow, Save(r, row),
           Filed(a, r, row) \/ Moved(a, request[r], row)
    PROVE  WorkflowInv'
<1> DEFINE old == request[r]
<1>0. /\ TypeOK /\ WellFormed /\ AuditTrail /\ NoOrphans
      /\ CalendarMatches /\ OverlapExplained
  BY DEF WorkflowInv
<1>1. /\ request' \in [Requests -> LeaveRequestRow]
      /\ request'[r] = row
      /\ \A s \in Requests \ {r} : request'[s] = request[s] /\ days'[s] = days[s]
      /\ days'[r] = Weekdays(row.dateFrom, row.dateTo)
      /\ UNCHANGED <<employee, today>>
  BY <1>0 DEF Save, TypeOK
<1>2. row.status \in Statuses
  BY DEF Filed, Moved, Statuses
<1>3. /\ row.employee \in Present(employee) /\ row.employee \in Employees
      /\ row.approver \in Employees
      /\ row.dateFrom \in Dates /\ row.dateTo \in Dates
      /\ row.status = "NEW" => row.violations # {}
  <2>1. row.approver \in Employees
    BY DEF Save, Present
  <2>2. CASE Filed(a, r, row)
    BY <2>1, <2>2 DEF Filed, Present
  <2>3. CASE Moved(a, old, row)
    BY <1>0, <2>1, <2>3 DEF Moved, SameLeave, WellFormed, NoOrphans, Stored, Present
  <2> QED BY <2>2, <2>3
<1>4. TypeOK'
  <2>1. Weekdays(row.dateFrom, row.dateTo) \in SUBSET Dates
    BY <1>3 DEF Weekdays, Dates
  <2> QED BY <1>0, <1>1, <2>1 DEF TypeOK, EmployeeTypeOK, Save
<1>5. WellFormed'
  BY <1>0, <1>1, <1>2, <1>3 DEF WellFormed, Stored
<1>6. AuditTrail'
  <2>1. ASSUME Filed(a, r, row)
        PROVE  /\ row.status \in {"NEW", "PENDING"} => Undecided(row)
               /\ row.status \in {"APPROVED", "DECLINED"} =>
                     row.approvedDeclinedBy # None /\ row.reinstatedBy = None
               /\ row.status = "REINSTATED" => row.reinstatedBy # None
               /\ row.status = "CANCELLED" <=> row.cancelledBy # None
    BY <2>1 DEF Filed, Undecided
  <2>2. ASSUME Moved(a, old, row)
        PROVE  /\ row.status \in {"NEW", "PENDING"} => Undecided(row)
               /\ row.status \in {"APPROVED", "DECLINED"} =>
                     row.approvedDeclinedBy # None /\ row.reinstatedBy = None
               /\ row.status = "REINSTATED" => row.reinstatedBy # None
               /\ row.status = "CANCELLED" <=> row.cancelledBy # None
    BY <1>0, <2>2 DEF Moved, SameNames, Undecided, AuditTrail, Statuses
  <2> QED BY <1>0, <1>1, <2>1, <2>2 DEF AuditTrail, Undecided
<1>7. NoOrphans'
  BY <1>0, <1>1, <1>2, <1>3 DEF NoOrphans, Stored, Present
<1>8. CalendarMatches'
  BY <1>0, <1>1, <1>2 DEF CalendarMatches, Stored, Weekdays
<1>9. OverlapExplained'
  <2>1. ASSUME NEW s \in Requests \ {r},
               row.status \in ACTIVE_STATUSES, request[s].status \in ACTIVE_STATUSES,
               row.employee = request[s].employee,
               Intersects(row, request[s]) \/ Intersects(request[s], row)
        PROVE  Returned(row) \/ Returned(request[s])
    <3>1. old \in LeaveRequestRow /\ request[s] \in LeaveRequestRow
      BY <1>0 DEF TypeOK
    <3>2. old.status = "NEW" => old.violations # {}
      BY <1>0 DEF WellFormed, Stored, Statuses
    <3>3. /\ old.status \in ACTIVE_STATUSES
          /\ old.employee = request[s].employee
          /\ Intersects(old, request[s]) \/ Intersects(request[s], old)
          => Returned(old) \/ Returned(request[s])
      BY <1>0, <2>1 DEF OverlapExplained
    <3> HIDE DEF old
    <3> QED BY <2>1, <3>1, <3>2, <3>3, OverlapAfterSave DEF old
  <2> QED BY <1>0, <1>1, <2>1 DEF OverlapExplained, Intersects, Returned
<1> QED BY <1>4, <1>5, <1>6, <1>7, <1>8, <1>9 DEF WorkflowInv

\* Requests are destroyed: with S their owners or the handler that did it.
LEMMA DestroyKeepsInv ==
    ASSUME WorkflowInv, NEW S \in SUBSET Requests, DestroyRequests(S),
           EmployeeTypeOK',
           \A r \in Requests \ S : Stored(r) => request[r].employee \in Present(employee')
    PROVE  WorkflowInv'
<1>0. /\ TypeOK /\ WellFormed /\ AuditTrail /\ NoOrphans
      /\ CalendarMatches /\ OverlapExplained
  BY DEF WorkflowInv
<1>1. \A r \in S : request'[r] = NoRow("gone") /\ days'[r] = {} /\ ~Stored(r)'
  BY NoRowType DEF DestroyRequests, Stored, Statuses
<1>2. \A r \in Requests \ S : request'[r] = request[r] /\ days'[r] = days[r]
  BY DEF DestroyRequests
<1>3. TypeOK'
  BY <1>0, NoRowType DEF TypeOK, DestroyRequests
<1>4. WellFormed'
  BY <1>0, <1>1, <1>2, NoRowType DEF WellFormed, Stored
<1>5. AuditTrail'
  BY <1>0, <1>1, <1>2, NoRowType DEF AuditTrail, Undecided
<1>6. NoOrphans'
  BY <1>0, <1>1, <1>2 DEF NoOrphans, Stored, Present
<1>7. CalendarMatches'
  BY <1>0, <1>1, <1>2 DEF CalendarMatches, Stored, Weekdays
<1>8. OverlapExplained'
  BY <1>0, <1>1, <1>2, NoRowType
     DEF OverlapExplained, ACTIVE_STATUSES, Intersects, Returned
<1> QED BY <1>3, <1>4, <1>5, <1>6, <1>7, <1>8 DEF WorkflowInv

\* Nothing happens to the requests, and nobody they refer to leaves.
LEMMA RestKeepsInv ==
    ASSUME WorkflowInv, UNCHANGED <<request, days>>, EmployeeTypeOK', today' \in Nat,
           Present(employee) \subseteq Present(employee')
    PROVE  WorkflowInv'
<1>0. /\ TypeOK /\ WellFormed /\ AuditTrail /\ NoOrphans
      /\ CalendarMatches /\ OverlapExplained
  BY DEF WorkflowInv
<1>1. TypeOK' /\ WellFormed' /\ AuditTrail' /\ CalendarMatches' /\ OverlapExplained'
  BY <1>0 DEF TypeOK, WellFormed, AuditTrail, Undecided, CalendarMatches,
              OverlapExplained, Stored, Weekdays, Intersects, Returned
<1>2. NoOrphans'
  BY <1>0 DEF NoOrphans, Stored
<1> QED BY <1>1, <1>2 DEF WorkflowInv

LEMMA NextInv == WorkflowInv /\ [Next]_vars => WorkflowInv'
<1> SUFFICES ASSUME WorkflowInv, [Next]_vars PROVE WorkflowInv'
  OBVIOUS
<1>0. TypeOK /\ EmployeeTypeOK /\ today \in Nat /\ NoOrphans
  BY DEF WorkflowInv, TypeOK
<1>1. CASE Saves
  BY <1>1, SaveKeepsInv DEF Saves, Present
<1>2. CASE Discards
  <2>1. PICK r \in Requests : DestroyRequests({r}) /\ UNCHANGED employee
    BY <1>2 DEF Discards
  <2>2. EmployeeTypeOK'
    BY <1>0, <2>1 DEF EmployeeTypeOK
  <2> QED BY <1>0, <2>1, <2>2, DestroyKeepsInv DEF NoOrphans
<1>3. CASE Changes
  <2>1. PICK a \in Employees : ChangeEmployee(a)
    BY <1>3 DEF Changes
  <2>2. EmployeeTypeOK' /\ Present(employee) \subseteq Present(employee')
    BY <1>0, <2>1, EmployeeChangeType DEF ChangeEmployee
  <2> QED BY <1>0, <2>1, <2>2, RestKeepsInv DEF ChangeEmployee
<1>4. CASE Leaves
  <2>1. PICK a \in Employees, e \in Employees : DestroyEmployee(a, e)
    BY <1>4 DEF Leaves
  <2> DEFINE S == {r \in Requests : request[r].employee = e}
  <2>2. EmployeeTypeOK' /\ Present(employee') = Present(employee) \ {e}
    BY <1>0, <2>1, DestroyEmployeeType DEF DestroyEmployee
  <2>3. \A r \in Requests \ S : Stored(r) => request[r].employee \in Present(employee')
    BY <1>0, <2>2 DEF NoOrphans
  <2>4. DestroyRequests(S)
    BY <2>1 DEF DestroyEmployee
  <2> QED BY <2>2, <2>3, <2>4, DestroyKeepsInv
<1>5. CASE NextDay
  BY <1>0, <1>5, RestKeepsInv DEF NextDay, EmployeeTypeOK
<1>6. CASE UNCHANGED vars
  BY <1>0, <1>6, RestKeepsInv DEF vars, EmployeeTypeOK
<1> QED BY <1>0, <1>1, <1>2, <1>3, <1>4, <1>5, <1>6, StepKinds

-----------------------------------------------------------------------------
(* Theorems.                                                               *)

(***************************************************************************)
(* In every account and after every sequence of handlers, crashes between  *)
(* two saves included, the whole inductive invariant holds.                *)
(***************************************************************************)
THEOREM WorkflowCorrect == Spec => []WorkflowInv
BY InitInv, NextInv, PTL DEF Spec

\* The tables always hold rows of their declared columns.
THEOREM TypeCorrect == Spec => []TypeOK
<1>1. WorkflowInv => TypeOK
  BY DEF WorkflowInv
<1> QED BY <1>1, WorkflowCorrect, PTL

\* The audit columns of a request always agree with its status.
THEOREM AuditTrailCorrect == Spec => []AuditTrail
<1>1. WorkflowInv => AuditTrail
  BY DEF WorkflowInv
<1> QED BY <1>1, WorkflowCorrect, PTL

\* No stored request and no day row ever outlives the employee it belongs to.
THEOREM NoOrphansCorrect == Spec => []NoOrphans
<1>1. WorkflowInv => NoOrphans
  BY DEF WorkflowInv
<1> QED BY <1>1, WorkflowCorrect, PTL

\* Two requests with a day in common satisfy the condition of the SQL query.
LEMMA SharedDayIntersects ==
    ASSUME NEW from \in Int, NEW to \in Int, NEW other \in Int, NEW otherTo \in Int,
           NEW d \in (from .. to) \cap (other .. otherTo)
    PROVE  \/ from \in other .. otherTo
           \/ to \in other .. otherTo
           \/ from <= other /\ to >= otherTo
OBVIOUS

(***************************************************************************)
(* A day of one employee is only ever counted twice because one of the two *)
(* requests was held back with warnings or has been reinstated.            *)
(***************************************************************************)
THEOREM DoubleCountCorrect == Spec => []DoubleCountExplained
<1>1. WorkflowInv => DoubleCountExplained
  <2> SUFFICES ASSUME WorkflowInv, NEW r \in Requests, NEW s \in Requests,
                      r # s,
                      request[r].status \in ACTIVE_STATUSES,
                      request[s].status \in ACTIVE_STATUSES,
                      request[r].employee = request[s].employee,
                      days[r] \cap days[s] # {}
               PROVE  Returned(request[r]) \/ Returned(request[s])
    BY DEF DoubleCountExplained
  <2>1. /\ request[r].dateFrom \in Int /\ request[r].dateTo \in Int
        /\ request[s].dateFrom \in Int /\ request[s].dateTo \in Int
        /\ Stored(r) /\ Stored(s)
    BY DEF WorkflowInv, WellFormed, Stored, ACTIVE_STATUSES, Statuses, Dates
  <2>2. /\ days[r] \subseteq request[r].dateFrom .. request[r].dateTo
        /\ days[s] \subseteq request[s].dateFrom .. request[s].dateTo
    BY <2>1 DEF WorkflowInv, CalendarMatches, Weekdays
  <2>3. Intersects(request[r], request[s])
    BY <2>1, <2>2, SharedDayIntersects DEF Intersects
  <2> QED BY <2>3 DEF WorkflowInv, OverlapExplained
<1> QED BY <1>1, WorkflowCorrect, PTL

(***************************************************************************)
(* A request whose approver was deleted is never saved again, whoever asks *)
(* for it, and nothing but that deletion brings it to this state.          *)
(***************************************************************************)
THEOREM StrandedCorrect == Spec => StrandedStays
<1> DEFINE Step == \A r \in Requests :
          /\ Stranded(r) => request'[r] \in {request[r], NoRow("gone")}
          /\ Stranded(r)' => Stranded(r) \/ employee'[request'[r].approver].row = "gone"
<1>1. ASSUME WorkflowInv, [Next]_vars PROVE Step
  <2>0. TypeOK /\ EmployeeTypeOK /\ WellFormed
    BY <1>1 DEF WorkflowInv, TypeOK
  <2>1. CASE Saves
    <3>1. PICK a \in Employees, r \in Requests, row \in LeaveRequestRow :
             Save(r, row) /\ (Filed(a, r, row) \/ Moved(a, request[r], row))
      BY <2>1 DEF Saves, Present
    <3>2. row.approver \in Present(employee) /\ UNCHANGED employee
      BY <3>1 DEF Save
    <3>3. request' = [request EXCEPT ![r] = row] /\ request'[r] = row
      BY <2>0, <3>1 DEF Save, TypeOK
    <3>4. ~Stranded(r)
      BY <3>1, <3>2 DEF Stranded, Stored, Filed, Moved, SameLeave, Statuses
    <3>5. ~Stranded(r)'
      BY <3>2, <3>3 DEF Stranded
    <3>6. \A s \in Requests : s # r => request'[s] = request[s]
      BY <2>0, <3>3 DEF TypeOK
    <3>7. \A s \in Requests : s # r => (Stranded(s)' <=> Stranded(s))
      BY <3>2, <3>6 DEF Stranded, Stored
    <3> QED BY <3>4, <3>5, <3>6, <3>7
  <2>2. CASE Discards
    BY <2>0, <2>2 DEF Discards, DestroyRequests, TypeOK, Stranded, Stored, Statuses, NoRow
  <2>3. CASE Changes
    <3>1. PICK a \in Employees : ChangeEmployee(a)
      BY <2>3 DEF Changes
    <3>2. Present(employee) \subseteq Present(employee') /\ UNCHANGED request
      BY <2>0, <3>1, EmployeeChangeType DEF ChangeEmployee
    <3> QED BY <3>2 DEF Stranded, Stored
  <2>4. CASE Leaves
    <3>1. PICK a \in Employees, e \in Employees : DestroyEmployee(a, e)
      BY <2>4 DEF Leaves
    <3>2. Present(employee') = Present(employee) \ {e} /\ employee'[e].row = "gone"
      BY <2>0, <3>1, DestroyEmployeeType
         DEF DestroyEmployee, DestroyEmployeeRow, NoEmployee, EmployeeTypeOK
    <3>3. \A r \in Requests : request'[r] \in {request[r], NoRow("gone")}
      BY <3>1 DEF DestroyEmployee, DestroyRequests
    <3>4. \A r \in Requests : request[r].approver \in Employees \/ ~Stored(r)
      BY <2>0 DEF WellFormed
    <3> QED BY <3>2, <3>3, <3>4 DEF Stranded, Stored, NoRow, Statuses
  <2>5. CASE NextDay \/ UNCHANGED vars
    BY <2>5 DEF NextDay, vars, Stranded, Stored
  <2> QED BY <2>0, <2>1, <2>2, <2>3, <2>4, <2>5, <1>1, StepKinds
<1>2. WorkflowInv /\ [Next]_vars => [Step]_vars
  BY <1>1
<1> QED BY <1>2, WorkflowCorrect, PTL DEF Spec, StrandedStays

-----------------------------------------------------------------------------
(* The workflow implements LeaveLedger: every step of LeaveRequests moves   *)
(* one entry of the ledger as the ledger allows, erases entries, or leaves  *)
(* them alone.                                                              *)

LEMMA NoRowFields ==
    ASSUME NEW status
    PROVE  NoRow(status).employee = None /\ NoRow(status).leaveType = None
BY DEF NoRow

LEMMA AuthorityType ==
    ([r \in Requests |-> AuthorityOver(r)])' \in [Requests -> SUBSET Employees]
BY DEF AuthorityOver, Present

LEMMA InitLedger == Init => Ledger!LedgerInit
<1> SUFFICES ASSUME Init PROVE Ledger!LedgerInit
  OBVIOUS
<1>1. \A r \in Requests : request[r].status = "unused" /\ request[r].leaveType = None
  BY DEF Init, NoRow
<1>2. \A r \in Requests : AuthorityOver(r) = {}
  BY <1>1 DEF AuthorityOver, Stored, Statuses
<1>3. PhaseOf("unused") = "unused"
  BY DEF PhaseOf, APPROVED_STATUSES
<1>4. \A r \in Requests : GrantorOf(request[r]) = None
  BY <1>1 DEF GrantorOf
<1>5. {r \in Requests : request[r].leaveType \in ApprovalFree} = {}
  BY <1>1
<1> QED BY <1>1, <1>2, <1>3, <1>4, <1>5 DEF Ledger!LedgerInit

\* What a save does to the ledger.
LEMMA RowMoves ==
    ASSUME TypeOK, NEW r \in Requests, NEW row \in LeaveRequestRow, Save(r, row),
           NEW from, PhaseOf(request[r].status) \in from
    PROVE  Ledger!Moves(r, from, PhaseOf(row.status), GrantorOf(row))
BY DEF TypeOK, Save, Ledger!Moves

LEMMA FreeStays ==
    ASSUME TypeOK, NEW r \in Requests, NEW row \in LeaveRequestRow, Save(r, row),
           row.leaveType = request[r].leaveType
    PROVE  {q \in Requests : request'[q].leaveType \in ApprovalFree}
             = {q \in Requests : request[q].leaveType \in ApprovalFree}
BY DEF TypeOK, Save

LEMMA FreeGrows ==
    ASSUME TypeOK, NEW r \in Requests, NEW row \in LeaveRequestRow, Save(r, row),
           request[r].leaveType = None
    PROVE  LET free == {q \in Requests : request[q].leaveType \in ApprovalFree} IN
           {q \in Requests : request'[q].leaveType \in ApprovalFree}
             \in {free, free \cup {r}}
<1> DEFINE free == {q \in Requests : request[q].leaveType \in ApprovalFree}
           next == {q \in Requests : request'[q].leaveType \in ApprovalFree}
<1>1. /\ request'[r] = row
      /\ \A q \in Requests \ {r} : request'[q] = request[q]
  BY DEF TypeOK, Save
<1>2. CASE row.leaveType \in ApprovalFree
  <2>1. next = free \cup {r}
    BY <1>1, <1>2
  <2> QED BY <2>1
<1>3. CASE row.leaveType \notin ApprovalFree
  <2>1. next = free
    BY <1>1, <1>3
  <2> QED BY <2>1
<1> QED BY <1>2, <1>3

\* Who approves has authority over the row that is saved.
LEMMA ApproverHasAuthority ==
    ASSUME TypeOK, NEW a \in Present(employee), NEW r \in Requests,
           NEW row \in LeaveRequestRow, Save(r, row), row.status \in Statuses,
           CanAuthorise(a, row)
    PROVE  a \in AuthorityOver(r)'
<1>1. request'[r] = row /\ employee' = employee
  BY DEF TypeOK, Save
<1> QED BY <1>1 DEF AuthorityOver, Stored, CanAuthorise

\* The phases of the rows that a handler finds and of those it writes.
LEMMA Phases ==
    /\ PhaseOf("unused") = "unused" /\ PhaseOf("NEW") = "draft"
    /\ PhaseOf("PENDING") = "asked" /\ PhaseOf("APPROVED") = "granted"
    /\ PhaseOf("REINSTATED") = "granted" /\ PhaseOf("DECLINED") = "refused"
    /\ PhaseOf("CANCELLED") = "withdrawn" /\ PhaseOf("gone") = "erased"
BY DEF PhaseOf, APPROVED_STATUSES

LEMMA Grantors ==
    ASSUME NEW row
    PROVE  /\ row.status = "APPROVED" => GrantorOf(row) = row.approvedDeclinedBy
           /\ row.status = "REINSTATED" => GrantorOf(row) = row.reinstatedBy
           /\ row.status \notin APPROVED_STATUSES => GrantorOf(row) = None
BY DEF GrantorOf, APPROVED_STATUSES

LEMMA FiledLedger ==
    ASSUME WorkflowInv, NEW a \in Present(employee), NEW r \in Requests,
           NEW row \in LeaveRequestRow, Save(r, row), Filed(a, r, row)
    PROVE  Ledger!LedgerNext
<1> DEFINE free == {q \in Requests : request[q].leaveType \in ApprovalFree}
           next == {q \in Requests : request'[q].leaveType \in ApprovalFree}
<1>0. TypeOK /\ WellFormed
  BY DEF WorkflowInv
<1>1. PhaseOf(request[r].status) = "unused"
  BY Phases DEF Filed
<1>2. request[r].leaveType = None
  BY <1>0, NoRowFields DEF Filed, WellFormed, Stored, Statuses
<1>3. next \in {free, free \cup {r}}
  BY <1>0, <1>2, FreeGrows
<1>4. CASE row.status \in {"NEW", "PENDING"}
  <2>1. PhaseOf(row.status) \in {"draft", "asked"} /\ GrantorOf(row) = None
    BY <1>4, Phases, Grantors DEF APPROVED_STATUSES
  <2>2. Ledger!Moves(r, {"unused"}, PhaseOf(row.status), None)
    BY <1>0, <1>1, <2>1, RowMoves
  <2>3. Ledger!Enter(r)
    BY <1>3, <2>1, <2>2 DEF Ledger!Enter
  <2> QED BY <2>3, AuthorityType DEF Ledger!LedgerNext
<1>5. CASE row.status = "APPROVED"
  <2>1. PhaseOf(row.status) = "granted" /\ GrantorOf(row) = a
    BY <1>5, Phases, Grantors DEF Filed
  <2>2. Ledger!Moves(r, {"unused", "draft", "asked"}, "granted", a)
    BY <1>0, <1>1, <2>1, RowMoves
  <2>3. a \in AuthorityOver(r)' \/ r \in next
    <3>1. CASE CanAuthorise(a, row)
      BY <1>0, <1>5, <3>1, ApproverHasAuthority DEF Statuses
    <3>2. CASE row.leaveType \in ApprovalFree
      BY <1>0, <3>2 DEF TypeOK, Save
    <3> QED BY <1>5, <3>1, <3>2 DEF Filed, MayApprove
  <2>4. Ledger!Grant(r, a)
    BY <1>1, <1>3, <2>2, <2>3 DEF Ledger!Grant
  <2> QED BY <2>4, AuthorityType DEF Ledger!LedgerNext, Present
<1> QED BY <1>4, <1>5 DEF Filed

LEMMA MovedLedger ==
    ASSUME WorkflowInv, NEW a \in Present(employee), NEW r \in Requests,
           NEW row \in LeaveRequestRow, Save(r, row), Moved(a, request[r], row)
    PROVE  Ledger!LedgerNext
<1> DEFINE old == request[r]
           free == {q \in Requests : request[q].leaveType \in ApprovalFree}
           next == {q \in Requests : request'[q].leaveType \in ApprovalFree}
<1>0. TypeOK /\ a \in Employees
  BY DEF WorkflowInv, Present
<1>1. next = free
  BY <1>0, FreeStays DEF Moved, SameLeave
<1>2. ASSUME NEW from, PhaseOf(old.status) \in from
      PROVE  Ledger!Moves(r, from, PhaseOf(row.status), GrantorOf(row))
  BY <1>0, <1>2, RowMoves
<1>3. CASE row.status = old.status /\ (SameNames(old, row) \/ row.status = "CANCELLED")
  <2>1. GrantorOf(row) = GrantorOf(old)
    BY <1>3, Grantors DEF SameNames, APPROVED_STATUSES
  <2>2. /\ request'[r] = row
        /\ \A q \in Requests \ {r} : request'[q] = request[q]
    BY <1>0 DEF TypeOK, Save
  <2>3. \A q \in Requests : /\ PhaseOf(request'[q].status) = PhaseOf(request[q].status)
                            /\ GrantorOf(request'[q]) = GrantorOf(request[q])
    BY <1>3, <2>1, <2>2
  <2>4. Ledger!Reorganise
    BY <1>1, <2>3 DEF Ledger!Reorganise
  <2> QED BY <2>4, AuthorityType DEF Ledger!LedgerNext
<1>4. CASE old.status = "NEW" /\ row.status = "PENDING"
  <2>1. Ledger!Ask(r)
    BY <1>1, <1>2, <1>4, Phases, Grantors DEF Ledger!Ask, APPROVED_STATUSES
  <2> QED BY <2>1, AuthorityType DEF Ledger!LedgerNext
<1>5. CASE /\ old.status \in {"NEW", "PENDING"} /\ row.status = "APPROVED"
           /\ MayApprove(a, old) /\ row.approvedDeclinedBy = a
  <2>1. PhaseOf(old.status) \in {"draft", "asked"}
    BY <1>5, Phases
  <2>2. Ledger!Moves(r, {"unused", "draft", "asked"}, "granted", a)
    BY <1>2, <1>5, <2>1, Phases, Grantors
  <2>3. a \in AuthorityOver(r)' \/ r \in next
    <3>1. CASE CanAuthorise(a, old)
      <4>1. CanAuthorise(a, row)
        BY <3>1 DEF Moved, SameLeave, CanAuthorise
      <4> QED BY <1>0, <1>5, <4>1, ApproverHasAuthority DEF Statuses
    <3>2. CASE old.leaveType \in ApprovalFree
      BY <1>1, <3>2
    <3> QED BY <1>5, <3>1, <3>2 DEF MayApprove
  <2>4. Ledger!Grant(r, a)
    BY <1>1, <2>2, <2>3 DEF Ledger!Grant
  <2> QED BY <1>0, <2>4, AuthorityType DEF Ledger!LedgerNext
<1>6. CASE old.status = "PENDING" /\ row.status = "DECLINED"
  <2>1. Ledger!Refuse(r)
    BY <1>1, <1>2, <1>6, Phases, Grantors DEF Ledger!Refuse, APPROVED_STATUSES
  <2> QED BY <2>1, AuthorityType DEF Ledger!LedgerNext
<1>7. CASE /\ old.status \in Statuses \ {"NEW", "CANCELLED"}
           /\ row.status = "CANCELLED"
  <2>1. PhaseOf(old.status) \in {"asked", "granted", "refused"}
    BY <1>7, Phases DEF Statuses
  <2>2. Ledger!Withdraw(r)
    BY <1>1, <1>2, <1>7, <2>1, Phases, Grantors DEF Ledger!Withdraw, APPROVED_STATUSES
  <2> QED BY <2>2, AuthorityType DEF Ledger!LedgerNext
<1>8. CASE /\ old.status = "CANCELLED" /\ row.status = "REINSTATED"
           /\ CanAuthorise(a, old) /\ row.reinstatedBy = a
  <2>1. Ledger!Moves(r, {"withdrawn"}, "granted", a)
    BY <1>2, <1>8, Phases, Grantors
  <2>2. CanAuthorise(a, row)
    BY <1>8 DEF Moved, SameLeave, CanAuthorise
  <2>3. a \in AuthorityOver(r)'
    BY <1>0, <1>8, <2>2, ApproverHasAuthority DEF Statuses
  <2>4. Ledger!Restore(r, a)
    BY <1>1, <2>1, <2>3 DEF Ledger!Restore
  <2> QED BY <1>0, <2>4, AuthorityType DEF Ledger!LedgerNext
<1> QED BY <1>3, <1>4, <1>5, <1>6, <1>7, <1>8 DEF Moved

\* Entries are erased: those of one person, or a single draft.
LEMMA EraseLedger ==
    ASSUME TypeOK, NEW S \in SUBSET Requests, DestroyRequests(S), \A r \in S : Stored(r)
    PROVE  Ledger!LedgerNext
<1>1. \A r \in S : PhaseOf(request[r].status) # "unused"
  BY Phases DEF Stored, Statuses
<1>2. \A r \in Requests :
        request'[r] = IF r \in S THEN NoRow("gone") ELSE request[r]
  BY DEF DestroyRequests
<1>3. /\ NoRow("gone").status = "gone" /\ NoRow("gone").leaveType \notin ApprovalFree
      /\ GrantorOf(NoRow("gone")) = None
  BY Grantors DEF NoRow, APPROVED_STATUSES
<1>4. {q \in Requests : request'[q].leaveType \in ApprovalFree}
        = {q \in Requests : request[q].leaveType \in ApprovalFree} \ S
  BY <1>2, <1>3
<1>5. \A r \in Requests :
        /\ PhaseOf(request'[r].status)
             = IF r \in S THEN "erased" ELSE PhaseOf(request[r].status)
        /\ GrantorOf(request'[r]) = IF r \in S THEN None ELSE GrantorOf(request[r])
  BY <1>2, <1>3, Phases
<1>6. Ledger!Erase(S)
  BY <1>1, <1>4, <1>5 DEF Ledger!Erase
<1> QED BY <1>6, AuthorityType DEF Ledger!LedgerNext

\* The requests stay as they are, whatever happens to the employees.
LEMMA ReorganiseLedger ==
    ASSUME UNCHANGED request
    PROVE  Ledger!LedgerNext
<1>1. Ledger!Reorganise
  BY DEF Ledger!Reorganise
<1> QED BY <1>1, AuthorityType DEF Ledger!LedgerNext

LEMMA StepLedger == WorkflowInv /\ [Next]_vars => Ledger!LedgerNext
<1> SUFFICES ASSUME WorkflowInv, [Next]_vars PROVE Ledger!LedgerNext
  OBVIOUS
<1>0. TypeOK /\ WellFormed
  BY DEF WorkflowInv
<1>1. CASE Saves
  BY <1>1, FiledLedger, MovedLedger DEF Saves
<1>2. CASE Discards
  <2>1. PICK r \in Requests : request[r].status = "NEW" /\ DestroyRequests({r})
    BY <1>2 DEF Discards
  <2>2. Stored(r)
    BY <2>1 DEF Stored, Statuses
  <2> QED BY <1>0, <2>1, <2>2, EraseLedger
<1>3. CASE Leaves
  <2>1. PICK a \in Employees, e \in Employees : DestroyEmployee(a, e)
    BY <1>3 DEF Leaves
  <2> DEFINE S == {r \in Requests : request[r].employee = e}
  <2>2. \A r \in S : Stored(r)
    BY <1>0, NoRowFields DEF WellFormed
  <2>3. DestroyRequests(S)
    BY <2>1 DEF DestroyEmployee
  <2> HIDE DEF S
  <2>4. S \in SUBSET Requests
    BY DEF S
  <2> QED BY <1>0, <2>2, <2>3, <2>4, EraseLedger
<1>4. CASE Changes \/ NextDay \/ UNCHANGED vars
  BY <1>4, ReorganiseLedger DEF Changes, ChangeEmployee, NextDay, vars
<1> QED BY <1>0, <1>1, <1>2, <1>3, <1>4, StepKinds

(***************************************************************************)
(* The workflow implements the ledger: in every account leave is granted   *)
(* only in the name of somebody with authority over it at that moment (or  *)
(* without need of any), and what was refused or cancelled is restored     *)
(* only by somebody with authority, after having been withdrawn.           *)
(***************************************************************************)
THEOREM LedgerKept == Spec => KeepsLedger
<1>1. WorkflowInv /\ [Next]_vars => [Ledger!LedgerNext]_(Ledger!ledgerVars)
  BY StepLedger
<1> QED BY <1>1, InitLedger, WorkflowCorrect, PTL DEF Spec, KeepsLedger, Ledger!LedgerSpec
=============================================================================
