--------------------- MODULE LeaveNotifications_proofs ---------------------
(***************************************************************************)
(* Proofs about the mails of the leave request workflow, for every account *)
(* and any number of outstanding jobs.                                     *)
(***************************************************************************)
EXTENDS LeaveNotifications, LeaveRequests_proofs

USE NoneAssumption, AdminAssumption, ModelAssumption, NotificationAssumption

-----------------------------------------------------------------------------
(* Whoever a stored request refers to, or its mail names, has had a row.   *)

People(row) == {row.employee, row.approver, row.capturedBy} \cup Named(row)

Known(p) == p = None \/ (p \in Employees /\ employee[p].row # "unused")

KnownPeople ==
    \A r \in Requests : Stored(r) => \A p \in People(request[r]) : Known(p)

NotificationInv ==
    WorkflowInv /\ NotificationTypeOK /\ KnownPeople /\ SilenceMeansAnnounced

LEMMA KnownStays ==
    ASSUME NobodyReturns, NEW p, Known(p)
    PROVE  /\ Known(p)'
           /\ p \notin Present(employee) => p \notin Present(employee')
BY DEF Known, NobodyReturns, Present

\* Nobody returns in any step of the workflow.
LEMMA WorkflowReturns ==
    ASSUME TypeOK, [Next]_vars PROVE NobodyReturns
<1>0. EmployeeTypeOK
  BY DEF TypeOK
<1>1. CASE UNCHANGED employee
  BY <1>0, <1>1 DEF NobodyReturns
<1>2. CASE Changes
  BY <1>0, <1>2, EmployeeChangeReturns DEF Changes, ChangeEmployee
<1>3. CASE Leaves
  BY <1>0, <1>3, DestroyEmployeeReturns DEF Leaves, DestroyEmployee
<1> QED BY <1>1, <1>2, <1>3, StepKinds DEF Saves, Save, Discards, NextDay, vars

-----------------------------------------------------------------------------
(* What a step does to one request, as far as its mail is concerned.       *)

\* The request is left alone, destroyed, or saved.
LEMMA RowKinds ==
    ASSUME TypeOK, [Next]_vars, NEW r \in Requests
    PROVE  \/ request'[r] = request[r]
           \/ request'[r] = NoRow("gone")
           \/ /\ UNCHANGED employee
              /\ request'[r].approver \in Present(employee)
              /\ \E a \in Present(employee) :
                    Filed(a, r, request'[r]) \/ Moved(a, request[r], request'[r])
<1>1. CASE Saves
  <2>1. PICK a \in Present(employee), s \in Requests, row \in LeaveRequestRow :
           Save(s, row) /\ (Filed(a, s, row) \/ Moved(a, request[s], row))
    BY <1>1 DEF Saves
  <2>2. /\ request'[s] = row
        /\ r # s => request'[r] = request[r]
        /\ UNCHANGED employee /\ row.approver \in Present(employee)
    BY <2>1 DEF Save, TypeOK
  <2> QED BY <2>1, <2>2
<1>2. CASE Discards
  BY <1>2 DEF Discards, DestroyRequests
<1>3. CASE Changes \/ NextDay \/ UNCHANGED vars
  BY <1>3 DEF Changes, ChangeEmployee, NextDay, vars
<1>4. CASE Leaves
  BY <1>4 DEF Leaves, DestroyEmployee, DestroyRequests
<1> QED BY <1>1, <1>2, <1>3, <1>4, StepKinds

LEMMA KnownPeopleKept ==
    ASSUME WorkflowInv, KnownPeople, [Next]_vars PROVE KnownPeople'
<1>0. TypeOK /\ EmployeeTypeOK /\ WellFormed
  BY DEF WorkflowInv, TypeOK
<1>1. NobodyReturns
  BY <1>0, WorkflowReturns
<1> SUFFICES ASSUME NEW r \in Requests, Stored(r)', NEW p \in People(request'[r])
             PROVE  Known(p)'
  BY DEF KnownPeople, People, Named
<1>2. CASE request'[r] = request[r]
  BY <1>1, <1>2, KnownStays DEF KnownPeople, Stored
<1>3. CASE request'[r] = NoRow("gone")
  BY <1>3 DEF Stored, NoRow, Statuses
<1>4. ASSUME UNCHANGED employee, request'[r].approver \in Present(employee),
             NEW a \in Present(employee), Filed(a, r, request'[r])
      PROVE  Known(p)'
  <2>1. \A q \in Present(employee) : Known(q)'
    BY <1>4 DEF Known, Present
  <2>2. Known(None)'
    BY DEF Known
  <2>3. p \in {None, a, request'[r].employee, request'[r].approver}
    BY <1>4 DEF People, Named, Filed
  <2> QED BY <1>4, <2>1, <2>2, <2>3 DEF Filed
<1>5. ASSUME UNCHANGED employee, request'[r].approver \in Present(employee),
             NEW a \in Present(employee), Moved(a, request[r], request'[r])
      PROVE  Known(p)'
  <2>1. Known(a)'
    BY <1>5 DEF Known, Present
  <2>2. Stored(r) /\ \A q \in People(request[r]) : Known(q)'
    BY <1>1, <1>5, KnownStays DEF KnownPeople, Moved, Stored
  <2>3. p \in People(request[r]) \cup {a}
    BY <1>5 DEF People, Named, Moved, SameLeave, SameNames
  <2> QED BY <2>1, <2>2, <2>3
<1> QED BY <1>0, <1>2, <1>3, <1>4, <1>5, RowKinds

-----------------------------------------------------------------------------
(* A mail that cannot be written stays so until the status changes.        *)

\* What a mail depends on, apart from who is still there.
SameMail(old, row) ==
    /\ row.status = old.status
    /\ Recipient(row) = Recipient(old) /\ Named(row) = Named(old)
    /\ row.capturedBy = old.capturedBy
    /\ row.status = "APPROVED" => row.approvedDeclinedBy = old.approvedDeclinedBy

LEMMA RaisesOn ==
    ASSUME NobodyReturns, NEW r \in Requests,
           Stored(r), \A p \in People(request[r]) : Known(p),
           SameMail(request[r], request'[r]), JobRaises(r)
    PROVE  JobRaises(r)'
<1> DEFINE old == request[r]
           row == request'[r]
<1>1. request[r].status # "NEW" /\ request'[r].status # "NEW" /\ Stored(r)'
  BY DEF JobRaises, SameMail, Stored
<1>2. Recipient(old) \in People(old) /\ Named(old) \subseteq People(old)
  BY DEF Recipient, People
<1>3. \A p \in People(old) : p \notin Present(employee) => p \notin Present(employee')
  BY KnownStays
<1>4. MailRaises(request[r])
  BY DEF JobRaises
<1>5. MailRaises(request[r])'
  <2>1. CASE Recipient(old) \notin Present(employee)
    BY <1>2, <1>3, <2>1 DEF MailRaises, SameMail, Recipient
  <2>2. CASE Recipient(old) \in Notified /\ ~(Named(old) \subseteq Present(employee))
    <3>1. ~(Named(old) \subseteq Present(employee'))
      BY <1>2, <1>3, <2>2
    <3> QED BY <2>2, <3>1 DEF MailRaises, SameMail, Recipient, Named, Present
  <2>3. CASE Recipient(old) \in Notified /\ MisspeltName(old)
    BY <2>3 DEF MailRaises, SameMail, Recipient, MisspeltName
  <2>4. \/ Recipient(old) \notin Present(employee)
        \/ Recipient(old) \in Notified /\ ~(Named(old) \subseteq Present(employee))
        \/ Recipient(old) \in Notified /\ MisspeltName(old)
    BY <1>4 DEF MailRaises
  <2> QED BY <2>1, <2>2, <2>3, <2>4
<1> QED BY <1>1, <1>5 DEF JobRaises

LEMMA SilenceKept ==
    ASSUME NotificationInv, Web
    PROVE  SilenceMeansAnnounced'
<1>0. /\ WorkflowInv /\ NotificationTypeOK /\ KnownPeople /\ SilenceMeansAnnounced
      /\ TypeOK /\ WellFormed /\ AuditTrail /\ [Next]_vars
  BY DEF NotificationInv, WorkflowInv, Web
<1>1. NobodyReturns
  BY <1>0, WorkflowReturns
<1>2. ~SomebodyLeft' => ~SomebodyLeft
  <2>1. \A e \in Employees : employee'[e].row \in {"unused", "stored", "gone"}
    BY <1>0, NextInv DEF WorkflowInv, TypeOK, EmployeeTypeOK, EmployeeRow
  <2> QED BY <1>1, <2>1 DEF SomebodyLeft, NobodyReturns, Present
<1> SUFFICES ASSUME NEW r \in Requests, queue'[r] = 0, ~JobRaises(r)',
                    request'[r].status = "CANCELLED" => ~SomebodyLeft'
             PROVE  announced[r] = request'[r].status
  BY DEF SilenceMeansAnnounced, Web
<1>3. queue[r] = 0 /\ JobsFor(request[r].status, request'[r].status) = 0
  <2>1. /\ queue[r] \in Nat
        /\ queue'[r] = queue[r] + JobsFor(request[r].status, request'[r].status)
    BY <1>0 DEF NotificationTypeOK, Web
  <2>2. JobsFor(request[r].status, request'[r].status) \in {0, 1, 2}
    BY DEF JobsFor
  <2> QED BY <2>1, <2>2
<1>4. Stored(r)' /\ request'[r].status = request[r].status /\ Stored(r)
  BY <1>3 DEF JobsFor, JobRaises, Stored, Statuses
<1>5. CASE request[r].status = "CANCELLED"
  <2>1. ~SomebodyLeft
    BY <1>2, <1>4, <1>5
  <2>2. Recipient(request[r]) \in People(request[r]) /\ Named(request[r]) \subseteq People(request[r])
    BY DEF Recipient, People
  <2>3. None \notin {Recipient(request[r])} \cup Named(request[r])
    BY <1>0, <1>4, <1>5 DEF Recipient, Named, WellFormed, AuditTrail
  <2>4. \A p \in {Recipient(request[r])} \cup Named(request[r]) : p \in Present(employee)
    BY <1>0, <1>4, <2>1, <2>2, <2>3
       DEF KnownPeople, Known, SomebodyLeft, Present, TypeOK, EmployeeTypeOK, EmployeeRow
  <2>5. ~JobRaises(r)
    BY <1>4, <1>5, <2>4 DEF JobRaises, MailRaises, MisspeltName
  <2> QED BY <1>0, <1>3, <1>4, <2>1, <2>5 DEF SilenceMeansAnnounced
<1>6. CASE request[r].status # "CANCELLED"
  <2>1. SameMail(request[r], request'[r])
    <3>1. CASE request'[r] = request[r]
      BY <3>1 DEF SameMail
    <3>2. CASE request'[r] = NoRow("gone")
      BY <1>4, <3>2 DEF NoRow, Stored, Statuses
    <3>3. ASSUME NEW a \in Present(employee),
                 Filed(a, r, request'[r]) \/ Moved(a, request[r], request'[r])
          PROVE  SameMail(request[r], request'[r])
      <4>1. SameLeave(request[r], request'[r]) /\ SameNames(request[r], request'[r])
        BY <1>4, <1>6, <3>3 DEF Filed, Moved, Stored, Statuses
      <4> QED BY <1>4, <4>1 DEF SameMail, SameLeave, SameNames, Recipient, Named
    <3> QED BY <1>0, <3>1, <3>2, <3>3, RowKinds
  <2>2. ~JobRaises(r)
    BY <1>0, <1>1, <1>4, <2>1, RaisesOn DEF KnownPeople
  <2> QED BY <1>0, <1>3, <1>4, <1>6, <2>2 DEF SilenceMeansAnnounced
<1> QED BY <1>5, <1>6

-----------------------------------------------------------------------------
(* The invariant.                                                          *)

LEMMA NotificationInitInv == NotificationInit => NotificationInv
<1> SUFFICES ASSUME NotificationInit PROVE NotificationInv
  OBVIOUS
<1>1. WorkflowInv
  BY InitInv DEF NotificationInit
<1>2. \A r \in Requests : request[r].status = "unused" /\ ~Stored(r)
  BY DEF NotificationInit, Init, NoRow, Stored, Statuses
<1>3. NotificationTypeOK
  BY DEF NotificationInit, NotificationTypeOK
<1>4. KnownPeople /\ SilenceMeansAnnounced
  BY <1>2 DEF KnownPeople, SilenceMeansAnnounced, JobRaises
<1> QED BY <1>1, <1>3, <1>4 DEF NotificationInv

LEMMA WebKeepsInv == ASSUME NotificationInv, Web PROVE NotificationInv'
<1>0. WorkflowInv /\ NotificationTypeOK /\ KnownPeople /\ [Next]_vars
  BY DEF NotificationInv, Web
<1>1. NotificationTypeOK'
  <2>1. \A from, to : JobsFor(from, to) \in Nat
    BY DEF JobsFor
  <2> QED BY <1>0, <2>1 DEF NotificationTypeOK, Web
<1> QED BY <1>0, <1>1, NextInv, KnownPeopleKept, SilenceKept DEF NotificationInv

LEMMA JobKeepsInv ==
    ASSUME NotificationInv, NEW r \in Requests, PerformJob(r) \/ JobGivesUp(r)
    PROVE  NotificationInv'
<1>0. /\ WorkflowInv /\ NotificationTypeOK /\ KnownPeople /\ SilenceMeansAnnounced
      /\ UNCHANGED <<employee, request, days, today>> /\ [Next]_vars
  BY DEF NotificationInv, PerformJob, JobGivesUp, vars
<1>1. /\ WorkflowInv' /\ KnownPeople'
      /\ \A s \in Requests : JobRaises(s)' <=> JobRaises(s)
      /\ SomebodyLeft' <=> SomebodyLeft
  BY <1>0, NextInv, KnownPeopleKept
     DEF JobRaises, MailRaises, Present, Stored, SomebodyLeft
<1>2. CASE PerformJob(r)
  <2>1. request[r].status \in Statuses
    BY <1>2 DEF PerformJob, JobRaises, Stored
  <2>2. NotificationTypeOK'
    BY <1>0, <1>2, <2>1 DEF NotificationTypeOK, PerformJob
  <2>3. SilenceMeansAnnounced'
    BY <1>0, <1>1, <1>2 DEF NotificationTypeOK, SilenceMeansAnnounced, PerformJob
  <2> QED BY <1>1, <2>2, <2>3 DEF NotificationInv
<1>3. CASE JobGivesUp(r)
  <2>1. NotificationTypeOK'
    BY <1>0, <1>3 DEF NotificationTypeOK, JobGivesUp
  <2>2. SilenceMeansAnnounced'
    BY <1>0, <1>1, <1>3 DEF NotificationTypeOK, SilenceMeansAnnounced, JobGivesUp
  <2> QED BY <1>1, <2>1, <2>2 DEF NotificationInv
<1> QED BY <1>2, <1>3

LEMMA NotificationNextInv ==
    NotificationInv /\ [NotificationNext]_notificationVars => NotificationInv'
<1>1. ASSUME NotificationInv, UNCHANGED notificationVars PROVE NotificationInv'
  <2>1. WorkflowInv' /\ KnownPeople'
    BY <1>1, NextInv, KnownPeopleKept DEF NotificationInv, notificationVars, vars
  <2> QED BY <1>1, <2>1
          DEF NotificationInv, notificationVars, NotificationTypeOK, SilenceMeansAnnounced,
              JobRaises, MailRaises, Present, Stored, SomebodyLeft
<1> QED BY <1>1, WebKeepsInv, JobKeepsInv DEF NotificationNext

-----------------------------------------------------------------------------
(* Theorems.                                                               *)

\* The queue never goes below nothing, and only stored rows are announced.
THEOREM NotificationTypeCorrect == NotificationSpec => []NotificationTypeOK
<1>1. NotificationInv => NotificationTypeOK
  BY DEF NotificationInv
<1> QED BY <1>1, NotificationInitInv, NotificationNextInv, PTL DEF NotificationSpec

(***************************************************************************)
(* In every account, whatever the number of jobs and the order in which    *)
(* they run or are given up: with no job left, the last announcement of a  *)
(* request is its present status.                                          *)
(***************************************************************************)
THEOREM SilenceCorrect == NotificationSpec => []SilenceMeansAnnounced
<1>1. NotificationInv => SilenceMeansAnnounced
  BY DEF NotificationInv
<1> QED BY <1>1, NotificationInitInv, NotificationNextInv, PTL DEF NotificationSpec
=============================================================================
