------------------------ MODULE LeaveNotifications ------------------------
(***************************************************************************)
(* The leave request workflow with the mails it causes: app/models/        *)
(* leave_request_observer.rb enqueues a delayed_job job in the transaction *)
(* of a save, and the worker process runs app/workers/tenant/              *)
(* leave_request_mailer.rb some time later.  A job holds the id of the     *)
(* request only and reads the row when it runs, so it announces whatever   *)
(* status the request has by then.                                         *)
(***************************************************************************)
EXTENDS LeaveRequests

CONSTANTS
    Notified,   \* the employees with the notify setting
    MaxJobs     \* bound: jobs outstanding for one request

ASSUME NotificationAssumption == Notified \subseteq Employees /\ MaxJobs \in Nat

VARIABLES
    queue,      \* number of LeaveRequestMailer jobs outstanding per request
    announced   \* the status each request had when a job last handled it

notificationVars == <<employee, request, days, today, queue, announced>>

NotificationInit ==
    /\ Init
    /\ queue = [r \in Requests |-> 0]
    /\ announced = [r \in Requests |-> "unused"]

\* Mutant of JobsFor: the observer listens to after_create alone.
JobsOnCreation(from, to) == IF from = "unused" /\ to # "unused" THEN 1 ELSE 0

(***************************************************************************)
(* after_create enqueues a job, and so does every after_update that finds  *)
(* the status changed.  A request that goes from unused or NEW straight to *)
(* APPROVED has been saved as PENDING on the way.                          *)
(***************************************************************************)
JobsFor(from, to) ==
    CASE to \in {from, "gone"} -> 0
      [] from \in {"unused", "NEW"} /\ to = "APPROVED" -> 2
      [] OTHER -> 1

\* A step of the web process, with the jobs its saves enqueue.
Web ==
    /\ Next
    /\ queue' = [r \in Requests |->
                    queue[r] + JobsFor(request[r].status, request'[r].status)]
    /\ \A r \in Requests : queue'[r] <= MaxJobs
    /\ UNCHANGED announced

\* Whom the mail about the current status goes to.
Recipient(row) ==
    IF row.status \in {"PENDING", "CANCELLED"} THEN row.approver ELSE row.employee

\* The people whose names its text shows.
Named(row) ==
    CASE row.status = "PENDING" /\ row.capturedBy # None -> {row.capturedBy}
      [] row.status = "APPROVED" ->
            {IF row.capturedBy # None THEN row.capturedBy ELSE row.approvedDeclinedBy}
      [] row.status = "DECLINED" -> {row.approvedDeclinedBy}
      [] row.status = "CANCELLED" -> {row.cancelledBy}
      [] row.status = "REINSTATED" -> {row.reinstatedBy}
      [] OTHER -> {}

\* The approval of captured leave by somebody else calls "fullname", which
\* employees do not have (approved.text.erb:5, approved.html.erb:9).
MisspeltName(row) ==
    /\ row.status = "APPROVED"
    /\ row.capturedBy \notin {None, row.approvedDeclinedBy}

(***************************************************************************)
(* perform raises for a row that is gone, for a mail to somebody who is    *)
(* gone, and while it renders a text that names somebody who is gone.  It  *)
(* renders nothing for NEW requests and for recipients without the notify  *)
(* setting.  The worker runs a job that raised again later, and leaves it  *)
(* alone after its last attempt.                                           *)
(***************************************************************************)
MailRaises(row) ==
    \/ Recipient(row) \notin Present(employee)
    \/ /\ Recipient(row) \in Notified
       /\ ~(Named(row) \subseteq Present(employee)) \/ MisspeltName(row)

JobRaises(r) == ~Stored(r) \/ (request[r].status # "NEW" /\ MailRaises(request[r]))

\* Mutant of PerformJob: the row is not looked up.
PerformJobBlindly(r) ==
    /\ queue[r] > 0
    /\ queue' = [queue EXCEPT ![r] = @ - 1]
    /\ announced' = [announced EXCEPT ![r] = request[r].status]
    /\ UNCHANGED vars

PerformJob(r) ==
    /\ queue[r] > 0
    /\ ~JobRaises(r)
    /\ queue' = [queue EXCEPT ![r] = @ - 1]
    /\ announced' = [announced EXCEPT ![r] = request[r].status]
    /\ UNCHANGED vars

\* Mutant of JobGivesUp: a job may be lost without having failed.
JobGetsLost(r) ==
    /\ queue[r] > 0
    /\ queue' = [queue EXCEPT ![r] = @ - 1]
    /\ UNCHANGED <<vars, announced>>

JobGivesUp(r) ==
    /\ queue[r] > 0
    /\ JobRaises(r)
    /\ queue' = [queue EXCEPT ![r] = @ - 1]
    /\ UNCHANGED <<vars, announced>>

NotificationNext == Web \/ \E r \in Requests : PerformJob(r) \/ JobGivesUp(r)

\* rake jobs:work polls for ever and takes the jobs by their run_at.
Fairness == \A r \in Requests : WF_notificationVars(PerformJob(r))

NotificationSpec ==
    NotificationInit /\ [][NotificationNext]_notificationVars /\ Fairness

-----------------------------------------------------------------------------

\* The type of the queue and of the announcements.
NotificationTypeOK ==
    /\ queue \in [Requests -> Nat]
    /\ announced \in [Requests -> Statuses \cup {"unused"}]

SomebodyLeft == \E e \in Employees : employee[e].row = "gone"

(***************************************************************************)
(* When no job is outstanding for a request whose mail can be written, the *)
(* last job to handle it saw the status it has now: a status on the way    *)
(* may go unannounced, never the one the request rests in                  *)
(* (leave_request_observer.rb:3-9, leave_request_mailer.rb:4-25).          *)
(* Cancelling a cancelled request again replaces the name in a mail that   *)
(* was given up without enqueueing another job, so a CANCELLED request     *)
(* counts only while nobody has been deleted.                              *)
(***************************************************************************)
SilenceMeansAnnounced ==
    \A r \in Requests :
        /\ queue[r] = 0
        /\ ~JobRaises(r)
        /\ request[r].status = "CANCELLED" => ~SomebodyLeft
        => announced[r] = request[r].status

(***************************************************************************)
(* Every status is announced in the end, unless the request moves on first *)
(* or its mail cannot be written (with the exception explained above).     *)
(***************************************************************************)
EventuallyAnnounced ==
    \A r \in Requests, s \in Statuses :
        (request[r].status = s)
            ~> \/ announced[r] = s
               \/ request[r].status # s
               \/ JobRaises(r)
               \/ s = "CANCELLED" /\ SomebodyLeft
=============================================================================
