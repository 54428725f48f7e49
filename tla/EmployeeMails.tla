--------------------------- MODULE EmployeeMails ---------------------------
(***************************************************************************)
(* The activation mails of employees: app/models/employee_observer.rb      *)
(* enqueues a job in the transaction that saves an employee, and the       *)
(* worker runs app/workers/tenant/employee_mailer.rb some time later.  The *)
(* job reads the row, gives it an authentication token if it has none,     *)
(* in a transaction of its own, and mails a link with that token to those  *)
(* who are active and want mail, as the row said when it was read.  The    *)
(* web process may change the row, or the worker be killed, between any    *)
(* two of these steps; the job of a killed worker is run again.            *)
(***************************************************************************)
EXTENDS EmployeeAdmin

CONSTANTS
    Owners,     \* bound: those who edit their own profiles
    Contacts,   \* bound: what forms say of the email address and the setting
    MaxJobs,    \* bound: jobs outstanding for one employee
    MaxCrashes  \* bound: times the worker is killed

Contact == [email : BOOLEAN, notify : BOOLEAN]

ASSUME MailAssumption ==
    /\ Owners \subseteq Employees /\ Contacts \subseteq Contact
    /\ MaxJobs \in Nat /\ MaxCrashes \in Nat

VARIABLES
    contact,    \* the email (present or blank) and notify columns
    tokens,     \* the employees with an authentication token
    jobs,       \* number of EmployeeMailer jobs outstanding per employee
    worker,     \* whose job is run, the next step, the settings it has read
    handled,    \* the settings that the last job to get that far had read
    invited,    \* those who were sent a link
    crashes     \* counter for the bound

mailVars == <<employee, contact, tokens, jobs, worker, handled, invited, crashes>>
queueVars == <<tokens, worker, handled, invited, crashes>>

\* What the observer and the mailer look at.
Setting == [active : BOOLEAN, notify : BOOLEAN, email : BOOLEAN]

SettingOf(e) ==
    [active |-> employee[e].active, notify |-> contact[e].notify,
     email |-> contact[e].email]

\* active? && notify?, the latter asking for an email address as well
Invites(s) == s.active /\ s.notify /\ s.email

Unset == [active |-> FALSE, notify |-> FALSE, email |-> FALSE]
Idle == [on |-> None, at |-> "waiting", read |-> Unset]

\* The jobs of those who are there at the start have been run.
MailInit ==
    /\ EmployeeInit
    /\ contact \in [Employees -> Contacts]
    /\ jobs = [e \in Employees |-> 0]
    /\ worker = Idle
    /\ handled = [e \in Employees |-> SettingOf(e)]
    /\ invited = {e \in Present(employee) : Invites(SettingOf(e))}
    /\ tokens = Present(employee)
    /\ crashes = 0

-----------------------------------------------------------------------------
(* The web process.  There is no validation of a blank email address: the  *)
(* option allow_blank is given a lambda, which counts as true.             *)

\* Mutant of Enqueues: only changes of "active" are looked at.
EnqueuesOnActivation(e) ==
    \/ employee[e].row = "unused" /\ e \in Present(employee')
    \/ /\ e \in Present(employee) /\ e \in Present(employee')
       /\ SettingOf(e)'.active # SettingOf(e).active
       /\ SettingOf(e)'.active \/ SettingOf(e)'.notify

\* after_create; after_update with active or notify among the changed columns
Enqueues(e) ==
    \/ employee[e].row = "unused" /\ e \in Present(employee')
    \/ /\ e \in Present(employee) /\ e \in Present(employee')
       /\ \/ SettingOf(e)'.active # SettingOf(e).active
          \/ SettingOf(e)'.notify # SettingOf(e).notify
       /\ SettingOf(e)'.active \/ SettingOf(e)'.notify

Observe ==
    /\ jobs' = [e \in Employees |-> jobs[e] + (IF Enqueues(e) THEN 1 ELSE 0)]
    /\ \A e \in Employees : jobs'[e] <= MaxJobs
    /\ UNCHANGED queueVars

\* EmployeesController: create and update take the contact details as well.
Administer(a) ==
    /\ \/ \E form \in Hires, c \in Contacts :
             CreateEmployee(a, form) /\ contact' = [contact EXCEPT ![form.who] = c]
       \/ \E form \in Edits, c \in Contacts :
             EditEmployee(a, form) /\ contact' = [contact EXCEPT ![form.who] = c]
       \/ \E e \in Suspendable, active \in BOOLEAN :
             SetActive(a, e, active) /\ UNCHANGED contact
       \/ \E e \in Leavers : DestroyEmployeeRow(a, e) /\ UNCHANGED contact
    /\ Observe

\* ProfileController: employees change their own contact details.
EditProfile(e) ==
    /\ Actor(e)
    /\ SaveEmployee(e, employee[e])
    /\ \E c \in Contacts : contact' = [contact EXCEPT ![e] = c]
    /\ Observe

-----------------------------------------------------------------------------
(* The worker process.                                                     *)

Running(at) == worker.at = at
Goes(at) == worker' = [worker EXCEPT !.at = at]
Kept == UNCHANGED <<contact, jobs, crashes>>

\* Employee.find
Load(e) ==
    /\ worker = Idle
    /\ jobs[e] > 0
    /\ e \in Present(employee)
    /\ worker' = [on |-> e, at |-> "token", read |-> SettingOf(e)]
    /\ UNCHANGED <<employee, tokens, handled, invited>> /\ Kept

\* Employee.find raises until the last attempt.
GiveUp(e) ==
    /\ worker = Idle
    /\ jobs[e] > 0
    /\ e \notin Present(employee)
    /\ jobs' = [jobs EXCEPT ![e] = @ - 1]
    /\ UNCHANGED <<employee, contact, queueVars>>

\* A copy read earlier is saved without validation: an UPDATE of the columns
\* that were changed in it.  A row that is gone by now is not missed.
SaveCopy(e, copy, changed) ==
    IF e \in Present(employee)
    THEN /\ employee' = [employee EXCEPT
               ![e].active = IF "active" \in changed THEN copy.active ELSE @]
         /\ contact' = [contact EXCEPT
               ![e].email = IF "email" \in changed THEN copy.email ELSE @,
               ![e].notify = IF "notify" \in changed THEN copy.notify ELSE @]
         /\ tokens' = IF "token" \in changed THEN tokens \cup {e} ELSE tokens
    ELSE UNCHANGED <<employee, contact, tokens>>

\* Mutants of EnsureToken: all columns are written; the token is not saved.
EnsureTokenWithRow ==
    /\ Running("token")
    /\ SaveCopy(worker.on, worker.read, {"active", "email", "notify", "token"})
    /\ Goes("deliver")
    /\ UNCHANGED <<jobs, handled, invited, crashes>>

EnsureTokenInMemory ==
    /\ Running("token")
    /\ Goes("deliver")
    /\ UNCHANGED <<employee, tokens, handled, invited>> /\ Kept

\* ensure_authentication_token! sets a token where there is none and saves; the
\* observer finds neither switch among the changed columns.
EnsureToken ==
    /\ Running("token")
    /\ SaveCopy(worker.on, worker.read, IF worker.on \in tokens THEN {} ELSE {"token"})
    /\ Goes("deliver")
    /\ UNCHANGED <<jobs, handled, invited, crashes>>

\* Mutant of Deliver: the mail has no sender, and is dropped for that.
DeliverUnsigned ==
    /\ Running("deliver")
    /\ handled' = [handled EXCEPT ![worker.on] = worker.read]
    /\ Goes("done")
    /\ UNCHANGED <<employee, tokens, invited>> /\ Kept

\* The mail is rendered and sent, or there is none.
Deliver ==
    /\ Running("deliver")
    /\ handled' = [handled EXCEPT ![worker.on] = worker.read]
    /\ invited' = IF Invites(worker.read) THEN invited \cup {worker.on} ELSE invited
    /\ Goes("done")
    /\ UNCHANGED <<employee, tokens>> /\ Kept

\* perform has returned and the job is deleted.
Done ==
    /\ Running("done")
    /\ jobs' = [jobs EXCEPT ![worker.on] = @ - 1]
    /\ worker' = Idle
    /\ UNCHANGED <<employee, contact, tokens, handled, invited, crashes>>

\* Mutant of Crash: the job is deleted and runs to its end all the same.
CrashDeletingJob ==
    /\ worker # Idle
    /\ crashes < MaxCrashes
    /\ jobs' = [jobs EXCEPT ![worker.on] = @ - 1]
    /\ crashes' = crashes + 1
    /\ UNCHANGED <<employee, contact, tokens, worker, handled, invited>>

Crash ==
    /\ worker # Idle
    /\ crashes < MaxCrashes
    /\ worker' = Idle
    /\ crashes' = crashes + 1
    /\ UNCHANGED <<employee, contact, tokens, jobs, handled, invited>>

-----------------------------------------------------------------------------

Web ==
    \/ \E a \in Employees : Administer(a)
    \/ \E e \in Owners : EditProfile(e)
Job == EnsureToken \/ Deliver \/ Done

MailNext ==
    \/ Web
    \/ \E e \in Employees : Load(e) \/ GiveUp(e)
    \/ Job
    \/ Crash

\* The worker finishes what it has taken and passes over no job for ever.
MailFairness ==
    /\ WF_mailVars(Job)
    /\ \A e \in Employees : SF_mailVars(Load(e))

MailSpec == MailInit /\ [][MailNext]_mailVars /\ MailFairness

-----------------------------------------------------------------------------

\* The types of the contact details, the queue and the worker's progress.
MailTypeOK ==
    /\ EmployeeTypeOK
    /\ contact \in [Employees -> Contact]
    /\ tokens \subseteq Employees /\ invited \subseteq Employees
    /\ jobs \in [Employees -> Nat]
    /\ worker \in [on : Employees \cup {None}, at : {"waiting", "token", "deliver", "done"},
                   read : Setting]
    /\ worker.at = "waiting" <=> worker.on = None
    /\ handled \in [Employees -> Setting]
    /\ crashes \in 0 .. MaxCrashes

SameSwitches(s, t) == s.active = t.active /\ s.notify = t.notify

(***************************************************************************)
(* When no job is outstanding for an employee who is active or wants mail, *)
(* the last job has acted on the switches he has now, however they were    *)
(* turned while jobs were waiting, running or interrupted                  *)
(* (employee_observer.rb:8, employee_mailer.rb:4-8).  The email address is *)
(* no such switch: filling it in later enqueues nothing.                   *)
(***************************************************************************)
SilenceMeansHandled ==
    \A e \in Present(employee) :
        jobs[e] = 0 /\ (employee[e].active \/ contact[e].notify)
            => SameSwitches(handled[e], SettingOf(e))

(***************************************************************************)
(* Whoever was sent a link and is still employed has a token that the link *)
(* can be checked against (employees_mailer.rb:9).                         *)
(***************************************************************************)
InvitedMeansToken == invited \cap Present(employee) \subseteq tokens

(***************************************************************************)
(* The inductive invariant behind the two: the job that is run is in the   *)
(* queue; if it is the only one of a present employee, what it has read    *)
(* (or, at its end, handled) are his present switches, unless both are     *)
(* off; a link is sent when the token is stored; and nobody is invited, or *)
(* his job run, before he has a row.                                       *)
(***************************************************************************)
JobQueued == worker.on # None => jobs[worker.on] > 0

OnlyJobIsCurrent ==
    LET e == worker.on IN
    /\ e \in Present(employee)
    /\ jobs[e] = 1
    /\ employee[e].active \/ contact[e].notify
    => IF worker.at = "done"
       THEN SameSwitches(handled[e], SettingOf(e))
       ELSE SameSwitches(worker.read, SettingOf(e))

TokenStored ==
    worker.at \in {"deliver", "done"} /\ worker.on \in Present(employee)
        => worker.on \in tokens

NoRowNoMail ==
    \A e \in Employees : employee[e].row = "unused" => e \notin invited /\ worker.on # e

MailInv ==
    /\ MailTypeOK /\ SilenceMeansHandled /\ InvitedMeansToken
    /\ JobQueued /\ OnlyJobIsCurrent /\ TokenStored /\ NoRowNoMail

(***************************************************************************)
(* The worker saves rows that it has read some time ago, but nothing that  *)
(* administrators and employees have entered since is written back: what   *)
(* an employee's row says of his account and of his mail changes with      *)
(* their requests only, so no job ever undoes a suspension or turns mail   *)
(* on again (employee_mailer.rb:5-6, employees_mailer.rb:9).               *)
(***************************************************************************)
NothingWrittenBack ==
    [][<<employee, contact>>' # <<employee, contact>> => Web]_mailVars

(***************************************************************************)
(* Everybody who is active, wants mail and has an address is sent a link   *)
(* in the end, unless that changes first or the address was filled in when *)
(* all jobs had been run.                                                  *)
(***************************************************************************)
EventuallyInvited ==
    \A e \in Employees :
        (e \in Present(employee) /\ Invites(SettingOf(e)))
            ~> \/ e \in invited
               \/ ~(e \in Present(employee) /\ Invites(SettingOf(e)))
               \/ jobs[e] = 0 /\ ~handled[e].email
=============================================================================
