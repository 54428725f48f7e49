# Human Faktor in TLA+

Human Faktor is a Rails 3.0 application in which companies (accounts) manage
the leave of their employees. This directory holds TLA+ modules translated from
its source, the TLC configurations that check them on small accounts, and
theorems about them whose proofs TLAPS checks. Paths below are relative to the
root of the repository.

    tlc -workers 2 -config Workflow.cfg MCLeaveRequests     # one of the runs below
    tlapm LeaveRequests_proofs.tla                          # one of the proof modules

## 1. The system

### Processes

`Procfile` starts one `thin` web process, single-threaded, and one worker,
`rake jobs:work` (delayed_job 3.0.5). Both share a PostgreSQL database. Rows carry
no version (`lock_version`) and the schema declares no foreign keys. Every `save` is a
transaction of its own unless the code opens one around it, and writes the
changed columns only. A handler of the web process therefore runs alone among
web handlers; what interleaves is the web process with the worker, the commits
of one handler or job with a crash, and the decisions of many people over days.
Nothing in the code relies on the single web process, though, and nothing keeps an
operator from starting more of them: LeaveSessions models that deployment.

### Inventory

| Component | State | Operations | Interacts with | What is hard | What makes it correct |
|---|---|---|---|---|---|
| Staff hierarchy and permissions (`app/models/employee.rb`) | role, approver and active columns | `staff`, `build_staff_list`, `is_manager_of?`, `can_authorise_leave?` | every permission check | recursion over a graph of approvers that administrators may draw with loops | it ends; it lists exactly the chains of approvers leading to the manager |
| Employee administration (`employees_controller.rb`) | `employees` | create, update, deactivate, reactivate, destroy | deletes leave requests; changes who has authority | other tables keep pointing at deleted rows | nothing outlives its owner; no stored row becomes unusable |
| Leave request workflow (`leave_request.rb`, `leave_request_day.rb`, three controllers) | `leave_requests`, `leave_request_days` | request, capture, confirm, approve, decline, cancel, reinstate, update constraints | permissions, constraints, observer | an approval saves twice; validations that run on creation only; authority that changes while requests wait | audit columns agree with the status; leave is granted by somebody with authority then; no day counts twice |
| Leave notifications (`leave_request_observer.rb`, `leave_request_mailer.rb`) | `delayed_jobs` | enqueue on status change, perform, retry, give up | workflow, mail templates | the job reads the row when it runs; people and rows may be gone by then | the status a request rests in is announced |
| Bulk upload of employees (`bulk_upload.rb`, its observer, two jobs) | `bulk_uploads`, `bulk_upload_stages`, `employees` | create, accept, stage, resolve approvers, process | worker, employee administration | web process and worker write the same status; a job killed between commits runs again; approvers are resolved in one job and put in place by another | the status settles; "imported" is true; nobody is hired twice; whoever names a row of the file as his approver gets that row, or nobody is imported |
| Leave balances and cycles (`leave_type.rb`, `leave_balance_detail.rb`) | leave types, calendar | cycle of a date, balance | day rows | date arithmetic at the ends of cycles | every date is in one cycle; nothing earned is lost or counted twice between cycles |
| Leave constraints (`leave_constraints.rb`) | none | ten predicates on a new request | balances, calendar | signs and boundaries | agree with the leave type's settings |
| Provisioning and setup (`account_provisioner.rb`, `account_setup.rb`, `registration*.rb`) | `registrations`, `accounts` | register, provision, activate, set up | worker, mails | commit before enqueueing mails; retries on unique subdomains | a registration becomes one account and its mail is sent |
| Employee activation mails (`employee_observer.rb`, `employee_mailer.rb`, `employees_mailer.rb`) | `delayed_jobs`, tokens | enqueue when an employee is created or a switch is turned, load, save the token, deliver | employee administration, profile page | the job works on a row it read some time ago and saves a token to it | the last switches are acted upon; a link has its token; a job overwrites nothing that was entered since |
| Reports, dashboards, filters (`lib/*_enquiry.rb`, `lib/*_filter.rb`) | none | queries | all tables | none of their own | stated of the tables they read |
| Sign-in and tenant scoping (devise, `account_tracker.rb`, `account_scoped_model.rb`) | session | authenticate, scope to account | all controllers | none modelled | an actor is a stored and active employee |
| Public site, views, assets | none | | | | |

The hazards this inventory leads to, each at its line and with the properties
that watch it (or the reason none does yet), are the `hazards` of
`PROJECT.json`.

### Modules and how they compose

    Staff <- EmployeeAdmin <- LeaveRequests <- LeaveNotifications
      ^            ^                ^   |
      |       EmployeeMails         |   +- INSTANCE LeaveLedger
    StaffList                  LeaveSessions
    BulkUpload <- BulkStage
    Provisioning        LeaveCycles <- LeavePeriods        LeaveConstraints

    EmployeeAdmin_proofs (of EmployeeAdmin and StaffList)
    EmployeeAdmin_proofs <- LeaveRequests_proofs <- LeaveNotifications_proofs,
                                                    LeaveSessions_proofs
    EmployeeAdmin_proofs <- EmployeeMails_proofs
    BulkUpload_proofs (of BulkUpload and BulkStage), Provisioning_proofs
    LeaveBalances_proofs (of LeaveConstraints, LeaveCycles and LeavePeriods)
    MCLeaveRequests, MCLeaveNotifications, MCLeaveSessions, MCEmployeeMails, MCStaffList,
    MCBulkStage, MCProvisioning, MCLeaveCycles, MCLeaveConstraints: instances for TLC

(An arrow points from the module that is extended.)

## 2. The models and the code

**Staff** has no state: roles, `StaffOf` (`Employee#staff`), `IsManagerOf` and the
rest take the employees table as a function from identities to rows. An
identity is `unused` before its row is inserted and `gone` after it was
destroyed, since other rows go on holding its id. `Hierarchy` states what
`build_staff_list` collects as a least set, without lists or recursion, which is all
that permissions depend on. `ReportsTo` is an independent definition of the same: a chain of
approvers, through people with staff of their own, leads to the manager. `StaffReportUp`
(in EmployeeAdmin) says that the two agree, `StaffNests` that a manager's staff contains the
staff of his staff.

**StaffList** has `build_staff_list` as the recursion it is, list operations
included, and compares what it returns with the chains of approvers, too. The recursion is a
function: `below[e]` is what the call for e returns, `Listing` the loop over the rows of one
query. The sort by name that ends every call only fixes an order.

**EmployeeAdmin** has one action per action of `EmployeesController`. A form
brings the role, the approver and whether the employee is active; the validation that everybody but an administrator
needs an existing approver is `SaveEmployee`. Names, contact details and
balances are left out: no permission reads them.

**LeaveRequests** is the workflow. `request` is the table, `days` the dates of the
day rows, `today` is `Date.today`. One action per handler:

| Action | Code |
|---|---|
| `Request`, `Capture` | `create` of the two controllers, `request!` / `capture!`, the validations that run on creation (`ValidOnCreate`), constraint evaluation, and the confirmation and approval they go on to when nothing is violated |
| `Confirm` | `confirm!`, which anybody may call on a `NEW` request, and which approves captured requests of the approver and leave that needs no approval |
| `Approve`, `Decline`, `Reinstate` | controller check `can_authorise?`, then the model's own guards |
| `Cancel` | `can_cancel?` with its five alternatives in the order of the code; a `NEW` request is destroyed |
| `UpdateConstraints` | `update_constraints`, which checks neither status nor permission |
| `...Interrupted` | `approve` calls `update_attributes`, which saves the request as PENDING with the overrides, and the bang method saves the decision: the process stops between the two |
| `ChangeEmployee`, `DestroyEmployee` | `EmployeeAdmin`, and the dependent requests and day rows |

`Save` is what every save does: validate that the approver exists, write the row,
and replace the day rows in the `after_update` callback of the same transaction.
Data is reduced to what the properties tell apart: a request's constraints are a
set of names, its overrides another; which constraints a form violates is an
input; dates are small numbers with a weekend; times, comments, documents and
half days are left out. `ApproverChoices` is the list the form offers.

**LeaveLedger** is what the workflow promises: entries that are drafted, asked for,
granted, refused, withdrawn, restored and erased. It knows nothing of roles,
forms or saves. The substitution is `Ledger` in LeaveRequests: phases from
statuses, the grantor from `approved_declined_by` or `reinstated_by`, authority
from `can_authorise?`.

**LeaveNotifications** adds to each step of LeaveRequests the jobs its saves
enqueue, and the worker that runs them. `announced` is the status the last job
for a request saw. `JobRaises` lists why a job raises; a job that raised runs again
later or is given up after its 25 attempts (`JobGivesUp`; failed jobs are kept,
`config/initializers/delayed_job_config.rb`). Refusals of the mail server are
not modelled.

**BulkUpload** follows one upload. `worker` holds the job being run, its next step,
and the rows still to check; each commit of `StageBulkUpload` and
`ProcessBulkUpload` is a step, and between two steps the web process accepts the
upload or hires somebody, or the worker is killed (`Crash`), whose job then runs
from the start. `jobs` counts the jobs in the queue, the running one included.
delayed_job itself (`Take`, `Done`, `Crash`) is external and modelled from the way
the code uses it.

**BulkStage** adds the approvers that the rows of the file name. The steps of BulkUpload
are conjuncts of its steps; those that look at approvers do more. `CheckRow` resolves the
name in a row as `validate_upload` does: an active approver of the account leaves the
default in place (`NamesExisting`), any other name is looked up in all rows of the file (`NamedRow`).
`ApplyRows` is the import's transaction in its two passes: each marked row is saved with the
uploader as its approver, then those with a new approver are fixed up; a row that
cannot be saved or fixed up takes everything back. The uploader may be deleted at any
moment. Names are identities here: two rows do not share one.

**EmployeeMails** adds to EmployeeAdmin the contact details (whether there is an email
address, and the `notify` column), the edits employees make to their own profile, and
the job: `Load` is `Employee.find`, `EnsureToken` the save of `ensure_authentication_token!`,
`Deliver` the rest of `perform`, on what was read at `Load`. `SaveCopy` is a save of a copy that was
read earlier: it writes the columns that were changed in the copy, and `EnsureToken` has changed the token
or nothing. The web process and `Crash` come
between any two of them. `handled` is what the last job had read, `invited` who was
sent a link.

**LeaveSessions** splits the handlers of LeaveRequests for several web processes: `Load...` is the
handler up to its first save, with the guards evaluated on what was loaded and the
versions of the row it is going to save in `saves`; `Begin` the UPDATE, the validations
and the SELECT of its day rows; `Commit` the end of that transaction. A save that the validations
reject (`Acceptable`) ends the handler, but `approve` does not look at what
`update_attributes` returns and goes on to save the decision (`Refuse`). Partial updates are
`Merged`. PostgreSQL's row lock is `Holds`. `copies` records which transactions' day rows a request
has: an UPDATE waits for another one, a save without changed columns issues none and
rebuilds the day rows beside it. `raced` are the requests written from data that was
no longer current (`Outdated`). Employees and the date stay as they are.

**LeaveCycles** has the cycles of `leave_type.rb`. `CycleStart` and `CycleEnd`
are the two pairs of methods (annual leave; the other types), `CountsTakeOn` is
`take_on_balance_for`. A year
is 365.25 days to `Integer#years` and Ruby's dates keep the fraction, so moments are
counted in quarter days; a query sees the day only. The state is a leave type, an employee
and the date a balance is asked for, which advances day by day. The loop of
`cycle_start_date_for` is a recursive function (`RollOn`).

**LeavePeriods** adds the sums of an annual balance: `PastPeriods` are the queries that the loop of
`leave_carried_forward_for` makes, `CurrentPeriod` the query of `leave_taken_for`. Amounts are
abstracted to which days are deducted how often, and to how many days earn leave
(`EarnedBefore`, `EarnedNow`: what the allowance of a day is multiplied with). `Periods` is the
loop, a recursive function like `RollOn`.

**LeaveConstraints** has the measures of a request, counted in half days: `Duration`
(`calculate_duration`), `DaysTaken` (the day rows, less holidays, as the balance
sums them), `Available` (`LeaveBalanceDetail#available` for leave that does not
accrue, within a cycle), and `Violates`, the ten predicates, as they are evaluated for a
request that has no id yet. `EnterHoliday` is somebody adding to the calendar, which no page does;
the stored duration stays, the balance follows. The calendar is a set of dates, that is, it has one entry for
a date; the schema does not enforce that, and a date entered twice would be subtracted twice
(`leave_request.rb:397-402`). LeaveRequests takes the set they compute as an input.

**Provisioning** follows companies from their registration to an account that is set up.
`Register` is the registration with the job its observer enqueues in the same
transaction; `Provision` the transaction of `AccountProvisioner`, `Raise` what happens to a
job that finds the account there already, `EnqueueMail` each of the two mails after the
commit; `SetUp` is `update` of `AccountSetupController`, which needs the account's token and, unlike
`edit`, does not look at `active`: it may happen again and adds another administrator. An account's
locations, departments, leave types and subscription belong to the transaction and are abstracted to it.

## 3. What the runs check

| Run | Instance | What it shows |
|---|---|---|
| Workflow | a boss, a lead and a clerk: the clerk is hired; the lead is demoted, promoted, made his own approver, suspended, deleted while a request waits; two leave types, one needing no approval; one constraint | `TypeOK`; `AuditTrail`: the audit columns agree with the status after any sequence of handlers; `NoOrphans`: deletion leaves nothing behind; `StrandedStays`: a request whose approver was deleted rests as it is; `KeepsLedger`: the workflow implements LeaveLedger |
| Overlap | two requests of one employee, captured or reinstated, over two days, one a weekend | `WorkflowInv`, the inductive invariant of the proofs; `DoubleCountExplained` |
| Notifications | three levels, the approver may be deleted; up to two outstanding jobs | `SilenceMeansAnnounced`: with no job left, the last announcement is the present status; `EventuallyAnnounced` |
| StaffList | every graph of approvers over four people, with hiring, deletion and suspension | `StaffListComplete`: the recursion returns those whose chain of approvers leads to the manager; `StaffReportUp`: so does `Hierarchy`; `StaffNests` |
| BulkUpload | four files of three rows, one of them hired before: a chain of approvers, two who approve each other, approvers that work for the account already; up to three accepts and two crashes | `QuietMeansSettled`, `ProcessedMeansImported`, `NobodyTwice`, `ApproverAsNamed`, `FailedMeansNotApplied`, `AcceptedEnds` |
| LeaveCycles | seven employees who join, or take on a balance, at the ends of years, in July, on and after 29 February; annual leave from January and from March, cycles of one year, three or four years, two months; every date from 2003 to May 2007 | `CyclesFollowOn`, `TakeOnCountsOnce`, `DeductionsFit`, `AccrualKeepsPace` |
| Constraints | every request over eight days with a weekend and holidays on a Sunday, a Monday and a Friday, and one on the Wednesday that is entered later | `DurationMatchesDays` |
| Provisioning | two companies, two subdomains, two names for the administrator; up to two crashes | `AccountsMatch`, `WelcomedOnce`, `ActiveHasAdministrator`, `RegisteredGetsAccount` |
| EmployeeMails | a boss and a clerk who is hired, edited, suspended, deleted and edits his profile; up to three jobs and two crashes | `SilenceMeansHandled`: with no job left, the last one acted on the present switches; `InvitedMeansToken`; `NothingWrittenBack`: only administrators and the employee change what his row says; `EventuallyInvited` |
| LeaveSessions | two web processes, two requests of one clerk for the same days, one type of leave that somebody has to approve and one that nobody has to, up to three handlers | `GrantedByAuthority`, `OneLockedCopy`, `DoubleCountRaced`; `OnlyOutdatedDeviate`: whatever is committed from current data is a step of LeaveRequests |

Each property of these runs is broken by at least one plausible bug in the code,
written beside the definition it replaces as a "Mutant of ..." operator and listed in
`PROJECT.json`.

Two more runs check a statement that a comment, a validation or a page makes and
that the code does not keep; TLC finds the behaviour.

| Run | The statement | What the code does |
|---|---|---|
| DeductedTwice | "accumulate leave from the start date up to the cycle start date" (`leave_type.rb:306`) | a past cycle's query reaches into the next cycle, by a day, or by more for somebody who joined within a cycle |
| Overdraft | "Exceeds allowed negative leave balance" (`leave_constraints.rb:107`) | the comparison asks for more than the allowance, not for less than nothing |

Other statements of the code that the models do not keep, each visible in a
definition or in the exceptions of a property:

- `validates :approver, :existence => true` (`leave_request.rb:91`): deleting an approver keeps the
  requests he approves, and none of them can be saved again; `StrandedStays` says so.
- "FAILURE: The bulk upload file failed to be applied." (`_status_failed.html.erb:1`): an import
  that runs twice, after a crash or a second accept, fails on its own employees although
  the file was applied; `FailedMeansNotApplied` is about uploads accepted once and not
  interrupted.
- "resolve for approver, first in existing employees, then in the bulk upload, otherwise use the
  default" (`stage_bulk_upload.rb:147-148`), and "the corresponding approver must exist, or be contained in
  the file being uploaded" (`bulk_uploads/new.html.erb:167-171`): line 151 replaces the existing approver that
  was found by the uploader. `ApprovedBy` does what the code does; `ApproverAsNamed` leaves out the rows that
  name an existing approver (`NamesExisting`), since the code and its texts disagree about them. The load
  order (line 167) makes no difference to who is imported with whom.
- An email address that is filled in when no job is left enqueues nothing
  (`employee_observer.rb:8`): `EventuallyInvited` excepts it.
- With several web processes a request may be approved and cancelled at once, two requests
  for the same day made, and the day rows of a request doubled by a save that changes
  nothing: `OnlyOutdatedDeviate`, `DoubleCountRaced` and `OneLockedCopy` say when.
- "Cannot overlap with another leave request" (`leave_request.rb:462`) holds on creation only:
  `DoubleCountExplained` names the two ways around it, a request held back as NEW and a
  reinstated one.
- "is an admin, but not for own leave request (unless is approver)"
  (`leave_request.rb:367`): in `CanCancel` the disjunct before it, `IsManagerOf`, is true of
  every administrator and himself.
- The approval mail of captured leave calls `fullname`, which employees do not have
  (`approved.text.erb:5`): `MisspeltName`, one of the reasons a job raises.
- "adjacent to pending or approved leave" (`leave_constraints.rb:165`): the query asks for
  `id <> NULL`, since a new request has no id (`IsAdjacent`).
- "each aniversary is an increment of the cycle duration" (`leave_type.rb:127`), with the tests that expect
  the rolling cycle of 1 January 2012 to begin on that day, for a start on 1 January 2011
  (`spec/models/leave_type_spec.rb:48,52-57`), and no take-on balance to count on it (`:160-162`): 365.25 days
  after a midnight is not a midnight, so that day still belongs to the old cycle, and the balance taken on in
  it counts. `RollOn` does what the code does; `CyclesFollowOn` and `TakeOnCountsOnce` leave out rolling cycles
  that do not last a whole number of days (`WholeDays`), which are those of one, two and three years.
- Past periods of a single day, and all after an empty one, are left out by the loop
  at `leave_type.rb:322-340`; `DeductionsFit` is therefore about employees who joined on the
  first day of a cycle.
- "allowance is pro-rated" (`leave_type.rb:335`): the first period of somebody who joined within a cycle
  lasts a whole cycle, past the start of the next one, and earns leave for all of it;
  `AccrualKeepsPace` is about employees who joined on the first day of a cycle.
- "Carry over allowance" (`employees/_form.html.erb:177`): `cycle_days_carry_over` is shown and edited,
  but no balance reads it; all that was earned is carried forward.
- "send welcome emails" (`account_provisioner.rb:73`): a company whose job was interrupted after the
  commit gets none; `WelcomedOnce` excepts jobs that failed.

### Bounds

- Identities: two or three employees are what the permissions tell apart: the
  owner of a request, its approver, and somebody above or beside them. Three
  levels are needed for a manager's authority to reach past his direct staff.
- `Requests`: one request suffices for every property of a single row; two for
  overlap and double counting, which relate two rows.
- `LastDay`: two days distinguish past, present and future leave, leave that
  overlaps in part, and a weekday from a weekend.
- `Hires`, `Edits`, `Suspendable`, `Leavers` bound which forms administrators submit;
  the forms can be submitted at any moment and repeatedly.
- `MaxJobs = 2` lets a second job overtake the first one's status, the case the
  notifications can go wrong in; an approval on creation enqueues two at once.
- `MaxAccepts = 3`, `MaxCrashes = 2`: one accept too early, one in time and one too
  late; a crash in each of the two jobs, or twice in one. The files (`FewFiles`) have every
  kind of approver name: none, a marked row, somebody who works here already, a cycle.
- EmployeeMails: `Contacts` are all four combinations; `MaxJobs = 3` lets the switches be turned
  while one job runs and another waits; only the clerk's row matters, the boss acts.
- LeaveSessions: `MaxLoads = 3` lets a request be made and both processes then handle it, or one process
  act twice while the other has loaded; two processes are enough to race for a row, and the
  proofs hold for any number of them and of handlers.
- LeaveCycles: four years and five months hold a leap year, the ordinary years before and after
  it, and cycles of three and four years with the start of their successors; a boundary of the
  code can only fall on the days chosen for the employees, 1 January and 1 March.
  Employees whose annual cycle starts on 29 February are excluded (`CycleAssumption`):
  `Date.new` raises in the other years. Annual cycles begin every year; an administrator may
  enter a length of less than that (`leave_type.rb:287`), and then there are dates in no cycle, so
  `CyclesFollowOn` and `TakeOnCountsOnce` are about cycles of a year at least (`Yearly`), and of cycles
  that roll about those of whole days (`WholeDays`): four years and two months in this run. A longer
  one overlaps the cycles that begin meanwhile, so `DeductionsFit` and `AccrualKeepsPace` are about
  cycles of a year (`JoinedWithCycle`), which is what provisioning creates.
- LeaveConstraints: the duration of a request is a matter of that request alone (`MaxRequests
  = 1`); adjacency and the balance take two.
- Provisioning: two registrations may compete for a subdomain; two crashes interrupt a job
  before and after its commit.

Deadlock is not checked where the bounds let a system come to rest (all request
ids used, the last day reached, the last accept and crash spent); it is checked
in the StaffList run. Request ids are interchangeable in the Overlap run, and so are requests and
processes in the LeaveSessions run; neither states liveness, so symmetry is sound there.

### Fairness

`rake jobs:work` polls its queue for ever and runs jobs by their `run_at`.
LeaveNotifications assumes weak fairness of `PerformJob` for each request: a job
that would succeed is not passed over for ever (while it raises, nothing is
assumed; it may be given up). BulkUpload assumes weak fairness of the worker as
a whole (`Work`), not of any single step; crashes are bounded, which is the
assumption that the worker is not killed for ever. Provisioning assumes the same of a job that was taken, and strong
fairness of taking each job: jobs are reserved by `run_at`, which a retry moves back,
so no job is passed over for ever; EmployeeMails does the same. LeaveSessions states no
liveness and assumes no fairness. No handler of the web process is assumed to
happen: people may stop using the application at any moment.

## 4. What is proved

| Theorem | For every account, upload, registration |
|---|---|
| `WorkflowCorrect` | `Spec => []WorkflowInv` |
| `TypeCorrect`, `AuditTrailCorrect`, `NoOrphansCorrect`, `DoubleCountCorrect`, `StrandedCorrect` | the properties of the Workflow and Overlap runs |
| `LedgerKept` | `Spec => KeepsLedger`: LeaveRequests implements LeaveLedger |
| `NotificationTypeCorrect`, `SilenceCorrect` | the safety properties of LeaveNotifications |
| `GrantedCorrect`, `LockedCopyCorrect` | what LeaveSessions promises of one request |
| `DeviationCorrect` | `SessionSpec => OnlyOutdatedDeviate`: whatever several web processes commit from current data is a step of the workflow |
| `DoubleCountRacedCorrect` | what LeaveSessions promises of two requests |
| `StaffCorrect`, `AuthorityNests` | the staff of a manager, and the staff of his staff, for any graph of approvers, loops included |
| `ListCorrect` | StaffList: the recursion of `build_staff_list` ends, and lists each of them once |
| `CyclesCorrect`, `TakeOnCorrect` | cycles follow on each other, and a take-on balance counts once, for any employee, date and type of annual leave, and other types whose cycles are whole days |
| `DeductionsCorrect`, `AccrualCorrect` | LeavePeriods: the past cycles and the present one fit together, in what they deduct and in what they earn, over any number of years |
| `DurationCorrect` | LeaveConstraints: the duration of a request is what its day rows take from the balance |
| `MailTypeCorrect`, `HandledCorrect`, `TokenCorrect` | the safety properties of EmployeeMails |
| `WritesCorrect` | `MailSpec => NothingWrittenBack`: no job writes to an employee what it has read earlier |
| `BulkTypeCorrect`, `SettledCorrect`, `ImportCorrect`, `HiredOnceCorrect`, `FailedCorrect` | the safety properties of BulkUpload |
| `StagedUploadCorrect` | the same properties of BulkStage, the specification of the BulkUpload run |
| `ApproverCorrect` | BulkStage: who approves those whose rows name no active approver of the account |
| `ProvisioningTypeCorrect`, `AccountsCorrect`, `WelcomeCorrect`, `AdministratorCorrect` | the safety properties of Provisioning |

The assumptions are those of the modules: null is no employee, an account has finitely many
employees, the initial table has
rows of the right type, forms name employees and roles, bounds, dates and lengths are numbers,
nobody takes on a balance before his first day, and annual cycles begin on a day that every year has.
Nothing is assumed about how many employees there are, the number of requests, dates
or rows, jobs, crashes or web processes, or who is whose approver.

*EmployeeAdmin_proofs.* Besides the lemmas that the other modules need, `StaffCorrect`: the least set of
`Hierarchy` is the set of chains of `ReportsTo`. Whoever is on a chain is in every set that is
closed under approvers (`ChainInClosed`, from the end of the chain that is nearest to the manager
backwards). The converse needs that the chains make a closed set (`ReportsClosed`), that is, that a
chain can be made longer; the definition bounds its length by the number of employees. Nobody occurs on
a chain twice (`ChainInjective`), for his approver is the same wherever he occurs, so the
rest of the chain would repeat and never reach the manager; hence the bound is never in the way
(`ChainLength`). `AuthorityNests` follows from the least set: what is below a manager is closed for everybody
it went through (`HierarchyClosedBelow`), although their own lists stop at other people.

`ListCorrect` is about the lists themselves. The loops are folds of the community modules: a fold is well defined
(`FoldExists`), its result is reached element by element (`FoldUpTo`), and so `AppendMissingIs` and
`ListingIs` say what the lists hold, and that the loop lists nobody twice if no row of a query is also below
another row of it. Why the recursion ends is that every call goes one step down: `Depth` is the length of the
shortest chain to the manager, one more for the direct staff of anybody it goes through (`DepthBelow`), and a
chain is no longer than there are employees. `RecursionEnds` derives from it that the recursive function
exists; `CallLists` that a call lists only people deeper than the one it was made for, together with the staff of those. The
first is why nobody is listed twice, although the code tests `include?` in one of the two places
where it appends; the second closes the list, so that it is the least set of `Hierarchy`.

*LeaveRequests_proofs.* `AuditTrail` and the others are not inductive alone: `NoOrphans`
needs to know that the id of a destroyed request holds no employee
(`WellFormed`); `DoubleCountExplained` speaks of day rows, which follow from the
dates (`CalendarMatches`), so the induction is over the dates (`OverlapExplained`)
and needs that a NEW request has warnings (`WellFormed` again), since confirming
it skips the overlap validation. `StepKinds` and `HandlerEffect` reduce the twelve
handlers to three kinds of steps: a save of one row, a destruction of a set
of rows, and steps that touch no request; `SaveKeepsInv`, `DestroyKeepsInv` and
`RestKeepsInv` treat these.

For `LedgerKept`, `Phases` and `Grantors` map types; `FiledLedger`, `MovedLedger`,
`EraseLedger` and `ReorganiseLedger` show one kind of step each to be a ledger step
or a stutter, with `AuditTrail` supplying that what is withdrawn has no
grantor, and the guards of the handlers supplying the authority.

*BulkUpload_proofs.* `UploadInv` ties the status to the jobs that are still to
overwrite it: an accepted upload has an import job that had not started when it
was accepted (two jobs, if one is running). That is the fact which makes the race
between accepting and a running job harmless; `QuietMeansSettled` is what is
left of it once no job is. `FailedMeansNotApplied` is about uploads accepted once and not
interrupted: `OnceInv` says that such an upload has one job of each kind at most, that no row is marked
before it was staged, and that once somebody was imported only the job that imported him is left, past
the point where it may fail. Every step of BulkStage is one of BulkUpload or a stutter
(`StageStep`), so these facts carry over (`StagedUploadCorrect`); `ApproverAsNamed` needs besides that a row is
marked only after its approver was resolved (`StageInv`).

*LeaveNotifications_proofs.* `SilenceMeansAnnounced` excepts requests whose mail cannot be rendered;
for those nothing is left to announce only as long as that stays so. `NotificationInv` therefore adds
the invariant of the workflow and that whoever a stored request names has had a row
(`KnownPeople`): who is gone does not come back (`KnownStays`), and a job that raises goes
on raising (`RaisesOn`).

*EmployeeMails_proofs.* `MailInv` says when the job that is running is still needed: if it is an
employee's only one, what it has read are his present switches, since turning one
enqueues another (`OnlyJobIsCurrent`); that is the fact which makes the late read
harmless. `WebEffect` reduces administrators and owners to one kind of step. `NothingWrittenBack` rests
on `SaveOfOthers`: a partial save whose changed columns are none of those that people enter leaves these
as they are by now, not as they were read.

*LeaveSessions_proofs.* `SessionInv` says of every process that the versions it is going to
save follow what it has loaded, each signed by somebody entitled to (`Working`), that nobody else
knows a row before its insertion (`Apart`), and that at most one process holds a row and
has seen all its day rows that a locking save left (`Locked`). `MergedVersion` is the heart:
merging the columns of a handler into a row that another has written in the meantime
never takes a signature away, because no handler clears `approved_declined_by` or
`reinstated_by`. A handler that cleared one would break it without any single
process being wrong.

`OnlyOutdatedDeviate` compares two specifications step by step. What a process is going to save was decided
when it loaded; `Warranted` says which handler of LeaveRequests, run by whom, saves that row when it finds
that base, and `WarrantInv` that every save still to be made is warranted by what was loaded, and the
second save of an approval by the first as well (`Prepared`). A commit that is not `Outdated` finds in the table
what was loaded, so it is that handler (`WarrantedSave`), or the second half of an approval. `RacedInv` then
is the invariant of one process with one more excuse: `CurrentEffect` reduces current commits to steps for
which `OverlapAfterSave`, proved of LeaveRequests, applies, and all others are in `raced`.

*LeaveBalances_proofs.* `DurationMatchesDays` compares a count of days with a sum over day rows, which
LeaveConstraints computes with a fold. No induction over the fold is available, but one over sets is, in
another form: if the fold and the sum disagreed somewhere, they would on a smallest set of rows, and
`RowSumStep` takes one row from it (`SumOfRows`). `MeasuredInv` says with which calendar a request
was measured: its duration never changes after, while holidays may be entered.
The cycles are arithmetic. `AnniversaryBound` and `AnniversaryStep` place the day on which annual
cycles begin in each year (365 or 366 days after the one before, in leap years or not), `DivisionBound` and `LaterMultiple` the cycles that roll; `AnnualStartIs` and `RollingStartIs` characterise the start of the
cycle of a date by inequalities, without its definition by cases, from which `AnnualNext` and
`RollingNext` derive what the next date finds.

The loops of the source are recursive functions, and such a function satisfies its equation only if
there is one that does. For `RollOn` that is a division (`Divided`); for `Periods` it is the set of the periods that begin in the least
set of moments which the loop reaches (`LoopUnfolds`), whether it ends or not. From the equation, the loop is
followed backwards from the round in which it ends: `RollOnEnds`, and `PastPeriodsAre`, by which the
k-th round finds `Period(k)`, from the day after the last period to the first day of the next cycle. These
periods follow on each other without a gap (`FirstDays`, `OnePeriod`), whence `DeductionsCorrect`. What they
earn is a sum over a set, again as a count of quarter days that takes one period at a
time (`EarnedIs`, `WeightStep`); it telescopes (`RoundsAddUp`) to all the days up to the last past cycle,
less one per cycle, whence `AccrualCorrect`.

*Provisioning_proofs.* `WelcomedOnce` needs to know how far the job is when it was
interrupted (`Progress`: where the worker stands says which mails exist), and
`AccountsMatch` that a subdomain has one registration only (`Ownership`).

Model-checked only: the liveness properties (`EventuallyAnnounced`, `AcceptedEnds`,
`RegisteredGetsAccount`, `EventuallyInvited`), which are out of the prover's reach. Every
invariant and every safety property of steps that a run checks is proved.

## 5. What is not modelled

- Half days, public holidays and the duration column in the workflow, whose properties compare
  dates only; LeaveConstraints has them for single requests.
- The amounts of a balance: the allowance of a day, which unpaid leave changes (a fraction, and
  without bound when unpaid leave takes up the cycle), allocations of single employees,
  outstanding leave.
- Attached documents and their storage, comments, timestamps, the unpaid flag
  (it travels with the overrides).
- Several web processes outside the leave request workflow: employees and uploads are
  administered by one process in every module. The Procfile starts one; LeaveSessions shows what
  remains of the workflow when it is scaled out, with employees and the date fixed.
- A mail server that refuses mails, and the database failing.
- In bulk uploads: how names in a row are resolved to locations and departments, two rows
  of the same name, and the deletion of an upload whose jobs wait.
- Sign-in, reports, the public site and views: no state of their own, or none that
  the modelled components read.
- The libraries in `public/javascripts` (jQuery and its plugins, FullCalendar, the graph
  toolkit): third-party code that draws the pages and holds no state of the accounts.
- The leave types are constant while a model runs, and so is the `notify` setting in
  LeaveNotifications.

## 6. Plan

1. *Done*: Staff, EmployeeAdmin, LeaveRequests, LeaveLedger, LeaveNotifications,
   StaffList, BulkUpload, with their runs and proofs.
2. *Done*: LeaveCycles and LeaveConstraints, checked by TLC. Their cycles, take-on balances and
   durations are proved. Left: unpaid leave in the balance, and the constraints composed with the workflow.
3. *Done*: Provisioning and its proofs. Left: the leave types and defaults of a new
   account, and the composition with EmployeeAdmin, whose first row is the administrator.
4. *Done*: BulkStage, composed with BulkUpload, and its proofs. Left: the deletion of an upload.
5. *Done*: LeaveSessions, and the proofs of what survives several web processes and that only
   outdated data deviates. Left: employees that change meanwhile.
6. *Done*: EmployeeMails and its proofs.
7. *Done*: LeavePeriods and its proofs; the staff of a manager's staff, and the list that
   `build_staff_list` returns.
