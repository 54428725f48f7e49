----------------------------- MODULE BulkUpload -----------------------------
(***************************************************************************)
(* One bulk upload of employees: the upload record (app/models/bulk_upload *)
(* .rb), the two jobs its observer enqueues, and the worker that runs      *)
(* them: Tenant::StageBulkUpload copies the file into bulk_upload_stages   *)
(* and marks the rows that could become employees, and, once an            *)
(* administrator has accepted the upload, Tenant::ProcessBulkUpload        *)
(* imports the marked rows.                                                *)
(*                                                                         *)
(* Each commit of a job is a step of its own.  Between two of them the     *)
(* administrators use the web process, or the worker is killed: its job    *)
(* stays in the queue and is run again from the start.                     *)
(***************************************************************************)
EXTENDS Integers

CONSTANTS
    Rows,           \* the user names of the rows in the file
    AlreadyHired,   \* those that belong to employees before the upload
    MaxAccepts,     \* bound: times the import button is pressed
    MaxCrashes      \* bound: times the worker is killed

ASSUME UploadAssumption ==
    AlreadyHired \subseteq Rows /\ MaxAccepts \in Nat /\ MaxCrashes \in Nat

VARIABLES
    status,     \* of the upload
    selected,   \* the staged rows marked for import
    hired,      \* rows whose user name an administrator gave to an employee
    imported,   \* rows that a job has made employees
    jobs,       \* the number of jobs in the queue, the running one included
    worker,     \* what the worker is doing: its job, the next step, the
                \* rows it still has to check
    accepts, crashes    \* counters for the bounds

upload == <<status, selected>>
staff == <<hired, imported>>
bulkVars == <<upload, staff, jobs, worker, accepts, crashes>>

UploadStatuses ==
    {"PENDING", "STAGING", "STAGED", "ACCEPTED", "PROCESSING", "PROCESSED", "FAILED"}

Kinds == {"stage", "process"}
Idle == [job |-> "none", at |-> "waiting", todo |-> {}]

\* create: the observer enqueues the staging job.
BulkInit ==
    /\ status = "PENDING" /\ selected = {}
    /\ hired = AlreadyHired /\ imported = {}
    /\ jobs = [k \in Kinds |-> IF k = "stage" THEN 1 ELSE 0]
    /\ worker = Idle
    /\ accepts = 0 /\ crashes = 0

-----------------------------------------------------------------------------
(* The web process.                                                        *)

\* Mutant of Accept: a job is enqueued for staged uploads only.
AcceptStagedOnly ==
    /\ accepts < MaxAccepts
    /\ status' = "ACCEPTED"
    /\ jobs' = [jobs EXCEPT !["process"] = @ + (IF status = "STAGED" THEN 1 ELSE 0)]
    /\ accepts' = accepts + 1
    /\ UNCHANGED <<selected, staff, worker, crashes>>

\* Mutant of Accept: the job is enqueued by two observers.
AcceptTwice ==
    /\ accepts < MaxAccepts
    /\ status' = "ACCEPTED"
    /\ jobs' = [jobs EXCEPT !["process"] = @ + 2]
    /\ accepts' = accepts + 1
    /\ UNCHANGED <<selected, staff, worker, crashes>>

\* update checks no status; the observer enqueues a job if it has changed.
Accept ==
    /\ accepts < MaxAccepts
    /\ status' = "ACCEPTED"
    /\ jobs' = [jobs EXCEPT !["process"] = @ + (IF status = "ACCEPTED" THEN 0 ELSE 1)]
    /\ accepts' = accepts + 1
    /\ UNCHANGED <<selected, staff, worker, crashes>>

\* An administrator creates an employee with the user name of a row.
Hire(n) ==
    /\ n \notin hired \cup imported
    /\ hired' = hired \cup {n}
    /\ UNCHANGED <<upload, imported, jobs, worker, accepts, crashes>>

-----------------------------------------------------------------------------
(* The worker process.  After each step worker.at names the next one.      *)

Running(job, at) == worker.job = job /\ worker.at = at

Goes(at) == worker' = [worker EXCEPT !.at = at]

Kept == UNCHANGED <<hired, jobs, accepts, crashes>>

Take(k) ==
    /\ worker = Idle
    /\ jobs[k] > 0
    /\ worker' = [worker EXCEPT !.job = k, !.at = "start"]
    /\ UNCHANGED <<upload, imported>> /\ Kept

\* set_as_staging, set_as_processing
Start(k) ==
    /\ Running(k, "start")
    /\ status' = IF k = "stage" THEN "STAGING" ELSE "PROCESSING"
    /\ Goes(IF k = "stage" THEN "load" ELSE "apply")
    /\ UNCHANGED <<selected, imported>> /\ Kept

\* stage_upload: one transaction replaces the rows staged before.
Load ==
    /\ Running("stage", "load")
    /\ selected' = {}
    /\ worker' = [worker EXCEPT !.at = "check", !.todo = Rows]
    /\ UNCHANGED <<status, imported>> /\ Kept

\* validate_upload: each row is checked and saved on its own.
Check(n) ==
    /\ Running("stage", "check")
    /\ n \in worker.todo
    /\ selected' = IF n \in hired \cup imported THEN selected ELSE selected \cup {n}
    /\ worker' = [worker EXCEPT !.todo = @ \ {n}]
    /\ UNCHANGED <<status, imported>> /\ Kept

\* Mutant of Apply: a row that cannot be saved is passed over in silence.
ApplyQuietly ==
    /\ Running("process", "apply")
    /\ imported' = imported \cup (selected \ hired)
    /\ Goes("finish")
    /\ UNCHANGED upload /\ Kept

\* Mutant of Apply: rows are saved without validation.
ApplyUnchecked ==
    /\ Running("process", "apply")
    /\ imported' = imported \cup selected
    /\ Goes("finish")
    /\ UNCHANGED upload /\ Kept

\* apply_upload: one transaction, which the first invalid row rolls back.
Apply ==
    /\ Running("process", "apply")
    /\ IF selected \cap (hired \cup imported) = {}
       THEN imported' = imported \cup selected /\ Goes("finish")
       ELSE Goes("fail") /\ UNCHANGED imported
    /\ UNCHANGED upload /\ Kept

\* Storage cannot be read, the header is wrong, a row is refused for a reason
\* that has nothing to do with its user name.
Raise ==
    /\ worker.at \in {"load", "check", "apply"}
    /\ Goes("fail")
    /\ UNCHANGED <<upload, imported>> /\ Kept

\* set_as_staged, set_as_processed
Finish(k) ==
    /\ \/ Running(k, "check") /\ worker.todo = {}
       \/ Running(k, "finish")
    /\ status' = IF k = "stage" THEN "STAGED" ELSE "PROCESSED"
    /\ Goes("done")
    /\ UNCHANGED <<selected, imported>> /\ Kept

\* Mutant of Fail: the failure is logged and not stored.
FailSilently ==
    /\ worker.at = "fail"
    /\ Goes("done")
    /\ UNCHANGED <<upload, imported>> /\ Kept

\* The rescue clause: set_as_failed
Fail ==
    /\ worker.at = "fail"
    /\ status' = "FAILED"
    /\ Goes("done")
    /\ UNCHANGED <<selected, imported>> /\ Kept

\* perform has returned and the job is deleted.
Done ==
    /\ worker.at = "done"
    /\ jobs' = [jobs EXCEPT ![worker.job] = @ - 1]
    /\ worker' = Idle
    /\ UNCHANGED <<upload, staff, accepts, crashes>>

\* Mutant of Crash: the job is deleted and runs to its end all the same.
CrashDeletingJob ==
    /\ worker # Idle
    /\ crashes < MaxCrashes
    /\ jobs' = [jobs EXCEPT ![worker.job] = @ - 1]
    /\ worker' = worker
    /\ crashes' = crashes + 1
    /\ UNCHANGED <<upload, staff, accepts>>

\* The worker is killed; the lock on its job expires later.
Crash ==
    /\ worker # Idle
    /\ crashes < MaxCrashes
    /\ worker' = Idle
    /\ crashes' = crashes + 1
    /\ UNCHANGED <<upload, staff, jobs, accepts>>

Work ==
    \/ \E k \in Kinds : Take(k) \/ Start(k) \/ Finish(k)
    \/ Load \/ Apply \/ Raise \/ Fail \/ Done
    \/ \E n \in Rows : Check(n)

BulkNext ==
    \/ Accept
    \/ \E n \in Rows : Hire(n)
    \/ Work
    \/ Crash

\* The worker polls its queue and runs what it finds.
BulkSpec == BulkInit /\ [][BulkNext]_bulkVars /\ WF_bulkVars(Work)

-----------------------------------------------------------------------------

\* The types of the tables, of the queue and of the worker's progress.
BulkTypeOK ==
    /\ status \in UploadStatuses
    /\ selected \subseteq Rows /\ hired \subseteq Rows /\ imported \subseteq Rows
    /\ jobs \in [Kinds -> Nat]
    /\ worker \in [job : Kinds \cup {"none"}, todo : SUBSET Rows,
                   at : {"waiting", "start", "load", "check", "apply", "finish",
                         "fail", "done"}]
    /\ accepts \in 0 .. MaxAccepts /\ crashes \in 0 .. MaxCrashes

(***************************************************************************)
(* Nobody waits for nothing: whenever no job is left the page no longer    *)
(* says "please wait", whatever was accepted while jobs were running and   *)
(* overwriting the status (bulk_upload_observer.rb:7-10).                  *)
(***************************************************************************)
QuietMeansSettled ==
    (\A k \in Kinds : jobs[k] = 0) => status \in {"STAGED", "PROCESSED", "FAILED"}

(***************************************************************************)
(* "Successfully imported ... employees" counts the marked rows            *)
(* (bulk_upload.rb:150): every one of them has become an employee through  *)
(* this upload, even if the worker was killed and its job run again, or    *)
(* the file staged again, in between.                                      *)
(***************************************************************************)
ProcessedMeansImported == status = "PROCESSED" => selected \subseteq imported

(***************************************************************************)
(* Nobody becomes an employee twice: a row whose user name an              *)
(* administrator has given to somebody is never imported as well.          *)
(***************************************************************************)
NobodyTwice == hired \cap imported = {}

(***************************************************************************)
(* An accepted upload is reported as imported or as failed in the end,     *)
(* however often it is accepted and the worker killed.                     *)
(***************************************************************************)
AcceptedEnds == status = "ACCEPTED" ~> status \in {"PROCESSED", "FAILED"}

(***************************************************************************)
(* "FAILURE: The bulk upload file failed to be applied."                   *)
(* (_status_failed.html.erb:1) is true of an upload that was accepted once *)
(* and whose jobs were not interrupted: no later failure is reported over  *)
(* an import that was made.  A second import of the same rows fails on its *)
(* own employees.                                                          *)
(***************************************************************************)
FailedMeansNotApplied ==
    status = "FAILED" /\ accepts <= 1 /\ crashes = 0 => imported = {}
=============================================================================
