------------------------- MODULE BulkUpload_proofs -------------------------
(***************************************************************************)
(* Proofs about BulkUpload, for every file, every number of accepts and    *)
(* every number of crashes.  Everything rests on UploadInv: it ties the    *)
(* status, which the web process and the worker both write, to the jobs    *)
(* that are still to write it.                                             *)
(***************************************************************************)
EXTENDS BulkStage, TLAPS

\* The steps of the two jobs.
StageSteps == {"load", "check"}
ProcessSteps == {"apply", "finish"}
Settled == {"STAGED", "PROCESSED", "FAILED"}

\* The job the worker runs is in the queue, and it makes its own steps only.
WorkerInv ==
    /\ worker.job = "none" <=> worker.at = "waiting"
    /\ worker.job \in Kinds => jobs[worker.job] >= 1
    /\ worker.at \in StageSteps => worker.job = "stage"
    /\ worker.at \in ProcessSteps => worker.job = "process"

(***************************************************************************)
(* A status that asks to wait has a job that will replace it: the staging  *)
(* job of a new upload has not started; a job that has started and is not  *)
(* done is in the queue; an accepted upload has a job that did not start   *)
(* before it was accepted.                                                 *)
(***************************************************************************)
StatusInv ==
    /\ status = "PENDING" => jobs["stage"] >= 1 /\ worker.at \in {"waiting", "start"}
    /\ status = "STAGING" =>
          jobs["stage"] >= 1 /\ (worker.job = "stage" => worker.at # "done")
    /\ status = "PROCESSING" =>
          jobs["process"] >= 1 /\ (worker.job = "process" => worker.at # "done")
    /\ status = "ACCEPTED" =>
          /\ jobs["process"] >= 1
          /\ worker.job = "process" /\ worker.at # "start" => jobs["process"] >= 2

\* Rows are selected only while the status is not PROCESSED, and everything
\* selected has been imported when that status is about to be written.
ImportInv ==
    /\ worker.at \in StageSteps => status \in {"STAGING", "ACCEPTED"}
    /\ worker.at = "finish" => selected \subseteq imported
    /\ ProcessedMeansImported

UploadInv == BulkTypeOK /\ WorkerInv /\ StatusInv /\ ImportInv /\ NobodyTwice

USE DEF Kinds, Idle, StageSteps, ProcessSteps, UploadStatuses

-----------------------------------------------------------------------------

LEMMA BulkInitInv == BulkInit => UploadInv
  BY UploadAssumption DEF BulkInit, UploadInv, BulkTypeOK, WorkerInv, StatusInv, ImportInv,
     ProcessedMeansImported, NobodyTwice

\* The web process changes the status, the queue and the staff, never what
\* the worker is doing.
LEMMA WebKeepsInv ==
    ASSUME UploadInv, Accept \/ \E n \in Rows : Hire(n)
    PROVE  UploadInv'
<1>1. CASE Accept
  <2>1. BulkTypeOK'
    BY <1>1, UploadAssumption DEF UploadInv, BulkTypeOK, Accept, staff
  <2>2. WorkerInv' /\ StatusInv'
    BY <1>1 DEF UploadInv, BulkTypeOK, WorkerInv, StatusInv, Accept
  <2>3. ImportInv' /\ NobodyTwice'
    BY <1>1 DEF UploadInv, ImportInv, ProcessedMeansImported, NobodyTwice, Accept, staff
  <2> QED BY <2>1, <2>2, <2>3 DEF UploadInv
<1>2. ASSUME NEW n \in Rows, Hire(n) PROVE UploadInv'
  BY <1>2 DEF UploadInv, BulkTypeOK, WorkerInv, StatusInv, ImportInv,
     ProcessedMeansImported, NobodyTwice, Hire, upload
<1> QED BY <1>1, <1>2

\* Taking a job and starting it: the status comes to speak of this job.
LEMMA BeginningKeepsInv ==
    ASSUME UploadInv, NEW k \in Kinds, Take(k) \/ Start(k)
    PROVE  UploadInv'
<1>1. CASE Take(k)
  <2>1. worker' = [worker EXCEPT !.job = k, !.at = "start"]
    BY <1>1 DEF Take
  <2>2. BulkTypeOK'
    BY <1>1, <2>1 DEF UploadInv, BulkTypeOK, Take, Kept, upload
  <2>3. worker'.job = k /\ worker'.at = "start"
    BY <2>1 DEF UploadInv, BulkTypeOK
  <2>4. WorkerInv' /\ StatusInv'
    BY <1>1, <2>3 DEF UploadInv, BulkTypeOK, WorkerInv, StatusInv, Take, Kept, upload
  <2>5. ImportInv' /\ NobodyTwice'
    BY <1>1, <2>3 DEF UploadInv, ImportInv, ProcessedMeansImported, NobodyTwice, Take,
       Kept, upload
  <2> QED BY <2>2, <2>4, <2>5 DEF UploadInv
<1>2. CASE Start(k)
  <2>1. BulkTypeOK'
    BY <1>2 DEF UploadInv, BulkTypeOK, Start, Running, Goes, Kept
  <2>2. WorkerInv' /\ StatusInv'
    BY <1>2 DEF UploadInv, BulkTypeOK, WorkerInv, StatusInv, Start, Running, Goes, Kept
  <2>3. ImportInv' /\ NobodyTwice'
    BY <1>2 DEF UploadInv, BulkTypeOK, ImportInv, ProcessedMeansImported, NobodyTwice,
       Start, Running, Goes, Kept
  <2> QED BY <2>1, <2>2, <2>3 DEF UploadInv
<1> QED BY <1>1, <1>2

\* The steps between leave the status and the queue alone.
LEMMA MiddleKeepsInv ==
    ASSUME UploadInv, Load \/ (\E n \in Rows : Check(n)) \/ Apply \/ Raise
    PROVE  UploadInv'
<1> USE DEF UploadInv, BulkTypeOK, WorkerInv, StatusInv, ImportInv,
            ProcessedMeansImported, NobodyTwice
<1>1. CASE Load
  BY <1>1 DEF Load, Running, Kept
<1>2. ASSUME NEW n \in Rows, Check(n) PROVE UploadInv'
  BY <1>2 DEF Check, Running, Kept
<1>3. CASE Apply
  <2>1. CASE selected \cap (hired \cup imported) = {}
    BY <1>3, <2>1 DEF Apply, Running, Goes, Kept, upload
  <2>2. CASE selected \cap (hired \cup imported) # {}
    BY <1>3, <2>2 DEF Apply, Running, Goes, Kept, upload
  <2> QED BY <2>1, <2>2
<1>4. CASE Raise
  BY <1>4 DEF Raise, Goes, Kept, upload
<1> QED BY <1>1, <1>2, <1>3, <1>4

\* The end of a job: its own status is final before the queue loses it.
LEMMA EndKeepsInv ==
    ASSUME UploadInv, (\E k \in Kinds : Finish(k)) \/ Fail \/ Done \/ Crash
    PROVE  UploadInv'
<1> USE DEF UploadInv, BulkTypeOK, WorkerInv, StatusInv, ImportInv,
            ProcessedMeansImported, NobodyTwice
<1>1. ASSUME NEW k \in Kinds, Finish(k) PROVE UploadInv'
  BY <1>1 DEF Finish, Running, Goes, Kept
<1>2. CASE Fail
  BY <1>2 DEF Fail, Goes, Kept
<1>3. CASE Done
  BY <1>3 DEF Done, upload, staff
<1>4. CASE Crash
  <2>1. crashes' \in 0 .. MaxCrashes
    BY <1>4, UploadAssumption DEF Crash
  <2> QED BY <1>4, <2>1 DEF Crash, upload, staff
<1> QED BY <1>1, <1>2, <1>3, <1>4

LEMMA BulkNextInv == UploadInv /\ [BulkNext]_bulkVars => UploadInv'
<1> SUFFICES ASSUME UploadInv, [BulkNext]_bulkVars PROVE UploadInv'
  OBVIOUS
<1>1. CASE BulkNext
  BY <1>1, WebKeepsInv, BeginningKeepsInv, MiddleKeepsInv, EndKeepsInv DEF BulkNext, Work
<1>2. CASE UNCHANGED bulkVars
  BY <1>2 DEF UploadInv, BulkTypeOK, WorkerInv, StatusInv, ImportInv,
     ProcessedMeansImported, NobodyTwice, bulkVars, upload, staff
<1> QED BY <1>1, <1>2

\* The invariant of an upload, whatever is accepted, hired and killed when.
THEOREM UploadInvariant == BulkSpec => []UploadInv
  BY BulkInitInv, BulkNextInv, PTL DEF BulkSpec

-----------------------------------------------------------------------------

LEMMA InvSettles == UploadInv => QuietMeansSettled
  BY DEF UploadInv, BulkTypeOK, StatusInv, QuietMeansSettled

\* No upload is left saying "please wait" when no job will ever change that.
THEOREM SettledCorrect == BulkSpec => []QuietMeansSettled
  BY UploadInvariant, InvSettles, PTL

LEMMA InvImports == UploadInv => ProcessedMeansImported
  BY DEF UploadInv, ImportInv

\* An upload reported as imported has imported every row marked for it.
THEOREM ImportCorrect == BulkSpec => []ProcessedMeansImported
  BY UploadInvariant, InvImports, PTL

LEMMA InvHiresOnce == UploadInv => NobodyTwice
  BY DEF UploadInv

\* No user name is given both by an administrator and by the import.
THEOREM HiredOnceCorrect == BulkSpec => []NobodyTwice
  BY UploadInvariant, InvHiresOnce, PTL

LEMMA InvTypes == UploadInv => BulkTypeOK
  BY DEF UploadInv

\* The tables, the queue and the worker's progress keep their types.
THEOREM BulkTypeCorrect == BulkSpec => []BulkTypeOK
  BY UploadInvariant, InvTypes, PTL

-----------------------------------------------------------------------------
(* An upload accepted once, whose jobs are not interrupted.                *)

(***************************************************************************)
(* Each job is run once.  Nothing is marked before the staging job runs,   *)
(* whichever of the two the worker takes first, so what is imported is     *)
(* imported after it, by the job that ends the upload.                     *)
(***************************************************************************)
OnceInv ==
    accepts <= 1 /\ crashes = 0 =>
        /\ jobs["stage"] <= 1 /\ jobs["process"] <= accepts
        /\ jobs["stage"] = 1 /\ worker.job # "stage" => selected = {}
        /\ worker.at = "apply" => status # "FAILED"
        /\ imported # {} =>
              /\ accepts = 1 /\ jobs["stage"] = 0 /\ status # "FAILED"
              /\ \/ worker.job = "none" /\ jobs["process"] = 0
                 \/ worker.job = "process" /\ worker.at \in {"finish", "done"}

LEMMA OnceInitInv == BulkInit => OnceInv
  BY DEF BulkInit, OnceInv

LEMMA OnceWebKeeps ==
    ASSUME UploadInv, OnceInv, Accept \/ \E n \in Rows : Hire(n)
    PROVE  OnceInv'
<1>1. CASE Accept
  <2> SUFFICES ASSUME accepts' <= 1, crashes' = 0 PROVE OnceInv'
    BY DEF OnceInv
  <2>1. accepts = 0 /\ accepts' = 1 /\ crashes = 0
    BY <1>1 DEF Accept, UploadInv, BulkTypeOK
  <2>2. jobs["process"] = 0 /\ imported = {} /\ jobs["stage"] <= 1
    BY <2>1 DEF OnceInv, UploadInv, BulkTypeOK
  <2>3. jobs'["process"] <= 1 /\ jobs'["stage"] = jobs["stage"]
    BY <1>1, <2>2 DEF Accept, UploadInv, BulkTypeOK
  <2>4. UNCHANGED <<selected, imported, worker>> /\ status' = "ACCEPTED"
    BY <1>1 DEF Accept, staff
  <2> QED BY <2>1, <2>2, <2>3, <2>4 DEF OnceInv
<1>2. ASSUME NEW n \in Rows, Hire(n) PROVE OnceInv'
  BY <1>2 DEF Hire, upload, OnceInv
<1> QED BY <1>1, <1>2

LEMMA OnceWorkKeeps ==
    ASSUME UploadInv, OnceInv, Work
    PROVE  OnceInv'
<1> USE DEF UploadInv, BulkTypeOK, WorkerInv, OnceInv
<1>1. ASSUME NEW k \in Kinds, Take(k) PROVE OnceInv'
  <2>1. /\ worker'.job = k /\ worker'.at = "start" /\ worker = Idle /\ jobs[k] > 0
        /\ UNCHANGED <<status, selected, imported, jobs, accepts, crashes>>
    BY <1>1 DEF Take, Kept, upload
  <2> QED BY <2>1
<1>2. ASSUME NEW k \in Kinds, Start(k) PROVE OnceInv'
  BY <1>2 DEF Start, Running, Goes, Kept
<1>3. CASE Load
  BY <1>3 DEF Load, Running, Kept
<1>4. ASSUME NEW n \in Rows, Check(n) PROVE OnceInv'
  BY <1>4 DEF Check, Running, Kept
<1>5. CASE Apply
  <2>1. /\ worker.job = "process" /\ worker.at = "apply" /\ worker'.job = "process"
        /\ UNCHANGED <<status, selected, jobs, accepts, crashes>>
    BY <1>5 DEF Apply, Running, Goes, Kept, upload
  <2>2. \/ worker'.at = "finish" /\ imported' = imported \cup selected
        \/ imported' = imported
    BY <1>5, <2>1 DEF Apply, Goes
  <2>3. accepts <= 1 /\ crashes = 0 =>
          imported = {} /\ accepts = 1 /\ (jobs["stage"] = 0 \/ selected = {})
    BY <2>1
  <2> QED BY <2>1, <2>2, <2>3
<1>6. CASE Raise
  BY <1>6 DEF Raise, Goes, Kept, upload
<1>7. ASSUME NEW k \in Kinds, Finish(k) PROVE OnceInv'
  BY <1>7 DEF Finish, Running, Goes, Kept
<1>8. CASE Fail
  BY <1>8 DEF Fail, Goes, Kept
<1>9. CASE Done
  BY <1>9 DEF Done, upload, staff
<1> HIDE DEF UploadInv, BulkTypeOK, WorkerInv, OnceInv
<1> QED BY <1>1, <1>2, <1>3, <1>4, <1>5, <1>6, <1>7, <1>8, <1>9 DEF Work

LEMMA OnceNextInv == UploadInv /\ OnceInv /\ [BulkNext]_bulkVars => OnceInv'
<1> SUFFICES ASSUME UploadInv, OnceInv, [BulkNext]_bulkVars PROVE OnceInv'
  OBVIOUS
<1>1. CASE Crash
  BY <1>1 DEF Crash, OnceInv, UploadInv, BulkTypeOK
<1>2. CASE UNCHANGED bulkVars
  BY <1>2 DEF OnceInv, bulkVars, upload, staff
<1> QED BY <1>1, <1>2, OnceWebKeeps, OnceWorkKeeps DEF BulkNext

\* An upload accepted once and not interrupted is not reported as failed
\* after its rows have been imported.
THEOREM FailedCorrect == BulkSpec => []FailedMeansNotApplied
<1>1. OnceInv => FailedMeansNotApplied
  BY DEF OnceInv, FailedMeansNotApplied
<1> QED BY <1>1, UploadInvariant, OnceInitInv, OnceNextInv, PTL DEF BulkSpec

-----------------------------------------------------------------------------
(* The upload with its approvers.                                          *)

\* A step of the detailed upload is a step of the upload, or none.
LEMMA StageStep == [StageNext]_stageVars => [BulkNext]_bulkVars
<1>1. ASSUME LoadRows \/ (\E n \in Rows : CheckRow(n)) \/ ApplyRows PROVE BulkNext
  BY <1>1 DEF LoadRows, CheckRow, ApplyRows, BulkNext, Work
<1>2. ASSUME StageWork PROVE BulkNext
  BY <1>1, <1>2 DEF StageWork, BulkNext, Work
<1>3. ASSUME UploaderLeaves PROVE UNCHANGED bulkVars
  BY <1>3 DEF UploaderLeaves
<1>4. ASSUME UNCHANGED stageVars PROVE UNCHANGED bulkVars
  BY <1>4 DEF stageVars
<1> QED BY <1>2, <1>3, <1>4 DEF StageNext, BulkNext

(***************************************************************************)
(* The theorems above are true as well of the upload with the names, roles *)
(* and approvers of its rows, the one that TLC checks.                     *)
(***************************************************************************)
THEOREM StagedUploadCorrect ==
    StageSpec => [](BulkTypeOK /\ QuietMeansSettled /\ ProcessedMeansImported
                    /\ NobodyTwice /\ FailedMeansNotApplied)
<1>1. StageInit => BulkInit
  BY DEF StageInit
<1>2. UploadInv /\ OnceInv =>
         BulkTypeOK /\ QuietMeansSettled /\ ProcessedMeansImported
         /\ NobodyTwice /\ FailedMeansNotApplied
  BY InvTypes, InvSettles, InvImports, InvHiresOnce DEF OnceInv, FailedMeansNotApplied
<1> QED
  BY <1>1, <1>2, StageStep, BulkInitInv, BulkNextInv, OnceInitInv, OnceNextInv, PTL
  DEF StageSpec

(***************************************************************************)
(* What is stored for a marked row is what its name resolves to: that is   *)
(* all the import has to rely on, however the staging was interrupted.     *)
(***************************************************************************)
Resolved == \A n \in selected : newApprover[n] = NamedRow(n)

StageInv ==
    /\ selected \subseteq Rows /\ imported \subseteq Rows
    /\ newApprover \in [Rows -> Rows \cup {None}]
    /\ approver \in [Rows -> Rows \cup {None, Uploader}]
    /\ Resolved
    /\ ApproverAsNamed

USE StageAssumption

LEMMA NamedRowType == \A n \in Rows : NamedRow(n) \in Rows \cup {None}
  BY DEF NamedRow

LEMMA StageInitInv == StageInit => StageInv
  BY DEF StageInit, BulkInit, StageInv, Resolved, ApproverAsNamed

LEMMA StageInvKept ==
    ASSUME StageInv, UNCHANGED <<selected, imported, newApprover, approver, given>>
    PROVE  StageInv'
  BY DEF StageInv, Resolved, ApproverAsNamed, NamedRow, NamesExisting, given

LEMMA ApplyKeepsInv == ASSUME StageInv, ApplyRows PROVE StageInv'
<1>1. CASE ~Importable
  <2>1. UNCHANGED <<selected, imported, newApprover, approver, given>>
    BY <1>1 DEF ApplyRows, Raise, ApproversKept, upload
  <2> QED BY <2>1, StageInvKept
<1>2. CASE Importable
  <2>1. /\ UNCHANGED <<selected, given, newApprover>>
        /\ imported' = imported \/ imported' = imported \cup selected
        /\ selected \cap imported = {} \/ imported' = imported
        /\ approver' = [n \in Rows |->
              IF n \in imported' \ imported THEN ApprovedBy(n) ELSE approver[n]]
    BY <1>2 DEF ApplyRows, Apply, upload
  <2>2. \A n \in Rows :
           NamedRow(n)' = NamedRow(n) /\ NamesExisting(n)' = NamesExisting(n)
    BY <2>1 DEF NamedRow, NamesExisting, given
  <2>3. \A n \in selected : ApprovedBy(n) \in Rows \cup {None, Uploader}
    BY DEF StageInv, ApprovedBy, Replacement
  <2>4. approver' \in [Rows -> Rows \cup {None, Uploader}]
    BY <2>1, <2>3 DEF StageInv
  <2>5. ASSUME NEW n \in imported, n \in imported'
        PROVE  approver'[n] = approver[n] /\ file'[n] = file[n]
    BY <2>1 DEF StageInv, given
  <2>6. ASSUME NEW n \in imported' \ imported
        PROVE  IF NamedRow(n) # None
               THEN \/ approver'[n] = NamedRow(n) /\ approver'[n] \in imported'
                    \/ approver'[n] = None /\ file'[n].admin
               ELSE approver'[n] = Uploader
    <3>1. /\ n \in selected /\ n \in Rows /\ approver'[n] = ApprovedBy(n)
          /\ newApprover[n] = NamedRow(n) /\ FixedUp(n) /\ file' = file
          /\ imported' = imported \cup selected
      BY <1>2, <2>1, <2>6 DEF StageInv, Resolved, Importable, given
    <3> QED BY <3>1 DEF ApprovedBy, Replacement, FixedUp
  <2>7. ASSUME NEW n \in imported', ~NamesExisting(n)'
        PROVE  IF NamedRow(n)' # None
               THEN \/ approver'[n] = NamedRow(n)' /\ approver'[n] \in imported'
                    \/ approver'[n] = None /\ file'[n].admin
               ELSE approver'[n] = Uploader
    <3>1. /\ n \in Rows /\ NamedRow(n)' = NamedRow(n) /\ imported \subseteq imported'
          /\ ~NamesExisting(n)
      BY <2>1, <2>2, <2>7 DEF StageInv
    <3>2. CASE n \in imported
      BY <3>1, <3>2, <2>5 DEF StageInv, ApproverAsNamed
    <3>3. CASE n \notin imported
      BY <3>1, <3>3, <2>6
    <3> QED BY <3>2, <3>3
  <2>8. ApproverAsNamed'
    BY <2>7 DEF ApproverAsNamed
  <2> QED BY <2>1, <2>2, <2>4, <2>8 DEF StageInv, Resolved
<1> QED BY <1>1, <1>2

LEMMA StageNextInv == StageInv /\ [StageNext]_stageVars => StageInv'
<1> SUFFICES ASSUME StageInv, [StageNext]_stageVars PROVE StageInv'
  OBVIOUS
<1>1. CASE LoadRows
  BY <1>1 DEF LoadRows, Load, Kept, given, StageInv, Resolved, ApproverAsNamed, NamedRow,
     NamesExisting
<1>2. ASSUME NEW n \in Rows, CheckRow(n) PROVE StageInv'
  <2>1. /\ selected' \in {selected, selected \cup {n}}
        /\ newApprover' = [newApprover EXCEPT ![n] = NamedRow(n)]
        /\ UNCHANGED <<imported, given, approver>>
    BY <1>2 DEF CheckRow, Check
  <2>2. \A o \in Rows :
           NamedRow(o)' = NamedRow(o) /\ NamesExisting(o)' = NamesExisting(o)
    BY <2>1 DEF NamedRow, NamesExisting, given
  <2>3. ApproverAsNamed'
    BY <2>1, <2>2 DEF ApproverAsNamed, StageInv, given
  <2> QED BY <2>1, <2>2, <2>3, NamedRowType DEF StageInv, Resolved
<1>3. CASE ApplyRows
  BY <1>3, ApplyKeepsInv
<1>4. CASE UNCHANGED <<selected, imported, newApprover, approver, given>>
  BY <1>4, StageInvKept
<1>5. ASSUME StageNext, ~LoadRows, ~ApplyRows, \A n \in Rows : ~CheckRow(n)
      PROVE  UNCHANGED <<selected, imported, newApprover, approver, given>>
  <2>1. CASE ApproversKept /\ \E k \in Kinds : Take(k) \/ Start(k) \/ Finish(k)
    BY <2>1 DEF ApproversKept, Take, Start, Finish, upload
  <2>2. CASE ApproversKept /\ (Raise \/ Fail \/ Done \/ Accept \/ Crash)
    BY <2>2 DEF ApproversKept, Raise, Fail, Done, Accept, Crash, upload, staff
  <2>3. CASE ApproversKept /\ \E n \in Rows : Hire(n)
    BY <2>3 DEF ApproversKept, Hire, upload
  <2>4. CASE UploaderLeaves
    BY <2>4 DEF UploaderLeaves, bulkVars, upload, staff
  <2> QED BY <1>5, <2>1, <2>2, <2>3, <2>4 DEF StageNext, StageWork
<1>6. CASE UNCHANGED stageVars
  BY <1>4, <1>6 DEF stageVars, bulkVars, upload, staff
<1> QED BY <1>1, <1>2, <1>3, <1>4, <1>5, <1>6

\* An imported employee whose row names no active approver of the account
\* has the one it names in the file, imported as well, or else the uploader;
\* only administrators may be left without.
THEOREM ApproverCorrect == StageSpec => []ApproverAsNamed
<1>1. StageInv => ApproverAsNamed
  BY DEF StageInv
<1> QED BY <1>1, StageInitInv, StageNextInv, PTL DEF StageSpec
=============================================================================
