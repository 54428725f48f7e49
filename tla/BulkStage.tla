----------------------------- MODULE BulkStage -----------------------------
(***************************************************************************)
(* A bulk upload with the approvers that its file names.  Staging resolves *)
(* the name in each row (validate_upload of app/workers/tenant/            *)
(* stage_bulk_upload.rb); the import first saves every marked row with the *)
(* uploader as its approver and then replaces him by the new employees     *)
(* named (apply_upload of process_bulk_upload.rb).  The steps of           *)
(* BulkUpload remain as they are; those that look at approvers do more.    *)
(***************************************************************************)
EXTENDS BulkUpload

CONSTANTS
    None,       \* a blank name, a name nobody has; the null of a column
    Uploader,   \* the administrator who uploaded the file
    Files       \* bound: the files, as far as approvers and roles go

FileRow == [approver : Rows \cup {None}, admin : BOOLEAN]

ASSUME StageAssumption ==
    /\ None \notin Rows /\ Uploader \notin Rows /\ None # Uploader
    /\ Files \subseteq [Rows -> FileRow]

VARIABLES
    file,           \* the rows of the file, by user name
    approving,      \* those of them who work here and are active approvers
    newApprover,    \* the new_approver of each staged row
    approver,       \* the approver of each imported employee
    uploaderGone    \* the uploader has been deleted

given == <<file, approving>>
stageVars == <<bulkVars, given, newApprover, approver, uploaderGone>>

StageInit ==
    /\ BulkInit
    /\ file \in Files /\ approving \in SUBSET AlreadyHired
    /\ newApprover = [n \in Rows |-> None]
    /\ approver = [n \in Rows |-> None]
    /\ uploaderGone = FALSE

ApproversKept == UNCHANGED <<given, newApprover, approver, uploaderGone>>

-----------------------------------------------------------------------------
(* Staging.                                                                *)

\* The rows, and what was resolved for them, are inserted anew.
LoadRows ==
    /\ Load
    /\ newApprover' = [n \in Rows |-> None]
    /\ UNCHANGED <<given, approver, uploaderGone>>

NamesExisting(n) == file[n].approver \in approving

\* The row first gets the uploader.  One whose name is among the active
\* approvers keeps him, since the default is assigned after the lookup; any
\* other name is looked up in all rows of the file, marked or not.
NamedRow(n) == IF ~NamesExisting(n) /\ file[n].approver \in Rows THEN file[n].approver ELSE None

\* Mutant of CheckRow: names are looked up in the rows that are marked so far.
CheckRowInOrder(n) ==
    /\ Check(n)
    /\ newApprover' = [newApprover EXCEPT ![n] =
          IF NamedRow(n) \in selected THEN NamedRow(n) ELSE None]
    /\ UNCHANGED <<given, approver, uploaderGone>>

CheckRow(n) ==
    /\ Check(n)
    /\ newApprover' = [newApprover EXCEPT ![n] = NamedRow(n)]
    /\ UNCHANGED <<given, approver, uploaderGone>>

-----------------------------------------------------------------------------
(* The import.                                                             *)

\* employee.save!: all but administrators need an approver.
SavedWithUploader(n) == ~uploaderGone \/ file[n].admin

\* The approver that is put in place of the uploader, if any is to be.
Replacement(n) == IF newApprover[n] \in selected THEN newApprover[n] ELSE None

FixedUp(n) == newApprover[n] # None => Replacement(n) # None \/ file[n].admin

ApprovedBy(n) == IF newApprover[n] = None THEN Uploader ELSE Replacement(n)

Importable == \A n \in selected : SavedWithUploader(n) /\ FixedUp(n)

\* One transaction; a row that cannot be saved or fixed up rolls it back.
ApplyRows ==
    IF Importable
    THEN /\ Apply
         /\ approver' = [n \in Rows |->
               IF n \in imported' \ imported THEN ApprovedBy(n) ELSE approver[n]]
         /\ UNCHANGED <<given, newApprover, uploaderGone>>
    ELSE /\ Running("process", "apply")
         /\ Raise
         /\ ApproversKept

-----------------------------------------------------------------------------

\* Another administrator deletes the uploader.
UploaderLeaves ==
    /\ ~uploaderGone
    /\ uploaderGone' = TRUE
    /\ UNCHANGED <<bulkVars, given, newApprover, approver>>

StageWork ==
    \/ LoadRows
    \/ \E n \in Rows : CheckRow(n)
    \/ ApplyRows
    \/ \E k \in Kinds : (Take(k) \/ Start(k) \/ Finish(k)) /\ ApproversKept
    \/ (Raise \/ Fail \/ Done) /\ ApproversKept

StageNext ==
    \/ StageWork
    \/ (Accept \/ Crash) /\ ApproversKept
    \/ \E n \in Rows : Hire(n) /\ ApproversKept
    \/ UploaderLeaves

StageSpec == StageInit /\ [][StageNext]_stageVars /\ WF_stageVars(StageWork)

-----------------------------------------------------------------------------

(***************************************************************************)
(* However often the file is staged and imported, and wherever a job was   *)
(* interrupted, an employee who is no administrator has the approver the   *)
(* file names for him if that is a row of the file, and the uploader       *)
(* otherwise; nobody is left without, and nobody waits for the decision of *)
(* somebody who was not imported with him (process_bulk_upload.rb:82-124). *)
(* Nothing is said of rows that name an active approver of the account:    *)
(* they are to have him ("first in existing employees", stage_bulk_upload  *)
(* .rb:147), and the code gives them the uploader (line 151).              *)
(***************************************************************************)
ApproverAsNamed ==
    \A n \in imported : ~NamesExisting(n) =>
        IF NamedRow(n) # None
        THEN \/ approver[n] = NamedRow(n) /\ approver[n] \in imported
             \/ approver[n] = None /\ file[n].admin
        ELSE approver[n] = Uploader
=============================================================================
