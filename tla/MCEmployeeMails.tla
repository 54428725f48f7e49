-------------------------- MODULE MCEmployeeMails --------------------------
(***************************************************************************)
(* A boss who hires, edits, suspends and deletes one clerk.                *)
(***************************************************************************)
EXTENDS EmployeeMails

CONSTANTS boss, clerk

BossAlone ==
    [e \in Employees |->
        IF e = boss
        THEN [row |-> "stored", active |-> TRUE, role |-> "admin", approver |-> None]
        ELSE NoEmployee("unused")]

ClerkForms ==
    [who : {clerk}, role : {"employee"}, approver : {boss}, active : BOOLEAN]
=============================================================================
