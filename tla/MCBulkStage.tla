---------------------------- MODULE MCBulkStage ----------------------------
(***************************************************************************)
(* Files with three people, one of whom works for the account already.     *)
(***************************************************************************)
EXTENDS BulkStage

CONSTANTS ann, bob, cyd

Row(approverName, admin) == [approver |-> approverName, admin |-> admin]

File(ofAnn, ofBob, ofCyd) ==
    [n \in Rows |-> CASE n = ann -> ofAnn [] n = bob -> ofBob [] OTHER -> ofCyd]

\* A chain down from the uploader, two who approve each other, one who names
\* somebody who works for the account already, as an approver or not.
FewFiles ==
    {File(Row(bob, FALSE), Row(None, TRUE), Row(None, FALSE)),
     File(Row(bob, TRUE), Row(ann, FALSE), Row(ann, FALSE)),
     File(Row(cyd, FALSE), Row(ann, FALSE), Row(None, FALSE)),
     File(Row(cyd, TRUE), Row(None, FALSE), Row(bob, FALSE))}
=============================================================================
