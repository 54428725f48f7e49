---------------------------- MODULE MCStaffList ----------------------------
(***************************************************************************)
(* One administrator rearranges three other people in every possible way.  *)
(***************************************************************************)
EXTENDS StaffList

CONSTANTS boss, ann, bob, cyd

AtFirst ==
    [e \in Employees |->
        IF e = boss
        THEN [row |-> "stored", active |-> TRUE, role |-> "admin", approver |-> None]
        ELSE IF e = cyd
        THEN NoEmployee("unused")
        ELSE [row |-> "stored", active |-> TRUE, role |-> "manager", approver |-> boss]]

Newcomer == {[who |-> cyd, role |-> "employee", approver |-> ann, active |-> TRUE]}

\* The others change between the roles below administrator; anybody may be
\* anybody's approver, and the administrator may have one too.
Rearrangements ==
    [who : Employees \ {boss}, role : {"manager", "approver", "employee"},
     approver : Employees, active : {TRUE}]
    \cup [who : {boss}, role : {"admin"}, approver : Employees, active : {TRUE}]
=============================================================================
