-------------------------- MODULE MCLeaveRequests --------------------------
(***************************************************************************)
(* Small accounts to model-check the leave request workflow in.            *)
(***************************************************************************)
EXTENDS LeaveRequests, TLC

CONSTANTS boss, lead, clerk, annual, family, late

Employed(role, approver) ==
    [row |-> "stored", active |-> TRUE, role |-> role, approver |-> approver]

\* An administrator without an approver, an approver below and a clerk.
ThreeLevels ==
    boss :> Employed("admin", None) @@ lead :> Employed("approver", boss)
    @@ clerk :> Employed("employee", lead)

\* The lead is demoted, made a manager, or put under the clerk's approver.
Reshuffles ==
    {[who |-> lead, role |-> "employee", approver |-> boss, active |-> TRUE],
     [who |-> lead, role |-> "manager", approver |-> lead, active |-> TRUE],
     [who |-> clerk, role |-> "employee", approver |-> boss, active |-> TRUE]}

NoForms == {}

\* Everybody may take leave from the first day on.
FromTheStart == [e \in Employees |-> 1]

\* The same account before the clerk is hired.
TwoLevels == [ThreeLevels EXCEPT ![clerk] = NoEmployee("unused")]
ClerkUnderLead ==
    {[who |-> clerk, role |-> "employee", approver |-> lead, active |-> TRUE]}

\* The clerk has no access to the application: the boss captures his leave.
ClerkWithoutAccess ==
    boss :> Employed("admin", boss)
    @@ clerk :> [Employed("employee", boss) EXCEPT !.active = FALSE]

\* No definition and no property names a single request.
RequestSymmetry == Permutations(Requests)
=============================================================================
