-------------------------- MODULE MCLeaveSessions --------------------------
(***************************************************************************)
(* Two web processes of a small account.                                   *)
(***************************************************************************)
EXTENDS LeaveSessions, TLC

CONSTANTS boss, clerk, annual, study, late

Employed(role, approver) ==
    [row |-> "stored", active |-> TRUE, role |-> role, approver |-> approver]

\* The boss decides about his own leave and the clerk's.
OneOffice ==
    boss :> Employed("admin", boss) @@ clerk :> Employed("employee", boss)

NoForms == {}

\* The boss joins after the last day, so only the clerk takes leave.
BossIsLate == [e \in Employees |-> IF e = boss THEN 2 ELSE 1]

\* No definition and no property names a single request or process.
SessionSymmetry == Permutations(Requests) \cup Permutations(Processes)
=============================================================================
