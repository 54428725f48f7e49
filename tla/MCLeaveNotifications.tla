------------------------ MODULE MCLeaveNotifications ------------------------
(***************************************************************************)
(* The accounts of MCLeaveRequests, with the mails their requests cause.   *)
(***************************************************************************)
EXTENDS MCLeaveRequests, LeaveNotifications
=============================================================================
