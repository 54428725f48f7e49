--------------------------- MODULE LeaveSessions ---------------------------
(***************************************************************************)
(* The leave request workflow served by several web processes.  The        *)
(* Procfile starts a single one, and LeaveRequests relies on it; nothing   *)
(* in the code does, and this module shows what remains when the web       *)
(* process is scaled out.                                                  *)
(*                                                                         *)
(* A handler loads the request, checks status and permission on its copy   *)
(* and saves the columns that it changed, in a transaction that rebuilds   *)
(* the day rows (PostgreSQL, READ COMMITTED; there is no lock_version).    *)
(* The UPDATE holds the row until the transaction ends; a save without     *)
(* changed columns issues none, but rebuilds the day rows all the same.    *)
(* Columns are those of LeaveRequestRow: cancelling again in the same name *)
(* writes nothing but a time, and counts as a save without changes.        *)
(*                                                                         *)
(* Employees and the date stay as they are.                                *)
(***************************************************************************)
EXTENDS LeaveRequests, Sequences

CONSTANTS
    Processes,  \* the web processes
    MaxLoads    \* bound: the number of requests they handle

ASSUME SessionAssumption == None \notin Requests /\ MaxLoads \in Nat

VARIABLES
    session,    \* what each process has loaded and is going to save
    copies,     \* the sets of day rows of each request, by who inserted them
    raced,      \* requests that were written from data no longer current
    loads       \* counter for the bound

sessionVars == <<vars, session, copies, raced, loads>>

\* saves holds the versions of the row that the handler saves one after the
\* other, seen the day rows that the current transaction deletes.
Closed == [phase |-> "closed", request |-> None, base |-> NoRow("unused"),
           saves |-> <<>>, seen |-> {}]

Unsaved(p) == Head(session[p].saves)
Creates(p) == session[p].base.status = "unused"
Destroys(p) == Unsaved(p).status = "gone"
IsIdle(p) == Unsaved(p) = session[p].base

SessionInit ==
    /\ Init
    /\ session = [p \in Processes |-> Closed]
    /\ copies = [r \in Requests |-> {}]
    /\ raced = {}
    /\ loads = 0

-----------------------------------------------------------------------------
(* A handler up to its first save.                                         *)

Open(p, r, base, saves) ==
    /\ session[p] = Closed
    /\ loads < MaxLoads
    /\ session' = [session EXCEPT ![p] =
          [Closed EXCEPT !.phase = "loaded", !.request = r, !.base = base, !.saves = saves]]
    /\ loads' = loads + 1
    /\ UNCHANGED <<vars, copies, raced>>

\* Mutant of Granting: the status goes along with the overrides.
GrantingUnsigned(a, row, o) ==
    <<[Pending(row, o) EXCEPT !.status = "APPROVED"], Approved(Pending(row, o), a)>>

\* Approving saves the overrides first, and whatever else has been set.
Granting(a, row, o) == <<Pending(row, o), Approved(Pending(row, o), a)>>

\* request! and capture!; the id is the next one of its sequence.
LoadCreate(p, a, r) ==
    /\ Actor(a)
    /\ request[r].status = "unused"
    /\ \A q \in Processes : session[q].request # r
    /\ \E row \in OwnForms(a) \cup StaffForms(a) :
          /\ ValidOnCreate(row)
          /\ \/ /\ row.violations # {}
                /\ Open(p, r, NoRow("unused"), <<row>>)
             \/ /\ row.violations = {} /\ ~AutoApproves(a, row)
                /\ Open(p, r, NoRow("unused"), <<Pending(row, {})>>)
             \/ /\ row.violations = {} /\ AutoApproves(a, row) /\ MayApprove(a, row)
                /\ Open(p, r, NoRow("unused"), Granting(a, row, {}))

LoadConfirm(p, a, r, o) ==
    /\ request[r].status = "NEW"
    /\ LET row == request[r] IN
          \/ /\ ~AutoApproves(a, row)
             /\ Open(p, r, row, <<Pending(row, row.overrides)>>)
          \/ /\ AutoApproves(a, row) /\ MayApprove(a, row)
             /\ Open(p, r, row, Granting(a, row, o))

LoadApprove(p, a, r, o) ==
    /\ request[r].status = "PENDING"
    /\ CanAuthorise(a, request[r])
    /\ Open(p, r, request[r], Granting(a, request[r], o))

\* Mutant of LoadDecline: left to everybody who may cancel.
LoadDeclineByCanceller(p, a, r) ==
    /\ request[r].status = "PENDING"
    /\ CanCancel(a, request[r])
    /\ Open(p, r, request[r],
            <<[request[r] EXCEPT !.status = "DECLINED", !.approvedDeclinedBy = a]>>)

LoadDecline(p, a, r) ==
    /\ request[r].status = "PENDING"
    /\ CanAuthorise(a, request[r])
    /\ Open(p, r, request[r],
            <<[request[r] EXCEPT !.status = "DECLINED", !.approvedDeclinedBy = a]>>)

LoadCancel(p, a, r) ==
    /\ CanCancel(a, request[r])
    /\ Open(p, r, request[r],
            <<IF request[r].status = "NEW" THEN NoRow("gone")
              ELSE [request[r] EXCEPT !.status = "CANCELLED", !.cancelledBy = a]>>)

LoadReinstate(p, a, r) ==
    /\ request[r].status = "CANCELLED"
    /\ CanAuthorise(a, request[r])
    /\ Open(p, r, request[r],
            <<[request[r] EXCEPT !.status = "REINSTATED", !.cancelledBy = None,
                                 !.reinstatedBy = a]>>)

LoadConstraints(p, r, o) ==
    Open(p, r, request[r], <<[request[r] EXCEPT !.overrides = o]>>)

Load(p, a, r) ==
    /\ Actor(a)
    /\ Stored(r)
    /\ \/ \E o \in SUBSET Constraints :
             LoadConfirm(p, a, r, o) \/ LoadApprove(p, a, r, o) \/ LoadConstraints(p, r, o)
       \/ LoadDecline(p, a, r)
       \/ LoadCancel(p, a, r)
       \/ LoadReinstate(p, a, r)

-----------------------------------------------------------------------------
(* A save: BEGIN, the UPDATE and the SELECT of the day rows, ... COMMIT.   *)

\* The UPDATE of a transaction that has not ended holds the row; those that
\* insert a row or delete one do not meet anybody else's UPDATE before.
Holds(q, r) ==
    /\ session[q].phase = "saving" /\ session[q].request = r
    /\ ~Creates(q) /\ ~Destroys(q) /\ ~IsIdle(q)

Free(p, r) == \A q \in Processes \ {p} : ~Holds(q, r)

\* The validations of a save: the approver always, the days of a new row only.
Acceptable(p) ==
    /\ Unsaved(p).approver \in Present(employee)
    /\ Creates(p) => ValidOnCreate(Unsaved(p))

\* Mutant of Begin: every process updates its row at once.
BeginAtOnce(p) ==
    /\ session[p].phase = "loaded"
    /\ Destroys(p) \/ Acceptable(p)
    /\ session' = [session EXCEPT ![p].phase = "saving",
                                  ![p].seen = copies[session[p].request]]
    /\ UNCHANGED <<vars, copies, raced, loads>>

Begin(p) ==
    /\ session[p].phase = "loaded"
    /\ Destroys(p) \/ Acceptable(p)
    /\ Creates(p) \/ Destroys(p) \/ IsIdle(p) \/ Free(p, session[p].request)
    /\ session' = [session EXCEPT ![p].phase = "saving",
                                  ![p].seen = copies[session[p].request]]
    /\ UNCHANGED <<vars, copies, raced, loads>>

\* approve does not look at what update_attributes returns: refused once, the
\* row is saved again as approved.
Refuse(p) ==
    /\ session[p].phase = "loaded"
    /\ ~Destroys(p) /\ ~Acceptable(p)
    /\ session' = [session EXCEPT ![p] =
          LET saves == session[p].saves IN
              IF Len(saves) = 1 THEN Closed ELSE [@ EXCEPT !.saves = Tail(saves)]]
    /\ UNCHANGED <<vars, copies, raced, loads>>

\* Partial updates: the columns that differ from what was loaded are written.
Merged(row, base, current) ==
    [c \in DOMAIN row |-> IF row[c] = base[c] THEN current[c] ELSE row[c]]

\* What p read is no longer so: another process wrote the row or its day rows
\* in between, or inserted a request for the same days.
Outdated(p) ==
    LET r == session[p].request IN
        \/ request[r] # session[p].base
        \/ copies[r] # session[p].seen
        \/ Creates(p) /\ ~ValidOnCreate(Unsaved(p))

\* The process goes on to the next save of the handler.
Ends(p) ==
    session' = [session EXCEPT ![p] =
        LET saves == session[p].saves IN
            IF Len(saves) = 1 THEN Closed
            ELSE [@ EXCEPT !.phase = "loaded", !.base = Head(saves),
                           !.saves = Tail(saves), !.seen = {}]]

\* The transaction leaves row and the day rows in kept behind.
Write(p, row, kept) ==
    LET r == session[p].request IN
        /\ request' = [request EXCEPT ![r] = row]
        /\ copies' = [copies EXCEPT ![r] = kept]
        /\ days' = [days EXCEPT ![r] =
              CASE kept = {} -> {}
                [] row.status \in Statuses -> Weekdays(row.dateFrom, row.dateTo)
                [] OTHER -> Weekdays(session[p].base.dateFrom, session[p].base.dateTo)]
        /\ raced' = IF Outdated(p) /\ <<request, days>>' # <<request, days>>
                    THEN raced \cup {r} ELSE raced
        /\ Ends(p)
        /\ UNCHANGED <<employee, today, loads>>

Copy(p) == [by |-> p, idle |-> IsIdle(p)]

Insertion(p) ==
    /\ session[p].phase = "saving" /\ Creates(p)
    /\ Write(p, Unsaved(p), {Copy(p)})

\* The day rows validate that their request exists: they are inserted unless
\* it has been destroyed, and perhaps if that happens in the meantime.
Update(p) ==
    LET s == session[p]  r == s.request  left == copies[r] \ s.seen IN
        /\ s.phase = "saving" /\ ~Creates(p) /\ ~Destroys(p)
        /\ \/ Stored(r) /\ Write(p, Merged(Unsaved(p), s.base, request[r]),
                                 left \cup {Copy(p)})
           \/ ~Stored(r) /\ Write(p, request[r], left)
           \/ ~Stored(r) /\ IsIdle(p) /\ s.seen # {}
              /\ Write(p, request[r], left \cup {Copy(p)})

\* destroy deletes the day rows it has found, then the request itself.
Destruction(p) ==
    LET s == session[p]  r == s.request IN
        /\ s.phase = "saving" /\ ~Creates(p) /\ Destroys(p)
        /\ Free(p, r)
        /\ Write(p, NoRow("gone"), copies[r] \ s.seen)

Commit(p) == Insertion(p) \/ Update(p) \/ Destruction(p)

\* The process is killed; an open transaction is rolled back.
Kill(p) ==
    /\ session[p] # Closed
    /\ session' = [session EXCEPT ![p] = Closed]
    /\ UNCHANGED <<vars, copies, raced, loads>>

-----------------------------------------------------------------------------

SessionNext ==
    \/ \E p \in Processes, a \in Employees, r \in Requests :
          LoadCreate(p, a, r) \/ Load(p, a, r)
    \/ \E p \in Processes : Begin(p) \/ Refuse(p) \/ Commit(p) \/ Kill(p)

SessionSpec == SessionInit /\ [][SessionNext]_sessionVars

-----------------------------------------------------------------------------
(* Properties.                                                             *)

(***************************************************************************)
(* Whatever overtakes whatever, leave that counts as granted bears the     *)
(* name of somebody who was entitled to grant it: partial updates may mix  *)
(* the columns of two handlers, but never give one's status the other's    *)
(* empty signature (leave_request.rb:277-327).                             *)
(***************************************************************************)
GrantedByAuthority ==
    \A r \in Requests : LET row == request[r] IN
        /\ row.status = "APPROVED" =>
              row.approvedDeclinedBy # None /\ MayApprove(row.approvedDeclinedBy, row)
        /\ row.status = "REINSTATED" =>
              row.reinstatedBy # None /\ CanAuthorise(row.reinstatedBy, row)

(***************************************************************************)
(* Saves of one request at the same time leave at most one set of day rows *)
(* behind that was inserted by a save with something to update: only saves *)
(* without changes, which do not lock the row, duplicate the days that the *)
(* balance counts (leave_request_day.rb:48-55).                            *)
(***************************************************************************)
OneLockedCopy ==
    \A r \in Requests : \A c, d \in copies[r] : c.idle \/ d.idle \/ c = d

(***************************************************************************)
(* A day is counted for two requests of one employee only for the reasons  *)
(* that one process knows, or because one of the two was written from      *)
(* outdated data: two requests created at the same time, or a cancelled    *)
(* one that somebody approves who still saw it pending                     *)
(* (leave_request.rb:441-456).                                             *)
(***************************************************************************)
DoubleCountRaced ==
    \A r, s \in Requests :
        /\ r # s
        /\ request[r].status \in ACTIVE_STATUSES
        /\ request[s].status \in ACTIVE_STATUSES
        /\ request[r].employee = request[s].employee
        /\ Intersects(request[r], request[s])
        => Returned(request[r]) \/ Returned(request[s]) \/ r \in raced \/ s \in raced

\* The second save of an approval that needs nobody's authority, which one
\* process makes together with the first.
CompletesApproval(r) ==
    \E a \in Employees :
        /\ Actor(a)
        /\ request[r].status = "PENDING"
        /\ request[r].leaveType \in ApprovalFree
        /\ Save(r, Approved(request[r], a))

(***************************************************************************)
(* Several processes do what one process might have done, save for writes  *)
(* from outdated data: whatever else is committed is a step of the         *)
(* workflow of LeaveRequests, or the second half of one of its approvals   *)
(* (leave_request.rb:268-336).                                             *)
(***************************************************************************)
OnlyOutdatedDeviate ==
    [][\/ Next \/ UNCHANGED vars
       \/ \E r \in Requests : CompletesApproval(r)
       \/ \E p \in Processes : Commit(p) /\ Outdated(p)]_sessionVars
=============================================================================
