----------------------- MODULE LeaveSessions_proofs -----------------------
(***************************************************************************)
(* Proofs about the workflow served by several web processes, for any      *)
(* number of processes and requests.                                       *)
(***************************************************************************)
EXTENDS LeaveSessions, LeaveRequests_proofs

USE NoneAssumption, AdminAssumption, ModelAssumption, SessionAssumption

-----------------------------------------------------------------------------
(* Versions of a row.                                                      *)

\* CanAuthorise and MayApprove, for a given employees table.
Entitled(emp, a, row) ==
    /\ CanAuthoriseLeave(emp, a)
    /\ row.approver = a \/ IsManagerOf(emp, a, row.employee)

MayGrant(emp, a, row) == Entitled(emp, a, row) \/ row.leaveType \in ApprovalFree

LEMMA EntitledIs == \A a, row : /\ Entitled(employee, a, row) <=> CanAuthorise(a, row)
                                /\ MayGrant(employee, a, row) <=> MayApprove(a, row)
  BY DEF Entitled, MayGrant, CanAuthorise, MayApprove

\* Every signature on the row is that of somebody entitled to it.
Signed(emp, row) ==
    /\ row.approvedDeclinedBy # None => MayGrant(emp, row.approvedDeclinedBy, row)
    /\ row.reinstatedBy # None => Entitled(emp, row.reinstatedBy, row)
    /\ row.status = "APPROVED" => row.approvedDeclinedBy # None
    /\ row.status = "REINSTATED" => row.reinstatedBy # None

Version(emp, row) ==
    row \in LeaveRequestRow /\ row.status \in Statuses /\ Signed(emp, row)

\* A later version of a row: about the same leave, no signature removed.
Follows(old, row) ==
    /\ row.employee = old.employee /\ row.approver = old.approver
    /\ row.leaveType = old.leaveType
    /\ old.approvedDeclinedBy # None => row.approvedDeclinedBy # None
    /\ old.reinstatedBy # None => row.reinstatedBy # None

LEMMA FollowsTransitive ==
    \A x, y, z : Follows(x, y) /\ Follows(y, z) => Follows(x, z)
  BY DEF Follows

(***************************************************************************)
(* Merging the columns of a handler into a row that somebody else has      *)
(* written meanwhile.                                                      *)
(***************************************************************************)
LEMMA MergedVersion ==
    ASSUME NEW emp, NEW row, NEW base \in LeaveRequestRow, NEW cur,
           Version(emp, row), Version(emp, cur), Follows(base, row), Follows(base, cur)
    PROVE  LET m == Merged(row, base, cur) IN
              Version(emp, m) /\ Follows(cur, m) /\ Follows(row, m)
<1> DEFINE m == Merged(row, base, cur)
<1>1. m \in LeaveRequestRow
  BY DEF Merged, Version, LeaveRequestRow
<1>2. /\ m.status \in {row.status, cur.status}
      /\ m.employee = cur.employee /\ m.approver = cur.approver
      /\ m.leaveType = cur.leaveType
      /\ m.employee = row.employee /\ m.approver = row.approver
      /\ m.leaveType = row.leaveType
  BY DEF Merged, Version, LeaveRequestRow, Follows
<1>3. /\ m.approvedDeclinedBy \in {row.approvedDeclinedBy, cur.approvedDeclinedBy}
      /\ row.approvedDeclinedBy # None \/ cur.approvedDeclinedBy # None
            => m.approvedDeclinedBy # None
      /\ m.reinstatedBy \in {row.reinstatedBy, cur.reinstatedBy}
      /\ row.reinstatedBy # None \/ cur.reinstatedBy # None => m.reinstatedBy # None
  BY DEF Merged, Version, LeaveRequestRow, Follows
<1>4. Follows(cur, m) /\ Follows(row, m)
  BY <1>2, <1>3 DEF Follows
<1>5. m.status \in Statuses
  BY <1>2 DEF Version
<1>6. Signed(emp, m)
  BY <1>2, <1>3 DEF Signed, Version, MayGrant, Entitled
<1> HIDE DEF m
<1>7. Version(emp, m)
  BY <1>1, <1>5, <1>6 DEF Version
<1> QED BY <1>4, <1>7 DEF m

-----------------------------------------------------------------------------
(* What a process is going to save.                                        *)

\* One version, or two of which the second follows the first, or a deletion.
Planned(emp, base, saves) ==
    \/ base.status \in Statuses /\ saves = <<NoRow("gone")>>
    \/ \E row \in LeaveRequestRow :
          /\ saves = <<row>> /\ Version(emp, row)
          /\ base.status \in Statuses => Follows(base, row)
    \/ \E row, next \in LeaveRequestRow :
          /\ saves = <<row, next>> /\ Version(emp, row) /\ Version(emp, next)
          /\ Follows(row, next)
          /\ base.status \in Statuses => Follows(base, row)

CopyRow == [by : Processes, idle : BOOLEAN]

SessionRow ==
    [phase : {"closed", "loaded", "saving"}, request : Requests \cup {None},
     base : LeaveRequestRow, saves : Seq(LeaveRequestRow), seen : SUBSET CopyRow]

SessionTypeOK ==
    /\ EmployeeTypeOK
    /\ request \in [Requests -> LeaveRequestRow]
    /\ session \in [Processes -> SessionRow]
    /\ copies \in [Requests -> SUBSET CopyRow]

AtWork(p) == session[p].phase # "closed"

\* The process works on a row of its own, or on one it has loaded.
Working(p) ==
    LET base == session[p].base  row == request[session[p].request] IN
        /\ session[p].request \in Requests
        /\ Planned(employee, base, session[p].saves)
        /\ \/ base = NoRow("unused") /\ row.status = "unused"
           \/ /\ base.status \in Statuses
              /\ \/ row.status \in Statuses /\ Follows(base, row)
                 \/ row.status = "gone"

\* Nobody else works on a row that is being created.
Apart ==
    \A p, q \in Processes :
        p # q /\ AtWork(p) /\ AtWork(q) /\ Creates(p)
            => session[q].request # session[p].request

\* One process at most holds a row, and it has seen every copy of the day
\* rows that another such process left behind.
Locked ==
    /\ \A p, q \in Processes, r \in Requests : Holds(p, r) /\ Holds(q, r) => p = q
    /\ \A p \in Processes, r \in Requests :
          Holds(p, r) => \A c \in copies[r] : c.idle \/ c \in session[p].seen

AllSigned ==
    \A r \in Requests : Stored(r) => Signed(employee, request[r])

SessionInv ==
    /\ SessionTypeOK
    /\ \A p \in Processes : AtWork(p) => Working(p)
    /\ Apart /\ Locked /\ AllSigned /\ OneLockedCopy

LEMMA UnusedType == NoRow("unused") \in LeaveRequestRow
  BY DEF NoRow, LeaveRequestRow, Person

LEMMA ClosedType == Closed \in SessionRow
<1>1. NoRow("unused") \in LeaveRequestRow
  BY UnusedType
<1>2. <<>> \in Seq(LeaveRequestRow)
  OBVIOUS
<1> QED BY <1>1, <1>2 DEF Closed, SessionRow

LEMMA SessionInitInv == SessionInit => SessionInv
<1> SUFFICES ASSUME SessionInit PROVE SessionInv
  OBVIOUS
<1>1. \A p \in Processes : session[p] = Closed /\ session[p].phase = "closed"
  BY DEF SessionInit, Closed
<1>2. EmployeeTypeOK
  BY EmployeeInitType DEF SessionInit, Init
<1>3. request \in [Requests -> LeaveRequestRow]
  BY UnusedType DEF SessionInit, Init
<1>4. copies \in [Requests -> SUBSET CopyRow]
  BY DEF SessionInit
<1>5. session \in [Processes -> SessionRow]
  BY ClosedType DEF SessionInit
<1>6. SessionTypeOK
  BY <1>2, <1>3, <1>4, <1>5 DEF SessionTypeOK
<1>7. Apart /\ Locked /\ \A p \in Processes : AtWork(p) => Working(p)
  BY <1>1 DEF Apart, Locked, AtWork, Holds
<1>8. AllSigned /\ OneLockedCopy
  BY DEF SessionInit, Init, AllSigned, Stored, NoRow, Statuses, OneLockedCopy
<1> QED BY <1>6, <1>7, <1>8 DEF SessionInv

-----------------------------------------------------------------------------
(* Loading.                                                                *)

\* What every handler does before its first save.
Opens(p, r, base, saves) ==
    /\ Open(p, r, base, saves)
    /\ base \in LeaveRequestRow
    /\ saves \in Seq(LeaveRequestRow)
    /\ Planned(employee, base, saves)
    /\ \/ /\ base = NoRow("unused") /\ request[r].status = "unused"
          /\ \A q \in Processes : session[q].request # r
       \/ base = request[r] /\ Stored(r)

LEMMA OneSave ==
    ASSUME NEW p \in Processes, NEW r \in Requests, NEW row,
           request[r] \in LeaveRequestRow, Stored(r),
           Version(employee, row), Follows(request[r], row),
           Open(p, r, request[r], <<row>>)
    PROVE  Opens(p, r, request[r], <<row>>)
<1>1. <<row>> \in Seq(LeaveRequestRow)
  BY DEF Version
<1> QED BY <1>1 DEF Opens, Planned, Version, Stored

LEMMA TwoSaves ==
    ASSUME NEW p \in Processes, NEW r \in Requests, NEW row, NEW next,
           request[r] \in LeaveRequestRow, Stored(r),
           Version(employee, row), Version(employee, next),
           Follows(request[r], row), Follows(row, next),
           Open(p, r, request[r], <<row, next>>)
    PROVE  Opens(p, r, request[r], <<row, next>>)
<1>1. <<row, next>> \in Seq(LeaveRequestRow)
  BY DEF Version
<1> QED BY <1>1 DEF Opens, Planned, Version, Stored

\* The versions that confirming and approving save.
LEMMA PendingVersion ==
    ASSUME NEW row \in LeaveRequestRow, Signed(employee, row),
           NEW o \in SUBSET Constraints
    PROVE  Version(employee, Pending(row, o)) /\ Follows(row, Pending(row, o))
<1>1. Pending(row, o) \in LeaveRequestRow
  BY DEF Pending, LeaveRequestRow, Statuses
<1> QED BY <1>1 DEF Pending, LeaveRequestRow, Version, Follows, Signed, MayGrant,
                    Entitled, Statuses

LEMMA ApprovedVersion ==
    ASSUME NEW a \in Employees, NEW row \in LeaveRequestRow, Signed(employee, row),
           MayApprove(a, row)
    PROVE  Version(employee, Approved(row, a)) /\ Follows(row, Approved(row, a))
<1>1. Approved(row, a) \in LeaveRequestRow
  BY DEF Approved, LeaveRequestRow, Statuses, Person
<1>2. MayGrant(employee, a, row)
  BY EntitledIs
<1> QED BY <1>1, <1>2 DEF Approved, LeaveRequestRow, Version, Follows, Signed, MayGrant,
                          Entitled, Statuses

LEMMA GrantingVersions ==
    ASSUME NEW a \in Employees, NEW row \in LeaveRequestRow, Signed(employee, row),
           MayApprove(a, row), NEW o \in SUBSET Constraints
    PROVE  \E first, last :
              /\ Granting(a, row, o) = <<first, last>>
              /\ Version(employee, first) /\ Version(employee, last)
              /\ Follows(row, first) /\ Follows(first, last)
<1> DEFINE first == Pending(row, o)
<1>1. Version(employee, first) /\ Follows(row, first)
  BY PendingVersion
<1>2. MayApprove(a, first)
  BY DEF MayApprove, CanAuthorise, Pending, LeaveRequestRow
<1>3. Version(employee, Approved(first, a)) /\ Follows(first, Approved(first, a))
  BY <1>1, <1>2, ApprovedVersion DEF Version
<1> QED BY <1>1, <1>3 DEF Granting

LEMMA SignedDecision ==
    ASSUME NEW a \in Employees, NEW row \in LeaveRequestRow, Signed(employee, row),
           CanAuthorise(a, row), NEW new \in LeaveRequestRow,
           new.status \in Statuses,
           new.employee = row.employee, new.approver = row.approver,
           new.leaveType = row.leaveType,
           \/ /\ new.approvedDeclinedBy = a /\ new.reinstatedBy = row.reinstatedBy
              /\ new.status = "DECLINED"
           \/ /\ new.reinstatedBy = a /\ new.approvedDeclinedBy = row.approvedDeclinedBy
              /\ new.status = "REINSTATED"
    PROVE  Version(employee, new) /\ Follows(row, new)
<1>1. Entitled(employee, a, row) /\ MayGrant(employee, a, row) /\ a # None
  BY EntitledIs DEF MayGrant
<1>2. Follows(row, new)
  BY <1>1 DEF Follows
<1>3. Signed(employee, new)
  BY <1>1 DEF Signed, MayGrant, Entitled
<1> QED BY <1>2, <1>3 DEF Version

LEMMA DeclinedVersion ==
    ASSUME NEW a \in Employees, NEW row \in LeaveRequestRow, Signed(employee, row),
           CanAuthorise(a, row)
    PROVE  LET new == [row EXCEPT !.status = "DECLINED", !.approvedDeclinedBy = a]
           IN  Version(employee, new) /\ Follows(row, new)
<1> DEFINE new == [row EXCEPT !.status = "DECLINED", !.approvedDeclinedBy = a]
<1>1. /\ new \in LeaveRequestRow /\ new.status = "DECLINED"
      /\ new.employee = row.employee /\ new.approver = row.approver
      /\ new.leaveType = row.leaveType
      /\ new.approvedDeclinedBy = a /\ new.reinstatedBy = row.reinstatedBy
  BY DEF LeaveRequestRow, Statuses, Person
<1>2. new.status \in Statuses
  BY <1>1 DEF Statuses
<1> HIDE DEF new
<1>3. Version(employee, new) /\ Follows(row, new)
  BY <1>1, <1>2, SignedDecision
<1> QED BY <1>3 DEF new

LEMMA ReinstatedVersion ==
    ASSUME NEW a \in Employees, NEW row \in LeaveRequestRow, Signed(employee, row),
           CanAuthorise(a, row)
    PROVE  LET new == [row EXCEPT !.status = "REINSTATED", !.cancelledBy = None,
                                  !.reinstatedBy = a]
           IN  Version(employee, new) /\ Follows(row, new)
<1> DEFINE new == [row EXCEPT !.status = "REINSTATED", !.cancelledBy = None,
                              !.reinstatedBy = a]
<1>1. /\ new \in LeaveRequestRow /\ new.status = "REINSTATED"
      /\ new.employee = row.employee /\ new.approver = row.approver
      /\ new.leaveType = row.leaveType
      /\ new.reinstatedBy = a /\ new.approvedDeclinedBy = row.approvedDeclinedBy
  BY DEF LeaveRequestRow, Statuses, Person
<1>2. new.status \in Statuses
  BY <1>1 DEF Statuses
<1> HIDE DEF new
<1>3. Version(employee, new) /\ Follows(row, new)
  BY <1>1, <1>2, SignedDecision
<1> QED BY <1>3 DEF new

\* Versions without a new signature.
LEMMA UnsignedVersion ==
    ASSUME NEW row \in LeaveRequestRow, Signed(employee, row),
           NEW new \in LeaveRequestRow,
           new.status \in Statuses, new.status \in {"CANCELLED", row.status},
           new.employee = row.employee, new.approver = row.approver,
           new.leaveType = row.leaveType,
           new.approvedDeclinedBy = row.approvedDeclinedBy,
           new.reinstatedBy = row.reinstatedBy
    PROVE  Version(employee, new) /\ Follows(row, new)
  BY DEF Version, Follows, Signed, MayGrant, Entitled

LEMMA CancelledVersion ==
    ASSUME NEW a \in Employees, NEW row \in LeaveRequestRow, Signed(employee, row)
    PROVE  LET new == [row EXCEPT !.status = "CANCELLED", !.cancelledBy = a]
           IN  Version(employee, new) /\ Follows(row, new)
<1> DEFINE new == [row EXCEPT !.status = "CANCELLED", !.cancelledBy = a]
<1>1. /\ new \in LeaveRequestRow /\ new.status = "CANCELLED"
      /\ new.employee = row.employee /\ new.approver = row.approver
      /\ new.leaveType = row.leaveType
      /\ new.approvedDeclinedBy = row.approvedDeclinedBy
      /\ new.reinstatedBy = row.reinstatedBy
  BY DEF LeaveRequestRow, Statuses, Person
<1>2. new.status \in Statuses
  BY <1>1 DEF Statuses
<1> HIDE DEF new
<1>3. Version(employee, new) /\ Follows(row, new)
  BY <1>1, <1>2, UnsignedVersion
<1> QED BY <1>3 DEF new

LEMMA OverriddenVersion ==
    ASSUME NEW row \in LeaveRequestRow, row.status \in Statuses, Signed(employee, row),
           NEW o \in SUBSET Constraints
    PROVE  LET new == [row EXCEPT !.overrides = o]
           IN  Version(employee, new) /\ Follows(row, new)
<1> DEFINE new == [row EXCEPT !.overrides = o]
<1>1. /\ new \in LeaveRequestRow /\ new.status = row.status
      /\ new.employee = row.employee /\ new.approver = row.approver
      /\ new.leaveType = row.leaveType
      /\ new.approvedDeclinedBy = row.approvedDeclinedBy
      /\ new.reinstatedBy = row.reinstatedBy
  BY DEF LeaveRequestRow
<1> HIDE DEF new
<1>2. Version(employee, new) /\ Follows(row, new)
  BY <1>1, UnsignedVersion
<1> QED BY <1>2 DEF new

\* Handlers about a stored request.
LEMMA LoadOpens ==
    ASSUME SessionInv, NEW p \in Processes, NEW a \in Employees, NEW r \in Requests,
           Load(p, a, r)
    PROVE  \E base, saves : Opens(p, r, base, saves)
<1> DEFINE row == request[r]
<1>1. row \in LeaveRequestRow /\ row.status \in Statuses /\ Stored(r)
      /\ Signed(employee, row)
  BY DEF SessionInv, SessionTypeOK, AllSigned, Load, Stored
<1>2. ASSUME NEW o \in SUBSET Constraints, LoadConfirm(p, a, r, o)
      PROVE  \E base, saves : Opens(p, r, base, saves)
  <2>1. row.overrides \in SUBSET Constraints
    BY <1>1 DEF LeaveRequestRow
  <2>2. CASE ~AutoApproves(a, row)
    <3>1. Open(p, r, row, <<Pending(row, row.overrides)>>)
      BY <1>2, <2>2 DEF LoadConfirm
    <3> QED BY <1>1, <2>1, <3>1, PendingVersion, OneSave
  <2>3. CASE AutoApproves(a, row)
    <3>1. MayApprove(a, row) /\ Open(p, r, row, Granting(a, row, o))
      BY <1>2, <2>3 DEF LoadConfirm
    <3> QED BY <1>1, <3>1, GrantingVersions, TwoSaves
  <2> QED BY <2>2, <2>3
<1>3. ASSUME NEW o \in SUBSET Constraints, LoadApprove(p, a, r, o)
      PROVE  \E base, saves : Opens(p, r, base, saves)
  <2>1. MayApprove(a, row) /\ Open(p, r, row, Granting(a, row, o))
    BY <1>3 DEF LoadApprove, MayApprove
  <2> QED BY <1>1, <2>1, GrantingVersions, TwoSaves
<1>4. ASSUME NEW o \in SUBSET Constraints, LoadConstraints(p, r, o)
      PROVE  \E base, saves : Opens(p, r, base, saves)
  BY <1>1, <1>4, OverriddenVersion, OneSave DEF LoadConstraints
<1>5. ASSUME LoadDecline(p, a, r) PROVE \E base, saves : Opens(p, r, base, saves)
  BY <1>1, <1>5, DeclinedVersion, OneSave DEF LoadDecline
<1>6. ASSUME LoadReinstate(p, a, r) PROVE \E base, saves : Opens(p, r, base, saves)
  BY <1>1, <1>6, ReinstatedVersion, OneSave DEF LoadReinstate
<1>7. ASSUME LoadCancel(p, a, r) PROVE \E base, saves : Opens(p, r, base, saves)
  <2>2. CASE row.status = "NEW"
    <3>1. Open(p, r, row, <<NoRow("gone")>>)
      BY <1>7, <2>2 DEF LoadCancel
    <3>2. <<NoRow("gone")>> \in Seq(LeaveRequestRow)
      BY NoRowType
    <3> QED BY <1>1, <3>1, <3>2 DEF Opens, Planned
  <2>3. CASE row.status # "NEW"
    <3>1. Open(p, r, row, <<[row EXCEPT !.status = "CANCELLED", !.cancelledBy = a]>>)
      BY <1>7, <2>3 DEF LoadCancel
    <3> QED BY <1>1, <3>1, CancelledVersion, OneSave
  <2> QED BY <2>2, <2>3
<1> QED BY <1>2, <1>3, <1>4, <1>5, <1>6, <1>7 DEF Load

\* The forms that employees fill in.
LEMMA FormRow ==
    ASSUME EmployeeTypeOK, NEW a \in Employees, Actor(a),
           NEW row \in OwnForms(a) \cup StaffForms(a)
    PROVE  /\ row \in LeaveRequestRow /\ row.status = "NEW"
           /\ row.approvedDeclinedBy = None /\ row.reinstatedBy = None
<1>1. a \in Present(employee)
  BY DEF Actor
<1>2. CASE row \in OwnForms(a)
  <2>1. None \in Person /\ employee[a].approver \in Person
    BY DEF EmployeeTypeOK, EmployeeRow, Person
  <2> QED BY <1>1, <1>2, <2>1, FormType DEF OwnForms
<1>3. CASE row \in StaffForms(a)
  <2>1. PICK e \in Present(employee) : row \in Forms(a, e, a, a)
    BY <1>3 DEF StaffForms
  <2>2. a \in Person
    BY DEF Person
  <2> QED BY <2>1, <2>2, FormType
<1> QED BY <1>2, <1>3

\* Handlers that create one.
LEMMA CreateOpens ==
    ASSUME SessionInv, NEW p \in Processes, NEW a \in Employees, NEW r \in Requests,
           LoadCreate(p, a, r)
    PROVE  \E base, saves : Opens(p, r, base, saves)
<1>2. PICK row \in OwnForms(a) \cup StaffForms(a) :
          \/ row.violations # {} /\ Open(p, r, NoRow("unused"), <<row>>)
          \/ Open(p, r, NoRow("unused"), <<Pending(row, {})>>)
          \/ /\ MayApprove(a, row)
             /\ Open(p, r, NoRow("unused"), Granting(a, row, {}))
  BY DEF LoadCreate
<1>3. /\ row \in LeaveRequestRow /\ row.status = "NEW"
      /\ row.approvedDeclinedBy = None /\ row.reinstatedBy = None
  BY FormRow DEF LoadCreate, SessionInv, SessionTypeOK
<1>4. Version(employee, row) /\ Signed(employee, row) /\ {} \in SUBSET Constraints
  BY <1>3 DEF Version, Signed, Statuses
<1>5. NoRow("unused").status \notin Statuses /\ NoRow("unused") \in LeaveRequestRow
  BY UnusedType DEF NoRow, Statuses
<1>6. ASSUME NEW saves, Open(p, r, NoRow("unused"), saves),
             Planned(employee, NoRow("unused"), saves), saves \in Seq(LeaveRequestRow)
      PROVE  Opens(p, r, NoRow("unused"), saves)
  BY <1>5, <1>6 DEF Opens, LoadCreate
<1>7. ASSUME NEW only, Version(employee, only)
      PROVE  /\ Planned(employee, NoRow("unused"), <<only>>)
             /\ <<only>> \in Seq(LeaveRequestRow)
  BY <1>5, <1>7 DEF Planned, Version
<1>8. ASSUME NEW first, NEW last, Version(employee, first), Version(employee, last),
             Follows(first, last)
      PROVE  /\ Planned(employee, NoRow("unused"), <<first, last>>)
             /\ <<first, last>> \in Seq(LeaveRequestRow)
  BY <1>5, <1>8 DEF Planned, Version
<1>9. Version(employee, Pending(row, {}))
  BY <1>3, <1>4, PendingVersion
<1>10. CASE MayApprove(a, row) /\ Open(p, r, NoRow("unused"), Granting(a, row, {}))
  <2>1. PICK first, last :
            /\ Granting(a, row, {}) = <<first, last>>
            /\ Version(employee, first) /\ Version(employee, last)
            /\ Follows(first, last)
    BY <1>3, <1>4, <1>10, GrantingVersions
  <2> QED BY <1>6, <1>8, <1>10, <2>1
<1>11. CASE Open(p, r, NoRow("unused"), <<row>>)
  BY <1>4, <1>6, <1>7, <1>11
<1>12. CASE Open(p, r, NoRow("unused"), <<Pending(row, {})>>)
  BY <1>6, <1>7, <1>9, <1>12
<1> QED BY <1>2, <1>10, <1>11, <1>12

-----------------------------------------------------------------------------
(* Loading, beginning to save and giving up.                               *)

LEMMA OpenKeepsInv ==
    ASSUME SessionInv, NEW p \in Processes, NEW r \in Requests, NEW base, NEW saves,
           Opens(p, r, base, saves)
    PROVE  SessionInv'
<1> DEFINE s == [Closed EXCEPT !.phase = "loaded", !.request = r, !.base = base,
                               !.saves = saves]
<1>1. /\ session[p] = Closed /\ session' = [session EXCEPT ![p] = s]
      /\ UNCHANGED <<employee, request, copies>>
  BY DEF Opens, Open, vars
<1>2. /\ s \in SessionRow /\ s.phase = "loaded" /\ s.request = r
      /\ s.base = base /\ s.saves = saves
  BY ClosedType DEF Opens, SessionRow, Closed
<1> HIDE DEF s
<1>3. /\ session' \in [Processes -> SessionRow]
      /\ session'[p] = s
      /\ \A q \in Processes \ {p} : session'[q] = session[q]
  BY <1>1, <1>2 DEF SessionInv, SessionTypeOK
<1>4. SessionTypeOK'
  BY <1>1, <1>3 DEF SessionInv, SessionTypeOK, EmployeeTypeOK
<1>5. base.status \in Statuses \/ base.status = "unused"
  BY DEF Opens, NoRow, Stored
<1>6. ASSUME NEW q \in Processes, AtWork(q)' PROVE Working(q)'
  <2>1. CASE q = p
    <3>1. Follows(base, base)
      BY DEF Follows
    <3> QED BY <1>1, <1>2, <1>3, <2>1, <3>1 DEF Working, Opens, Stored
  <2>2. CASE q # p
    BY <1>1, <1>3, <1>6, <2>2 DEF SessionInv, Working, AtWork
  <2> QED BY <2>1, <2>2
<1>7. \A q \in Processes : AtWork(q) /\ session[q].request = r => base.status \in Statuses
  BY DEF Opens, Stored
<1>8. \A q \in Processes : AtWork(q) /\ Creates(q) => request[session[q].request].status = "unused"
  BY DEF SessionInv, Working, Creates, Statuses
<1>9. Apart'
  <2> SUFFICES ASSUME NEW x \in Processes, NEW y \in Processes,
                      x # y, AtWork(x)', AtWork(y)', Creates(x)'
               PROVE  session'[y].request # session'[x].request
    BY DEF Apart
  <2>1. CASE x = p
    <3>1. base.status = "unused" /\ session'[y] = session[y] /\ AtWork(y)
      BY <1>2, <1>3, <2>1 DEF Creates, AtWork
    <3> QED BY <1>2, <1>3, <1>7, <2>1, <3>1 DEF Statuses
  <2>2. CASE y = p
    <3>1. session'[x] = session[x] /\ AtWork(x) /\ Creates(x)
      BY <1>3, <2>2 DEF Creates, AtWork
    <3>2. CASE base.status = "unused"
      BY <1>2, <1>3, <1>7, <2>2, <3>1, <3>2 DEF Statuses
    <3>3. CASE base.status \in Statuses
      <4>1. request[r].status \in Statuses
        BY <3>3 DEF Opens, NoRow, Statuses, Stored
      <4> QED BY <1>2, <1>3, <1>8, <2>2, <3>1, <4>1 DEF Statuses
    <3> QED BY <1>5, <3>2, <3>3
  <2>3. CASE x # p /\ y # p
    BY <1>3, <2>3 DEF SessionInv, Apart, AtWork, Creates
  <2> QED BY <2>1, <2>2, <2>3
<1>10. \A q \in Processes, o \in Requests : Holds(q, o)' => q # p /\ Holds(q, o)
  BY <1>2, <1>3 DEF Holds, Creates, Destroys, IsIdle, Unsaved
<1>11. Locked'
  BY <1>1, <1>3, <1>10 DEF SessionInv, Locked
<1>12. AllSigned' /\ OneLockedCopy'
  BY <1>1 DEF SessionInv, AllSigned, OneLockedCopy, Stored
<1> QED BY <1>4, <1>6, <1>9, <1>11, <1>12 DEF SessionInv

\* The forms of what is left to save.
LEMMA PlannedForms ==
    ASSUME NEW emp, NEW base, NEW saves, Planned(emp, base, saves)
    PROVE  \/ /\ base.status \in Statuses /\ Head(saves) = NoRow("gone")
              /\ Len(saves) = 1
           \/ /\ Version(emp, Head(saves))
              /\ base.status \in Statuses => Follows(base, Head(saves))
              /\ \/ Len(saves) = 1
                 \/ /\ Len(saves) = 2
                    /\ \E next \in LeaveRequestRow :
                          /\ Tail(saves) = <<next>> /\ Version(emp, next)
                          /\ Follows(Head(saves), next)
<1>1. CASE base.status \in Statuses /\ saves = <<NoRow("gone")>>
  BY <1>1
<1>2. ASSUME NEW row \in LeaveRequestRow, saves = <<row>>, Version(emp, row),
             base.status \in Statuses => Follows(base, row)
      PROVE  /\ Version(emp, Head(saves)) /\ Len(saves) = 1
             /\ base.status \in Statuses => Follows(base, Head(saves))
  <2>1. Head(saves) = row /\ Len(saves) = 1
    BY <1>2
  <2> QED BY <1>2, <2>1
<1>3. ASSUME NEW row \in LeaveRequestRow, NEW next \in LeaveRequestRow,
             saves = <<row, next>>, Version(emp, row), Version(emp, next),
             Follows(row, next), base.status \in Statuses => Follows(base, row)
      PROVE  /\ Version(emp, Head(saves)) /\ Len(saves) = 2
             /\ base.status \in Statuses => Follows(base, Head(saves))
             /\ Tail(saves) = <<next>> /\ Follows(Head(saves), next)
  <2>1. Head(saves) = row /\ Len(saves) = 2 /\ Tail(saves) = <<next>>
    BY <1>3
  <2> QED BY <1>3, <2>1
<1> QED BY <1>1, <1>2, <1>3 DEF Planned

\* The process closes, or is left with the last of its saves.
LEMMA RefuseEffect ==
    ASSUME SessionInv, NEW p \in Processes, Refuse(p) \/ Kill(p)
    PROVE  \E s \in SessionRow :
              /\ session' = [session EXCEPT ![p] = s]
              /\ \/ s.phase = "closed"
                 \/ /\ s.phase = "loaded" /\ AtWork(p)
                    /\ s.request = session[p].request /\ s.base = session[p].base
                    /\ Planned(employee, s.base, s.saves)
<1> DEFINE saves == session[p].saves
           s == [session[p] EXCEPT !.saves = Tail(saves)]
<1>1. session[p] \in SessionRow /\ Closed.phase = "closed"
  BY DEF SessionInv, SessionTypeOK, Closed
<1>2. CASE session' = [session EXCEPT ![p] = Closed]
  BY <1>1, <1>2, ClosedType
<1>3. CASE ~(session' = [session EXCEPT ![p] = Closed])
  <2>1. /\ session[p].phase = "loaded" /\ Len(saves) # 1 /\ AtWork(p)
        /\ session' = [session EXCEPT ![p] = s]
    BY <1>3 DEF Refuse, Kill, AtWork
  <2>2. Planned(employee, session[p].base, saves)
    BY <2>1 DEF SessionInv, Working
  <2>3. PICK next \in LeaveRequestRow :
          /\ Tail(saves) = <<next>> /\ Version(employee, next)
          /\ Follows(Head(saves), next)
          /\ session[p].base.status \in Statuses => Follows(session[p].base, Head(saves))
    BY <2>1, <2>2, PlannedForms
  <2>4. Planned(employee, session[p].base, Tail(saves))
    BY <2>3, FollowsTransitive DEF Planned
  <2>5. Tail(saves) \in Seq(LeaveRequestRow)
    <3>1. <<next>> \in Seq(LeaveRequestRow)
      OBVIOUS
    <3> QED BY <2>3, <3>1, Zenon
  <2> HIDE DEF saves
  <2>6. /\ s \in SessionRow /\ s.phase = "loaded" /\ s.request = session[p].request
        /\ s.base = session[p].base /\ s.saves = Tail(saves)
    BY <1>1, <2>1, <2>5 DEF SessionRow
  <2> QED BY <2>1, <2>4, <2>6
<1> QED BY <1>2, <1>3

LEMMA CloseKeepsInv ==
    ASSUME SessionInv, NEW p \in Processes, Refuse(p) \/ Kill(p)
    PROVE  SessionInv'
<1>1. PICK s \in SessionRow :
         /\ session' = [session EXCEPT ![p] = s]
         /\ \/ s.phase = "closed"
            \/ /\ s.phase = "loaded" /\ AtWork(p)
               /\ s.request = session[p].request /\ s.base = session[p].base
               /\ Planned(employee, s.base, s.saves)
  BY RefuseEffect
<1>2. /\ session' \in [Processes -> SessionRow]
      /\ session'[p] = s
      /\ \A q \in Processes \ {p} : session'[q] = session[q]
      /\ UNCHANGED <<employee, request, copies>>
  BY <1>1 DEF SessionInv, SessionTypeOK, Refuse, Kill, vars
<1>3. SessionTypeOK'
  BY <1>2 DEF SessionInv, SessionTypeOK, EmployeeTypeOK
<1>4. \A q \in Processes : AtWork(q)' =>
         /\ AtWork(q) /\ session'[q].request = session[q].request
         /\ session'[q].base = session[q].base
  BY <1>1, <1>2 DEF AtWork
<1>5. ASSUME NEW q \in Processes, AtWork(q)' PROVE Working(q)'
  <2>1. Working(q)
    BY <1>4, <1>5 DEF SessionInv
  <2>2. Planned(employee, session'[q].base, session'[q].saves)
    BY <1>1, <1>2, <1>5, <2>1 DEF AtWork, Working
  <2> QED BY <1>2, <1>4, <1>5, <2>1, <2>2 DEF Working
<1>6. Apart'
  BY <1>4 DEF SessionInv, Apart, Creates
<1>7. \A q \in Processes, o \in Requests : Holds(q, o)' => q # p /\ Holds(q, o)
  BY <1>1, <1>2 DEF Holds, Creates, Destroys, IsIdle, Unsaved
<1>8. Locked'
  BY <1>2, <1>7 DEF SessionInv, Locked
<1>9. AllSigned' /\ OneLockedCopy'
  BY <1>2 DEF SessionInv, AllSigned, OneLockedCopy, Stored
<1> QED BY <1>3, <1>5, <1>6, <1>8, <1>9 DEF SessionInv

LEMMA BeginKeepsInv ==
    ASSUME SessionInv, NEW p \in Processes, Begin(p)
    PROVE  SessionInv'
<1> DEFINE r == session[p].request
           s == [session[p] EXCEPT !.phase = "saving", !.seen = copies[r]]
<1>1. /\ session[p].phase = "loaded" /\ session' = [session EXCEPT ![p] = s]
      /\ UNCHANGED <<employee, request, copies>>
      /\ Creates(p) \/ Destroys(p) \/ IsIdle(p) \/ Free(p, r)
  BY DEF Begin, vars
<1>2. r \in Requests /\ AtWork(p)
  BY <1>1 DEF SessionInv, AtWork, Working
<1>3. /\ s \in SessionRow /\ s.phase = "saving" /\ s.request = r
      /\ s.base = session[p].base /\ s.saves = session[p].saves /\ s.seen = copies[r]
  BY <1>2 DEF SessionInv, SessionTypeOK, SessionRow
<1> HIDE DEF s
<1>4. /\ session' \in [Processes -> SessionRow]
      /\ session'[p] = s
      /\ \A q \in Processes \ {p} : session'[q] = session[q]
  BY <1>1, <1>3 DEF SessionInv, SessionTypeOK
<1>5. SessionTypeOK'
  BY <1>1, <1>4 DEF SessionInv, SessionTypeOK, EmployeeTypeOK
<1>6. \A q \in Processes : /\ AtWork(q)' = AtWork(q)
                          /\ session'[q].request = session[q].request
                          /\ session'[q].base = session[q].base
                          /\ session'[q].saves = session[q].saves
  BY <1>1, <1>3, <1>4 DEF AtWork
<1>7. \A q \in Processes : AtWork(q)' => Working(q)'
  BY <1>1, <1>6 DEF SessionInv, Working
<1>8. Apart'
  BY <1>6 DEF SessionInv, Apart, Creates
<1>9. ASSUME NEW q \in Processes, q # p, NEW o \in Requests
      PROVE  Holds(q, o)' <=> Holds(q, o)
  BY <1>4, <1>9 DEF Holds, Creates, Destroys, IsIdle, Unsaved
<1>10. ASSUME NEW o \in Requests, Holds(p, o)'
       PROVE  o = r /\ \A q \in Processes \ {p} : ~Holds(q, r)
  <2>1. o = r /\ ~Creates(p) /\ ~Destroys(p) /\ ~IsIdle(p)
    BY <1>3, <1>4, <1>10 DEF Holds, Creates, Destroys, IsIdle, Unsaved
  <2> QED BY <1>1, <2>1 DEF Free
<1>11. Locked'
  BY <1>1, <1>2, <1>3, <1>4, <1>9, <1>10 DEF SessionInv, Locked
<1>12. AllSigned' /\ OneLockedCopy'
  BY <1>1 DEF SessionInv, AllSigned, OneLockedCopy, Stored
<1> QED BY <1>5, <1>7, <1>8, <1>11, <1>12 DEF SessionInv

-----------------------------------------------------------------------------
(* Saving.                                                                 *)

\* What a transaction may leave behind: a row that follows the stored one
\* and the version that the handler had in mind, and the day rows that it did
\* not find together with its own.
Commits(p, r, row, kept) ==
    /\ request' = [request EXCEPT ![r] = row]
    /\ copies' = [copies EXCEPT ![r] = kept]
    /\ Ends(p)
    /\ UNCHANGED employee
    /\ session[p].phase = "saving" /\ session[p].request = r
    /\ row \in LeaveRequestRow
    /\ \/ row.status = "gone"
       \/ /\ Version(employee, row)
          /\ Follows(Unsaved(p), row)
          /\ Creates(p) \/ (Stored(r) /\ Follows(request[r], row))
    /\ kept \in SUBSET CopyRow
    /\ \/ Creates(p) /\ \A c, d \in kept : c = d
       \/ Holds(p, r) /\ \A c \in kept : c = Copy(p) \/ c \in copies[r] \ session[p].seen
       \/ \A c \in kept : c.idle \/ c \in copies[r]

LEMMA CopyType ==
    ASSUME NEW p \in Processes
    PROVE  Copy(p) \in CopyRow /\ (Copy(p).idle <=> IsIdle(p))
  BY Zenon DEF Copy, CopyRow, IsIdle

LEMMA CommitCommits ==
    ASSUME SessionInv, NEW p \in Processes, Commit(p)
    PROVE  LET r == session[p].request IN
              \E row, kept : r \in Requests /\ Commits(p, r, row, kept)
<1> DEFINE r == session[p].request
           base == session[p].base
           planned == Unsaved(p)
<1>1. session[p].phase = "saving" /\ AtWork(p)
  BY DEF Commit, Insertion, Update, Destruction, AtWork
<1>2. /\ r \in Requests /\ Planned(employee, base, session[p].saves)
      /\ \/ base = NoRow("unused") /\ request[r].status = "unused"
         \/ /\ base.status \in Statuses
            /\ \/ request[r].status \in Statuses /\ Follows(base, request[r])
               \/ request[r].status = "gone"
  BY <1>1 DEF SessionInv, Working
<1>3. /\ base \in LeaveRequestRow /\ request[r] \in LeaveRequestRow
      /\ copies[r] \in SUBSET CopyRow
      /\ Stored(r) => Version(employee, request[r])
  BY <1>2 DEF SessionInv, SessionTypeOK, SessionRow, AllSigned, Version, Stored
<1>4. /\ Creates(p) => base.status \notin Statuses
      /\ ~Creates(p) => base.status \in Statuses
      /\ base = NoRow("unused") => Creates(p)
  BY <1>2 DEF Creates, NoRow, Statuses
<1>5. \/ planned = NoRow("gone") /\ base.status \in Statuses
      \/ /\ Version(employee, planned)
         /\ base.status \in Statuses => Follows(base, planned)
  BY <1>2, PlannedForms DEF Unsaved
<1>6. Copy(p) \in CopyRow /\ (Copy(p).idle <=> IsIdle(p))
  BY CopyType
<1> SUFFICES \E row, kept : Commits(p, r, row, kept)
  BY <1>2
<1>7. ASSUME NEW row, NEW kept, Write(p, row, kept), row \in LeaveRequestRow,
             kept \in SUBSET CopyRow,
             \/ row.status = "gone"
             \/ /\ Version(employee, row) /\ Follows(planned, row)
                /\ Creates(p) \/ (Stored(r) /\ Follows(request[r], row)),
             \/ Creates(p) /\ \A c, d \in kept : c = d
             \/ Holds(p, r) /\ \A c \in kept : c = Copy(p) \/ c \in copies[r] \ session[p].seen
             \/ \A c \in kept : c.idle \/ c \in copies[r]
      PROVE  Commits(p, r, row, kept)
  BY <1>1, <1>7, Zenon DEF Commits, Write
<1>8. CASE Insertion(p)
  <2>1. /\ Creates(p) /\ Write(p, planned, {Copy(p)})
        /\ Version(employee, planned)
    BY <1>4, <1>5, <1>8 DEF Insertion
  <2>2. planned \in LeaveRequestRow /\ Follows(planned, planned)
    BY <2>1 DEF Version, Follows
  <2> HIDE DEF planned
  <2>3. {Copy(p)} \in SUBSET CopyRow /\ \A c, d \in {Copy(p)} : c = d
    BY <1>6
  <2> QED BY <1>7, <2>1, <2>2, <2>3
<1>9. CASE Destruction(p)
  <2>1. Write(p, NoRow("gone"), copies[r] \ session[p].seen)
    BY <1>9 DEF Destruction
  <2> QED BY <1>3, <1>7, <2>1, NoRowType
<1>10. CASE Update(p)
  <2> DEFINE left == copies[r] \ session[p].seen
             merged == Merged(planned, base, request[r])
  <2>1. /\ ~Creates(p) /\ ~Destroys(p)
        /\ \/ Stored(r) /\ Write(p, merged, left \cup {Copy(p)})
           \/ ~Stored(r) /\ Write(p, request[r], left)
           \/ ~Stored(r) /\ IsIdle(p) /\ Write(p, request[r], left \cup {Copy(p)})
    BY <1>10 DEF Update
  <2>2. /\ left \in SUBSET CopyRow /\ left \cup {Copy(p)} \in SUBSET CopyRow
        /\ \A c \in left : c \in copies[r]
        /\ \A c \in left \cup {Copy(p)} : c = Copy(p) \/ c \in left
    BY <1>3, <1>6
  <2>3. IsIdle(p) => \A c \in left \cup {Copy(p)} : c.idle \/ c \in copies[r]
    BY <1>6, <2>2
  <2>4. ~IsIdle(p) => Holds(p, r)
    BY <1>1, <2>1 DEF Holds
  <2>5. Version(employee, planned) /\ Follows(base, planned)
    <3>1. planned.status # "gone"
      BY <2>1 DEF Destroys
    <3>2. NoRow("gone").status = "gone"
      BY NoRowType
    <3> QED BY <1>4, <1>5, <2>1, <3>1, <3>2
  <2>6. CASE Stored(r)
    <3>1. Follows(base, request[r]) /\ Version(employee, request[r])
      BY <1>2, <1>3, <1>4, <2>1, <2>6 DEF Stored, Statuses
    <3>2. /\ Version(employee, merged) /\ Follows(request[r], merged)
          /\ Follows(planned, merged)
      BY <1>3, <2>5, <3>1, MergedVersion
    <3>3. merged \in LeaveRequestRow /\ Write(p, merged, left \cup {Copy(p)})
      BY <2>1, <2>6, <3>2 DEF Version
    <3> HIDE DEF merged, left, planned
    <3> QED BY <1>7, <2>2, <2>3, <2>4, <2>6, <3>2, <3>3 DEF left
  <2>7. CASE ~Stored(r)
    <3>1. request[r].status = "gone"
      <4>1. base # NoRow("unused")
        BY <1>4, <2>1
      <4> QED BY <1>2, <4>1, <2>7 DEF Stored
    <3>2. CASE Write(p, request[r], left)
      BY <1>3, <1>7, <2>2, <3>1, <3>2
    <3>3. CASE IsIdle(p) /\ Write(p, request[r], left \cup {Copy(p)})
      BY <1>3, <1>7, <2>2, <2>3, <3>1, <3>3
    <3> QED BY <2>1, <2>7, <3>2, <3>3
  <2> QED BY <2>6, <2>7
<1> QED BY <1>8, <1>9, <1>10 DEF Commit

\* The process closes, or goes on to its second save.
LEMMA EndsKeeps ==
    ASSUME SessionInv, NEW p \in Processes, NEW row, NEW kept,
           NEW r \in Requests, Commits(p, r, row, kept)
    PROVE  /\ session' \in [Processes -> SessionRow]
           /\ \A q \in Processes \ {p} : session'[q] = session[q]
           /\ session'[p].phase \in {"closed", "loaded"}
           /\ session'[p].phase = "loaded" =>
                 /\ session'[p].request = r
                 /\ session'[p].base \in LeaveRequestRow
                 /\ session'[p].base.status \in Statuses
                 /\ Planned(employee, session'[p].base, session'[p].saves)
                 /\ row.status = "gone" \/ Follows(session'[p].base, row)
<1> DEFINE saves == session[p].saves
           s == [session[p] EXCEPT !.phase = "loaded", !.base = Head(saves),
                                   !.saves = Tail(saves), !.seen = {}]
<1>1. session[p] \in SessionRow /\ session \in [Processes -> SessionRow] /\ AtWork(p)
      /\ session[p].request = r
  BY DEF SessionInv, SessionTypeOK, Commits, AtWork
<1>2. Planned(employee, session[p].base, saves)
  BY <1>1 DEF SessionInv, Working
<1>3. CASE Len(saves) = 1
  <2>1. session' = [session EXCEPT ![p] = Closed]
    BY <1>3 DEF Commits, Ends
  <2>2. Closed.phase = "closed"
    BY DEF Closed
  <2> QED BY <1>1, <2>1, <2>2, ClosedType
<1>4. CASE Len(saves) # 1
  <2>1. session' = [session EXCEPT ![p] = s]
    BY <1>1, <1>4 DEF Commits, Ends
  <2>2. PICK next \in LeaveRequestRow :
          /\ Version(employee, Head(saves)) /\ Tail(saves) = <<next>>
          /\ Version(employee, next) /\ Follows(Head(saves), next)
    BY <1>2, <1>4, PlannedForms
  <2> HIDE DEF saves
  <2>3. Head(saves) \in LeaveRequestRow /\ Head(saves).status \in Statuses
        /\ Tail(saves) \in Seq(LeaveRequestRow)
    <3>1. <<next>> \in Seq(LeaveRequestRow)
      OBVIOUS
    <3>2. Tail(saves) \in Seq(LeaveRequestRow)
      BY <2>2, <3>1, Zenon
    <3> QED BY <2>2, <3>2 DEF Version
  <2>4. /\ s \in SessionRow /\ s.phase = "loaded" /\ s.request = r
        /\ s.base = Head(saves) /\ s.saves = Tail(saves)
    BY <1>1, <2>3 DEF SessionRow
  <2>5. Planned(employee, Head(saves), Tail(saves))
    BY <2>2 DEF Planned
  <2>6. row.status = "gone" \/ Follows(Head(saves), row)
    BY DEF Commits, Unsaved, saves
  <2> HIDE DEF s
  <2> QED BY <1>1, <2>1, <2>3, <2>4, <2>5, <2>6
<1> QED BY <1>3, <1>4

LEMMA CommitKeepsInv ==
    ASSUME SessionInv, NEW p \in Processes, Commit(p)
    PROVE  SessionInv'
<1> DEFINE r == session[p].request
<1>1. PICK row, kept : r \in Requests /\ Commits(p, r, row, kept)
  BY CommitCommits
<1>2. /\ session' \in [Processes -> SessionRow]
      /\ \A q \in Processes \ {p} : session'[q] = session[q]
      /\ session'[p].phase \in {"closed", "loaded"}
      /\ session'[p].phase = "loaded" =>
            /\ session'[p].request = r
            /\ session'[p].base \in LeaveRequestRow
            /\ session'[p].base.status \in Statuses
            /\ Planned(employee, session'[p].base, session'[p].saves)
            /\ row.status = "gone" \/ Follows(session'[p].base, row)
  BY <1>1, EndsKeeps
<1>3. /\ employee' = employee
      /\ request' \in [Requests -> LeaveRequestRow] /\ request'[r] = row
      /\ \A o \in Requests \ {r} : request'[o] = request[o]
      /\ copies' \in [Requests -> SUBSET CopyRow] /\ copies'[r] = kept
      /\ \A o \in Requests \ {r} : copies'[o] = copies[o]
  BY <1>1 DEF Commits, SessionInv, SessionTypeOK
<1>4. row.status = "gone" \/ (row.status \in Statuses /\ Signed(employee, row))
  BY <1>1 DEF Commits, Version
<1>5. session[p].phase = "saving" /\ AtWork(p)
  BY <1>1 DEF Commits, AtWork
<1> HIDE DEF r
<1>6. session[p].request = r
  BY DEF r
<1>7. SessionTypeOK'
  BY <1>2, <1>3 DEF SessionInv, SessionTypeOK, EmployeeTypeOK
<1>8. ASSUME NEW q \in Processes, AtWork(q)' PROVE Working(q)'
  <2>1. CASE q = p
    <3>1. session'[p].phase = "loaded"
      BY <1>2, <1>8, <2>1 DEF AtWork
    <3> QED BY <1>1, <1>2, <1>3, <1>4, <2>1, <3>1 DEF Working
  <2>2. CASE q # p
    <3>1. session'[q] = session[q] /\ AtWork(q) /\ Working(q)
      BY <1>2, <1>8, <2>2 DEF AtWork, SessionInv
    <3>2. CASE session[q].request # r
      BY <1>3, <3>1, <3>2 DEF Working
    <3>3. CASE session[q].request = r
      <4>1. ~Creates(p) /\ ~Creates(q)
        BY <1>5, <1>6, <2>2, <3>1, <3>3 DEF SessionInv, Apart
      <4>2. session[q].base.status \in Statuses
        BY <3>1, <4>1 DEF Working, Creates, NoRow
      <4>3. row.status = "gone" \/ (row.status \in Statuses /\ Follows(session[q].base, row))
        <5>1. row.status = "gone" \/ (Stored(r) /\ Follows(request[r], row))
          BY <1>1, <4>1 DEF Commits
        <5>2. Stored(r) => Follows(session[q].base, request[r])
          BY <3>1, <3>3, <4>2 DEF Working, Stored, NoRow, Statuses
        <5> QED BY <1>4, <5>1, <5>2, FollowsTransitive
      <4> QED BY <1>1, <1>3, <3>1, <3>3, <4>2, <4>3 DEF Working
    <3> QED BY <3>2, <3>3
  <2> QED BY <2>1, <2>2
<1>9. Apart'
  <2> SUFFICES ASSUME NEW x \in Processes, NEW y \in Processes,
                      x # y, AtWork(x)', AtWork(y)', Creates(x)'
               PROVE  session'[y].request # session'[x].request
    BY DEF Apart
  <2>1. x # p
    BY <1>2 DEF AtWork, Creates, Statuses
  <2>2. session'[x] = session[x] /\ AtWork(x) /\ Creates(x)
    BY <1>2, <2>1 DEF AtWork, Creates
  <2>3. AtWork(y) /\ session'[y].request = session[y].request
    BY <1>2, <1>5, <1>6 DEF AtWork
  <2> QED BY <2>2, <2>3 DEF SessionInv, Apart
<1>10. ASSUME NEW q \in Processes, NEW o \in Requests, Holds(q, o)'
       PROVE  q # p /\ Holds(q, o) /\ session'[q] = session[q]
  <2>1. q # p
    BY <1>2, <1>10 DEF Holds
  <2> QED BY <1>2, <1>10, <2>1 DEF Holds, Creates, Destroys, IsIdle, Unsaved
<1>11. ASSUME NEW q \in Processes, NEW o \in Requests, Holds(q, o)'
       PROVE  \A c \in copies'[o] : c.idle \/ c \in session'[q].seen
  <2>1. q # p /\ Holds(q, o) /\ session'[q] = session[q]
    BY <1>10, <1>11
  <2>2. \A c \in copies[o] : c.idle \/ c \in session[q].seen
    BY <2>1 DEF SessionInv, Locked
  <2>3. CASE o = r
    <3>1. AtWork(q) /\ session[q].request = r
      BY <2>1, <2>3 DEF Holds, AtWork
    <3>2. ~Creates(p) /\ ~Holds(p, r)
      BY <1>1, <1>5, <1>6, <2>1, <2>3, <3>1 DEF SessionInv, Apart, Locked
    <3>3. \A c \in kept : c.idle \/ c \in copies[r]
      BY <1>1, <3>2 DEF Commits
    <3> QED BY <1>3, <2>1, <2>2, <2>3, <3>3
  <2>4. CASE o # r
    BY <1>3, <2>1, <2>2, <2>4
  <2> QED BY <2>3, <2>4
<1>12. Locked'
  <2>1. \A x, y \in Processes, o \in Requests : Holds(x, o)' /\ Holds(y, o)' => x = y
    BY <1>10 DEF SessionInv, Locked
  <2> QED BY <1>11, <2>1 DEF Locked
<1>13. AllSigned'
  <2> SUFFICES ASSUME NEW o \in Requests, Stored(o)' PROVE Signed(employee', request'[o])
    BY DEF AllSigned
  <2>1. CASE o = r
    BY <1>3, <1>4, <2>1 DEF Stored, Statuses
  <2>2. CASE o # r
    BY <1>1, <1>3, <2>2 DEF Stored, SessionInv, AllSigned
  <2> QED BY <2>1, <2>2
<1>14. OneLockedCopy'
  <2>1. \A c, d \in copies[r] : c.idle \/ d.idle \/ c = d
    BY <1>1 DEF SessionInv, OneLockedCopy
  <2>2. ASSUME NEW c \in kept, NEW d \in kept PROVE c.idle \/ d.idle \/ c = d
    <3>1. CASE Creates(p) /\ \A x, y \in kept : x = y
      BY <3>1
    <3>2. CASE Holds(p, r) /\ \A x \in kept : x = Copy(p) \/ x \in copies[r] \ session[p].seen
      <4>1. \A x \in kept : x = Copy(p) \/ x.idle
        BY <1>1, <3>2 DEF SessionInv, Locked
      <4> QED BY <4>1
    <3>3. CASE \A x \in kept : x.idle \/ x \in copies[r]
      BY <2>1, <3>3
    <3> QED BY <1>1, <3>1, <3>2, <3>3 DEF Commits
  <2>3. ASSUME NEW o \in Requests, NEW c \in copies'[o], NEW d \in copies'[o]
        PROVE  c.idle \/ d.idle \/ c = d
    <3>1. CASE o = r
      BY <1>3, <2>2, <2>3, <3>1
    <3>2. CASE o # r
      BY <1>3, <2>3, <3>2 DEF SessionInv, OneLockedCopy
    <3> QED BY <3>1, <3>2
  <2> QED BY <2>3 DEF OneLockedCopy
<1> QED BY <1>7, <1>8, <1>9, <1>12, <1>13, <1>14 DEF SessionInv

LEMMA RestKeepsSessionInv ==
    ASSUME SessionInv, UNCHANGED sessionVars
    PROVE  SessionInv'
<1>1. UNCHANGED <<employee, request, session, copies>>
  BY DEF sessionVars, vars
<1>2. SessionTypeOK'
  BY <1>1 DEF SessionInv, SessionTypeOK, EmployeeTypeOK
<1>3. \A q \in Processes : AtWork(q)' => Working(q)'
  BY <1>1 DEF SessionInv, AtWork, Working
<1>4. Apart'
  BY <1>1 DEF SessionInv, Apart, AtWork, Creates
<1>5. Locked'
  BY <1>1 DEF SessionInv, Locked, Holds, Creates, Destroys, IsIdle, Unsaved
<1>6. AllSigned' /\ OneLockedCopy'
  BY <1>1 DEF SessionInv, AllSigned, OneLockedCopy, Stored
<1> QED BY <1>2, <1>3, <1>4, <1>5, <1>6 DEF SessionInv

LEMMA SessionNextInv == SessionInv /\ [SessionNext]_sessionVars => SessionInv'
<1> SUFFICES ASSUME SessionInv, [SessionNext]_sessionVars PROVE SessionInv'
  OBVIOUS
<1>1. ASSUME NEW p \in Processes, NEW a \in Employees, NEW r \in Requests,
             LoadCreate(p, a, r) \/ Load(p, a, r)
      PROVE  SessionInv'
  BY <1>1, CreateOpens, LoadOpens, OpenKeepsInv
<1>2. ASSUME NEW p \in Processes, Begin(p) PROVE SessionInv'
  BY <1>2, BeginKeepsInv
<1>3. ASSUME NEW p \in Processes, Refuse(p) \/ Kill(p) PROVE SessionInv'
  BY <1>3, CloseKeepsInv
<1>4. ASSUME NEW p \in Processes, Commit(p) PROVE SessionInv'
  BY <1>4, CommitKeepsInv
<1>5. CASE UNCHANGED sessionVars
  BY <1>5, RestKeepsSessionInv
<1> QED BY <1>1, <1>2, <1>3, <1>4, <1>5 DEF SessionNext

THEOREM SessionInvariant == SessionSpec => []SessionInv
  BY SessionInitInv, SessionNextInv, PTL DEF SessionSpec

-----------------------------------------------------------------------------
(* What is saved is what one handler of LeaveRequests would save.          *)

\* One handler of LeaveRequests, run by a, finds base and saves row.
Warranted(a, base, row) ==
    /\ Actor(a)
    /\ \/ /\ base = NoRow("unused")
          /\ \E form \in OwnForms(a) \cup StaffForms(a) :
                \/ form.violations # {} /\ row = form
                \/ /\ form.violations = {} /\ ~AutoApproves(a, form)
                   /\ row = Pending(form, {})
                \/ /\ form.violations = {} /\ AutoApproves(a, form) /\ MayApprove(a, form)
                   /\ row \in {Pending(form, {}), Approved(Pending(form, {}), a)}
       \/ /\ base.status = "NEW" /\ ~AutoApproves(a, base)
          /\ row = Pending(base, base.overrides)
       \/ /\ \/ base.status = "NEW" /\ AutoApproves(a, base) /\ MayApprove(a, base)
             \/ base.status = "PENDING" /\ CanAuthorise(a, base)
          /\ \E o \in SUBSET Constraints :
                row \in {Pending(base, o), Approved(Pending(base, o), a)}
       \/ /\ base.status = "PENDING" /\ MayApprove(a, base)
          /\ row = Approved(base, a)
       \/ /\ base.status = "PENDING" /\ CanAuthorise(a, base)
          /\ row = [base EXCEPT !.status = "DECLINED", !.approvedDeclinedBy = a]
       \/ /\ base.status = "NEW" /\ CanCancel(a, base)
          /\ row = NoRow("gone")
       \/ /\ base.status \in Statuses \ {"NEW"} /\ CanCancel(a, base)
          /\ row = [base EXCEPT !.status = "CANCELLED", !.cancelledBy = a]
       \/ /\ base.status = "CANCELLED" /\ CanAuthorise(a, base)
          /\ row = [base EXCEPT !.status = "REINSTATED", !.cancelledBy = None,
                                !.reinstatedBy = a]
       \/ /\ base.status \in Statuses
          /\ \E o \in SUBSET Constraints : row = [base EXCEPT !.overrides = o]

\* Each save that is left is warranted, and so is the second after the first.
Prepared(base, saves) ==
    \E a \in Employees :
        /\ Warranted(a, base, Head(saves))
        /\ Len(saves) # 1 =>
              /\ Warranted(a, base, saves[2])
              /\ Warranted(a, Head(saves), saves[2])

\* What a process may save is warranted; what it is saving has an approver.
Ready(s) ==
    /\ s.phase # "closed" => Prepared(s.base, s.saves)
    /\ s.phase = "saving" =>
          Head(s.saves).status = "gone" \/ Head(s.saves).approver \in Present(employee)

WarrantInv ==
    /\ days \in [Requests -> SUBSET Int]
    /\ \A p \in Processes : Ready(session[p])

LEMMA SingleSave ==
    ASSUME NEW a \in Employees, NEW base, NEW row, Warranted(a, base, row)
    PROVE  Prepared(base, <<row>>)
<1>1. Head(<<row>>) = row /\ Len(<<row>>) = 1
  OBVIOUS
<1> QED BY <1>1 DEF Prepared

LEMMA DoubleSave ==
    ASSUME NEW a \in Employees, NEW base, NEW row \in LeaveRequestRow,
           NEW o \in SUBSET Constraints, Actor(a), MayApprove(a, row),
           Warranted(a, base, Pending(row, o)),
           Warranted(a, base, Approved(Pending(row, o), a))
    PROVE  Prepared(base, Granting(a, row, o))
<1> DEFINE first == Pending(row, o)
           last == Approved(first, a)
<1>1. first.status = "PENDING" /\ MayApprove(a, first)
  BY DEF MayApprove, CanAuthorise, Pending, LeaveRequestRow
<1>2. Warranted(a, first, last)
  BY <1>1 DEF Warranted
<1> HIDE DEF first, last
<1>3. Head(<<first, last>>) = first /\ <<first, last>>[2] = last
  OBVIOUS
<1> QED BY <1>2, <1>3 DEF Prepared, Granting, first, last

\* Every handler opens with saves that are warranted.
LEMMA OpenWarrants ==
    ASSUME SessionInv, NEW p \in Processes, NEW a \in Employees, NEW r \in Requests,
           LoadCreate(p, a, r) \/ Load(p, a, r)
    PROVE  \E base, saves : Open(p, r, base, saves) /\ Prepared(base, saves)
<1> DEFINE base == request[r]
<1>1. Actor(a) /\ base \in LeaveRequestRow
  BY DEF LoadCreate, Load, SessionInv, SessionTypeOK
<1>2. CASE LoadCreate(p, a, r)
  <2>1. PICK form \in OwnForms(a) \cup StaffForms(a) :
          \/ form.violations # {} /\ Open(p, r, NoRow("unused"), <<form>>)
          \/ /\ form.violations = {} /\ ~AutoApproves(a, form)
             /\ Open(p, r, NoRow("unused"), <<Pending(form, {})>>)
          \/ /\ form.violations = {} /\ AutoApproves(a, form) /\ MayApprove(a, form)
             /\ Open(p, r, NoRow("unused"), Granting(a, form, {}))
    BY <1>2 DEF LoadCreate
  <2>2. CASE form.violations # {} /\ Open(p, r, NoRow("unused"), <<form>>)
    <3>1. Warranted(a, NoRow("unused"), form)
      BY <1>1, <2>2 DEF Warranted
    <3> QED BY <2>2, <3>1, SingleSave
  <2>3. CASE /\ form.violations = {} /\ ~AutoApproves(a, form)
             /\ Open(p, r, NoRow("unused"), <<Pending(form, {})>>)
    <3>1. Warranted(a, NoRow("unused"), Pending(form, {}))
      BY <1>1, <2>3 DEF Warranted
    <3> QED BY <2>3, <3>1, SingleSave
  <2>4. CASE /\ form.violations = {} /\ AutoApproves(a, form) /\ MayApprove(a, form)
             /\ Open(p, r, NoRow("unused"), Granting(a, form, {}))
    <3>1. /\ Warranted(a, NoRow("unused"), Pending(form, {}))
          /\ Warranted(a, NoRow("unused"), Approved(Pending(form, {}), a))
      BY <1>1, <2>4 DEF Warranted
    <3>2. form \in LeaveRequestRow
      BY <1>1, <2>1, FormRow DEF SessionInv, SessionTypeOK
    <3> QED BY <1>1, <2>4, <3>1, <3>2, DoubleSave
  <2> QED BY <2>1, <2>2, <2>3, <2>4
<1>3. ASSUME NEW o \in SUBSET Constraints, LoadConfirm(p, a, r, o)
      PROVE  \E saves : Open(p, r, base, saves) /\ Prepared(base, saves)
  <2>1. CASE ~AutoApproves(a, base) /\ Open(p, r, base, <<Pending(base, base.overrides)>>)
    <3>1. Warranted(a, base, Pending(base, base.overrides))
      BY <1>1, <1>3, <2>1 DEF Warranted, LoadConfirm
    <3> QED BY <2>1, <3>1, SingleSave
  <2>2. CASE /\ AutoApproves(a, base) /\ MayApprove(a, base)
             /\ Open(p, r, base, Granting(a, base, o))
    <3>1. /\ Warranted(a, base, Pending(base, o))
          /\ Warranted(a, base, Approved(Pending(base, o), a))
      BY <1>1, <1>3, <2>2 DEF Warranted, LoadConfirm
    <3> QED BY <1>1, <2>2, <3>1, DoubleSave
  <2> QED BY <1>3, <2>1, <2>2 DEF LoadConfirm
<1>4. ASSUME NEW o \in SUBSET Constraints, LoadApprove(p, a, r, o)
      PROVE  \E saves : Open(p, r, base, saves) /\ Prepared(base, saves)
  <2>1. /\ Warranted(a, base, Pending(base, o))
        /\ Warranted(a, base, Approved(Pending(base, o), a))
    BY <1>1, <1>4 DEF Warranted, LoadApprove
  <2>2. MayApprove(a, base) /\ Open(p, r, base, Granting(a, base, o))
    BY <1>4 DEF LoadApprove, MayApprove
  <2> QED BY <1>1, <2>1, <2>2, DoubleSave
<1>5. ASSUME NEW row, Warranted(a, base, row), Open(p, r, base, <<row>>)
      PROVE  \E saves : Open(p, r, base, saves) /\ Prepared(base, saves)
  BY <1>5, SingleSave
<1>6. ASSUME NEW o \in SUBSET Constraints, LoadConstraints(p, r, o), Stored(r)
      PROVE  Warranted(a, base, [base EXCEPT !.overrides = o])
  BY <1>1, <1>6 DEF Warranted, Stored
<1>7. ASSUME LoadDecline(p, a, r)
      PROVE  Warranted(a, base, [base EXCEPT !.status = "DECLINED", !.approvedDeclinedBy = a])
  BY <1>1, <1>7 DEF Warranted, LoadDecline
<1>8. ASSUME LoadReinstate(p, a, r)
      PROVE  Warranted(a, base, [base EXCEPT !.status = "REINSTATED", !.cancelledBy = None,
                                             !.reinstatedBy = a])
  BY <1>1, <1>8 DEF Warranted, LoadReinstate
<1>9. ASSUME LoadCancel(p, a, r), Stored(r)
      PROVE  Warranted(a, base, IF base.status = "NEW" THEN NoRow("gone")
                                ELSE [base EXCEPT !.status = "CANCELLED", !.cancelledBy = a])
  BY <1>1, <1>9 DEF Warranted, LoadCancel, Stored
<1>10. CASE Load(p, a, r)
  <2>1. Stored(r)
    BY <1>10 DEF Load
  <2>2. CASE LoadDecline(p, a, r)
    BY <1>5, <1>7, <2>2 DEF LoadDecline
  <2>3. CASE LoadReinstate(p, a, r)
    BY <1>5, <1>8, <2>3 DEF LoadReinstate
  <2>4. CASE LoadCancel(p, a, r)
    BY <1>5, <1>9, <2>1, <2>4 DEF LoadCancel
  <2>5. ASSUME NEW o \in SUBSET Constraints, LoadConstraints(p, r, o)
        PROVE  \E saves : Open(p, r, base, saves) /\ Prepared(base, saves)
    BY <1>5, <1>6, <2>1, <2>5 DEF LoadConstraints
  <2> HIDE DEF base
  <2> QED BY <1>3, <1>4, <1>10, <2>2, <2>3, <2>4, <2>5 DEF Load
<1> QED BY <1>2, <1>10

\* Nobody's authority changes here, and no day passes.
LEMMA WarrantsStay ==
    ASSUME UNCHANGED <<employee, today>>
    PROVE  /\ \A a \in Employees : \A base, row : Warranted(a, base, row)' <=> Warranted(a, base, row)
           /\ Present(employee') = Present(employee)
<1>1. Present(employee') = Present(employee)
  OBVIOUS
<1>2. \A a \in Employees : /\ Actor(a)' <=> Actor(a)
                           /\ OwnForms(a)' = OwnForms(a)
                           /\ StaffForms(a)' = StaffForms(a)
  BY DEF Actor, OwnForms, StaffForms, Forms, ApproverChoices
<1>3. \A a \in Employees : \A row : /\ AutoApproves(a, row)' <=> AutoApproves(a, row)
                                    /\ MayApprove(a, row)' <=> MayApprove(a, row)
                                    /\ CanAuthorise(a, row)' <=> CanAuthorise(a, row)
                                    /\ CanCancel(a, row)' <=> CanCancel(a, row)
  BY DEF AutoApproves, MayApprove, CanAuthorise, CanCancel
<1>4. ASSUME NEW a \in Employees, NEW base, NEW row
      PROVE  Warranted(a, base, row)' <=> Warranted(a, base, row)
  BY <1>2, <1>3 DEF Warranted
<1> QED BY <1>1, <1>4

\* Whatever is left of warranted saves is warranted.
LEMMA LeftPrepared ==
    ASSUME NEW base, NEW saves, NEW emp, Planned(emp, base, saves), Prepared(base, saves),
           Len(saves) # 1
    PROVE  Prepared(base, Tail(saves)) /\ Prepared(Head(saves), Tail(saves))
<1>1. PICK row \in LeaveRequestRow, next \in LeaveRequestRow : saves = <<row, next>>
  <2>1. \A x : Len(<<x>>) = 1
    OBVIOUS
  <2> QED BY <2>1 DEF Planned
<1>2. /\ Head(saves) = row /\ saves[2] = next /\ Tail(saves) = <<next>>
  BY <1>1
<1>3. PICK a \in Employees : Warranted(a, base, next) /\ Warranted(a, row, next)
  BY <1>2 DEF Prepared
<1>4. Prepared(base, <<next>>) /\ Prepared(row, <<next>>)
  BY <1>3, SingleSave
<1> QED BY <1>2, <1>4

\* A step moves one process on, to something it is ready for.
MovesOn(p, s) == session' = [session EXCEPT ![p] = s] /\ Ready(s)

LEMMA ClosedReady == Ready(Closed)
  BY DEF Ready, Closed

LEMMA OpenMovesOn ==
    ASSUME SessionInv, NEW p \in Processes, NEW a \in Employees, NEW r \in Requests,
           LoadCreate(p, a, r) \/ Load(p, a, r)
    PROVE  \E s : MovesOn(p, s)
<1>1. PICK base, saves : Open(p, r, base, saves) /\ Prepared(base, saves)
  BY OpenWarrants
<1> DEFINE s == [Closed EXCEPT !.phase = "loaded", !.request = r, !.base = base,
                               !.saves = saves]
<1>2. s.phase = "loaded" /\ s.base = base /\ s.saves = saves
  BY DEF Closed
<1>3. session' = [session EXCEPT ![p] = s]
  BY <1>1 DEF Open
<1> HIDE DEF s
<1>4. Ready(s)
  BY <1>1, <1>2 DEF Ready
<1> QED BY <1>3, <1>4 DEF MovesOn

LEMMA BeginMovesOn ==
    ASSUME SessionInv, WarrantInv, NEW p \in Processes, Begin(p)
    PROVE  \E s : MovesOn(p, s)
<1> DEFINE s == [session[p] EXCEPT !.phase = "saving", !.seen = copies[session[p].request]]
<1>1. session' = [session EXCEPT ![p] = s]
  BY DEF Begin
<1>2. /\ s.phase = "saving" /\ s.base = session[p].base /\ s.saves = session[p].saves
  BY DEF SessionInv, SessionTypeOK, SessionRow
<1>3. /\ Prepared(session[p].base, session[p].saves)
      /\ \/ Head(session[p].saves).status = "gone"
         \/ Head(session[p].saves).approver \in Present(employee)
  BY DEF Begin, WarrantInv, Ready, Destroys, Acceptable, Unsaved
<1> HIDE DEF s
<1>4. Ready(s)
  BY <1>2, <1>3 DEF Ready
<1> QED BY <1>1, <1>4 DEF MovesOn

LEMMA RefuseMovesOn ==
    ASSUME SessionInv, WarrantInv, NEW p \in Processes, Refuse(p) \/ Kill(p)
    PROVE  \E s : MovesOn(p, s)
<1> DEFINE saves == session[p].saves
           s == [session[p] EXCEPT !.saves = Tail(saves)]
<1>1. CASE session' = [session EXCEPT ![p] = Closed]
  BY <1>1, ClosedReady DEF MovesOn
<1>2. CASE ~(session' = [session EXCEPT ![p] = Closed])
  <2>1. /\ session[p].phase = "loaded" /\ Len(saves) # 1 /\ AtWork(p)
        /\ session' = [session EXCEPT ![p] = s]
    BY <1>2 DEF Refuse, Kill, AtWork
  <2>2. Planned(employee, session[p].base, saves) /\ Prepared(session[p].base, saves)
    BY <2>1 DEF SessionInv, Working, WarrantInv, Ready
  <2>3. Prepared(session[p].base, Tail(saves))
    BY <2>1, <2>2, LeftPrepared
  <2>4. s.phase = "loaded" /\ s.base = session[p].base /\ s.saves = Tail(saves)
    BY <2>1 DEF SessionInv, SessionTypeOK, SessionRow
  <2> HIDE DEF s, saves
  <2>5. Ready(s)
    BY <2>3, <2>4 DEF Ready
  <2> QED BY <2>1, <2>5 DEF MovesOn
<1> QED BY <1>1, <1>2

LEMMA EndsMovesOn ==
    ASSUME SessionInv, WarrantInv, NEW p \in Processes, Ends(p), AtWork(p)
    PROVE  \E s : MovesOn(p, s)
<1> DEFINE saves == session[p].saves
           s == [session[p] EXCEPT !.phase = "loaded", !.base = Head(saves),
                                   !.saves = Tail(saves), !.seen = {}]
<1>1. Planned(employee, session[p].base, saves) /\ Prepared(session[p].base, saves)
  BY DEF SessionInv, Working, WarrantInv, Ready, AtWork
<1>2. CASE Len(saves) = 1
  <2>1. session' = [session EXCEPT ![p] = Closed]
    BY <1>2 DEF Ends
  <2> QED BY <2>1, ClosedReady DEF MovesOn
<1>3. CASE Len(saves) # 1
  <2>1. session' = [session EXCEPT ![p] = s]
    BY <1>3 DEF Ends
  <2>2. Prepared(Head(saves), Tail(saves))
    BY <1>1, <1>3, LeftPrepared
  <2>3. s.phase = "loaded" /\ s.base = Head(saves) /\ s.saves = Tail(saves)
    BY DEF SessionInv, SessionTypeOK, SessionRow
  <2> HIDE DEF s, saves
  <2>4. Ready(s)
    BY <2>2, <2>3 DEF Ready
  <2> QED BY <2>1, <2>4 DEF MovesOn
<1> QED BY <1>2, <1>3

\* A transaction leaves the days of one request other than before.
LEMMA CommitDays ==
    ASSUME SessionInv, WarrantInv, NEW p \in Processes, Commit(p)
    PROVE  days' \in [Requests -> SUBSET Int]
<1>1. PICK row, kept : Write(p, row, kept)
  BY DEF Commit, Insertion, Update, Destruction
<1>2. \A x, y : Weekdays(x, y) \subseteq Int
  BY DEF Weekdays
<1>3. \E set \in SUBSET Int : days' = [days EXCEPT ![session[p].request] = set]
  BY <1>1, <1>2 DEF Write
<1> QED BY <1>3 DEF WarrantInv

LEMMA WarrantInitInv == SessionInit => WarrantInv
<1> SUFFICES ASSUME SessionInit PROVE WarrantInv
  OBVIOUS
<1>1. days \in [Requests -> SUBSET Int]
  BY DEF SessionInit, Init
<1>2. \A p \in Processes : session[p].phase = "closed"
  BY DEF SessionInit, Closed
<1> QED BY <1>1, <1>2 DEF WarrantInv, Ready

LEMMA WarrantNextInv ==
    SessionInv /\ WarrantInv /\ [SessionNext]_sessionVars => WarrantInv'
<1> SUFFICES ASSUME SessionInv, WarrantInv, [SessionNext]_sessionVars PROVE WarrantInv'
  OBVIOUS
<1>1. UNCHANGED <<employee, today>> /\ days' \in [Requests -> SUBSET Int]
  <2>1. ASSUME NEW p \in Processes, Commit(p) PROVE UNCHANGED <<employee, today>>
    BY <2>1 DEF Commit, Insertion, Update, Destruction, Write
  <2>2. ASSUME NEW p \in Processes, NEW a \in Employees, NEW r \in Requests,
               LoadCreate(p, a, r) \/ Load(p, a, r)
        PROVE  UNCHANGED vars
    <3>1. \E base, saves : Open(p, r, base, saves)
      BY <2>2, OpenWarrants
    <3> QED BY <3>1 DEF Open
  <2>3. ASSUME NEW p \in Processes, Begin(p) \/ Refuse(p) \/ Kill(p)
        PROVE  UNCHANGED vars
    BY <2>3 DEF Begin, Refuse, Kill
  <2>4. UNCHANGED vars \/ \E p \in Processes : Commit(p)
    BY <2>2, <2>3 DEF SessionNext, sessionVars
  <2>5. UNCHANGED <<employee, today>>
    BY <2>1, <2>4 DEF vars
  <2>6. days' \in [Requests -> SUBSET Int]
    BY <2>4, CommitDays DEF vars, WarrantInv
  <2> QED BY <2>5, <2>6
<1>2. session' = session \/ \E p \in Processes : \E s : MovesOn(p, s)
  <2>1. ASSUME NEW p \in Processes, Commit(p) PROVE \E s : MovesOn(p, s)
    <3>1. Ends(p) /\ AtWork(p)
      BY <2>1 DEF Commit, Insertion, Update, Destruction, Write, AtWork
    <3> QED BY <3>1, EndsMovesOn
  <2>2. CASE UNCHANGED sessionVars
    BY <2>2 DEF sessionVars
  <2> QED BY <2>1, <2>2, OpenMovesOn, BeginMovesOn, RefuseMovesOn DEF SessionNext
<1>3. \A p \in Processes : Ready(session'[p])
  BY <1>2 DEF MovesOn, WarrantInv, SessionInv, SessionTypeOK
<1>4. \A s : Ready(s)' <=> Ready(s)
  BY <1>1, WarrantsStay DEF Ready, Prepared
<1> QED BY <1>1, <1>3, <1>4 DEF WarrantInv

-----------------------------------------------------------------------------

\* However many processes serve the workflow, granted leave is signed by
\* somebody who was entitled to grant it.
THEOREM GrantedCorrect == SessionSpec => []GrantedByAuthority
<1>1. SessionInv => GrantedByAuthority
  <2> SUFFICES ASSUME SessionInv, NEW r \in Requests,
                      request[r].status \in APPROVED_STATUSES
               PROVE  Signed(employee, request[r])
    BY EntitledIs DEF GrantedByAuthority, Signed, APPROVED_STATUSES
  <2> QED BY DEF SessionInv, AllSigned, Stored, Statuses, APPROVED_STATUSES
<1> QED BY <1>1, SessionInvariant, PTL

\* However many processes serve the workflow, only saves without changes
\* duplicate day rows.
THEOREM LockedCopyCorrect == SessionSpec => []OneLockedCopy
<1>1. SessionInv => OneLockedCopy
  BY DEF SessionInv
<1> QED BY <1>1, SessionInvariant, PTL

-----------------------------------------------------------------------------
(* Several processes do what one process does.                             *)

\* The forms stay valid when they are confirmed.
LEMMA ValidForms ==
    ASSUME NEW row \in LeaveRequestRow, NEW a
    PROVE  /\ ValidOnCreate(Pending(row, {})) => ValidOnCreate(row)
           /\ ValidOnCreate(Approved(Pending(row, {}), a)) => ValidOnCreate(row)
           /\ Pending(row, {}).status = "PENDING"
           /\ Approved(Pending(row, {}), a).status = "APPROVED"
  BY DEF ValidOnCreate, Intersects, Pending, Approved, LeaveRequestRow

LEMMA CreateWarranted ==
    ASSUME EmployeeTypeOK, NEW a \in Employees, NEW r \in Requests, NEW row,
           NEW form \in OwnForms(a) \cup StaffForms(a),
           Actor(a), request[r] = NoRow("unused"), ValidOnCreate(row),
           row.status # "gone" => Save(r, row),
           \/ form.violations # {} /\ row = form
           \/ /\ form.violations = {} /\ ~AutoApproves(a, form)
              /\ row = Pending(form, {})
           \/ /\ form.violations = {} /\ AutoApproves(a, form) /\ MayApprove(a, form)
              /\ row \in {Pending(form, {}), Approved(Pending(form, {}), a)}
    PROVE  Handler(a, r)
<1>1. form \in LeaveRequestRow /\ form.status = "NEW"
  BY FormRow
<1>2. request[r].status = "unused"
  BY DEF NoRow
<1>3. ValidOnCreate(form) /\ Save(r, row)
  BY <1>1, ValidForms
<1>4. Insert(a, r, form) \/ InsertInterrupted(a, r, form)
  BY <1>2, <1>3 DEF Insert, InsertInterrupted
<1>5. CASE form \in OwnForms(a)
  BY <1>4, <1>5 DEF Handler, Request, RequestInterrupted
<1>6. CASE form \in StaffForms(a)
  BY <1>4, <1>6 DEF Handler, Capture, CaptureInterrupted
<1> QED BY <1>5, <1>6

\* Saving a warranted version is a step of one of the handlers.
LEMMA WarrantedSave ==
    ASSUME EmployeeTypeOK, NEW a \in Employees, NEW r \in Requests, NEW row,
           request[r] \in LeaveRequestRow, Warranted(a, request[r], row),
           row.status # "gone" => Save(r, row),
           row.status = "gone" => DestroyRequests({r}) /\ UNCHANGED employee,
           request[r] = NoRow("unused") => ValidOnCreate(row)
    PROVE  Handler(a, r) \/ CompletesApproval(r)
<1> DEFINE base == request[r]
<1>1. Actor(a)
  BY DEF Warranted
<1>2. ASSUME NEW o \in SUBSET Constraints
      PROVE  /\ Pending(base, o).status = "PENDING"
             /\ Approved(Pending(base, o), a).status = "APPROVED"
             /\ Approved(base, a).status = "APPROVED"
  BY DEF Pending, Approved, LeaveRequestRow
<1>3. base.overrides \in SUBSET Constraints
  BY DEF LeaveRequestRow
<1>4. CASE /\ base = NoRow("unused")
           /\ \E form \in OwnForms(a) \cup StaffForms(a) :
                \/ form.violations # {} /\ row = form
                \/ /\ form.violations = {} /\ ~AutoApproves(a, form)
                   /\ row = Pending(form, {})
                \/ /\ form.violations = {} /\ AutoApproves(a, form) /\ MayApprove(a, form)
                   /\ row \in {Pending(form, {}), Approved(Pending(form, {}), a)}
  BY <1>1, <1>4, CreateWarranted
<1>5. CASE base.status = "NEW" /\ ~AutoApproves(a, base) /\ row = Pending(base, base.overrides)
  <2>1. Confirm(a, r, base.overrides)
    BY <1>1, <1>2, <1>3, <1>5 DEF Confirm
  <2> QED BY <1>3, <2>1 DEF Handler
<1>6. CASE /\ base.status = "NEW" /\ AutoApproves(a, base) /\ MayApprove(a, base)
           /\ \E o \in SUBSET Constraints :
                row \in {Pending(base, o), Approved(Pending(base, o), a)}
  <2>1. PICK o \in SUBSET Constraints : row \in {Pending(base, o), Approved(Pending(base, o), a)}
    BY <1>6
  <2>2. Confirm(a, r, o) \/ ConfirmInterrupted(a, r, o)
    BY <1>1, <1>2, <1>6, <2>1 DEF Confirm, ConfirmInterrupted
  <2> QED BY <2>2 DEF Handler
<1>7. CASE /\ base.status = "PENDING" /\ CanAuthorise(a, base)
           /\ \E o \in SUBSET Constraints :
                row \in {Pending(base, o), Approved(Pending(base, o), a)}
  <2>1. PICK o \in SUBSET Constraints : row \in {Pending(base, o), Approved(Pending(base, o), a)}
    BY <1>7
  <2>2. Approve(a, r, o) \/ ApproveInterrupted(a, r, o)
    BY <1>1, <1>2, <1>7, <2>1 DEF Approve, ApproveInterrupted
  <2> QED BY <2>2 DEF Handler
<1>8. CASE base.status = "PENDING" /\ MayApprove(a, base) /\ row = Approved(base, a)
  <2>1. Save(r, Approved(base, a))
    BY <1>2, <1>3, <1>8
  <2>2. CASE base.leaveType \in ApprovalFree
    BY <1>1, <1>8, <2>1, <2>2 DEF CompletesApproval
  <2>3. CASE CanAuthorise(a, base)
    <3>1. Approved(Pending(base, base.overrides), a) = Approved(base, a)
      BY <1>8 DEF Pending, Approved, LeaveRequestRow
    <3>2. Approve(a, r, base.overrides)
      BY <1>1, <1>8, <2>1, <2>3, <3>1 DEF Approve
    <3> QED BY <1>3, <3>2 DEF Handler
  <2> QED BY <1>8, <2>2, <2>3 DEF MayApprove
<1>9. CASE /\ base.status = "PENDING" /\ CanAuthorise(a, base)
           /\ row = [base EXCEPT !.status = "DECLINED", !.approvedDeclinedBy = a]
  <2>1. row.status = "DECLINED"
    BY <1>9 DEF LeaveRequestRow
  <2>2. Decline(a, r)
    BY <1>1, <1>9, <2>1 DEF Decline
  <2> QED BY <2>2 DEF Handler
<1>10. CASE base.status = "NEW" /\ CanCancel(a, base) /\ row = NoRow("gone")
  <2>1. Cancel(a, r)
    BY <1>1, <1>10, NoRowType DEF Cancel, Stored, Statuses
  <2> QED BY <2>1 DEF Handler
<1>11. CASE /\ base.status \in Statuses \ {"NEW"} /\ CanCancel(a, base)
            /\ row = [base EXCEPT !.status = "CANCELLED", !.cancelledBy = a]
  <2>1. row.status = "CANCELLED"
    BY <1>11 DEF LeaveRequestRow
  <2>2. Cancel(a, r)
    BY <1>1, <1>11, <2>1 DEF Cancel, Stored
  <2> QED BY <2>2 DEF Handler
<1>12. CASE /\ base.status = "CANCELLED" /\ CanAuthorise(a, base)
            /\ row = [base EXCEPT !.status = "REINSTATED", !.cancelledBy = None,
                                  !.reinstatedBy = a]
  <2>1. row.status = "REINSTATED"
    BY <1>12 DEF LeaveRequestRow
  <2>2. Reinstate(a, r)
    BY <1>1, <1>12, <2>1 DEF Reinstate
  <2> QED BY <2>2 DEF Handler
<1>13. CASE /\ base.status \in Statuses
            /\ \E o \in SUBSET Constraints : row = [base EXCEPT !.overrides = o]
  <2>1. PICK o \in SUBSET Constraints : row = [base EXCEPT !.overrides = o]
    BY <1>13
  <2>2. row.status \in Statuses
    BY <1>13, <2>1 DEF LeaveRequestRow
  <2>3. UpdateConstraints(a, r, o)
    BY <1>1, <1>13, <2>1, <2>2 DEF UpdateConstraints, Stored, Statuses
  <2> QED BY <2>3 DEF Handler
<1> HIDE DEF base
<1>14. Warranted(a, base, row)
  BY DEF base
<1> QED BY <1>4, <1>5, <1>6, <1>7, <1>8, <1>9, <1>10, <1>11, <1>12, <1>13, <1>14
        DEF Warranted

\* What a transaction that is up to date does.
LEMMA CurrentCommit ==
    ASSUME SessionInv, WarrantInv, NEW p \in Processes, Commit(p), ~Outdated(p)
    PROVE  LET r == session[p].request  row == Unsaved(p) IN
              /\ r \in Requests /\ request[r] = session[p].base
              /\ row.status # "gone" => Save(r, row)
              /\ row.status = "gone" => DestroyRequests({r}) /\ UNCHANGED employee
              /\ request[r] = NoRow("unused") => ValidOnCreate(row)
              /\ \E a \in Employees : Warranted(a, request[r], row)
<1> DEFINE r == session[p].request
           row == Unsaved(p)
           base == session[p].base
<1>1. session[p].phase = "saving" /\ AtWork(p)
  BY DEF Commit, Insertion, Update, Destruction, AtWork
<1>2. /\ r \in Requests /\ Planned(employee, base, session[p].saves)
      /\ base \in LeaveRequestRow
      /\ request[r] = base /\ copies[r] = session[p].seen
      /\ Creates(p) => ValidOnCreate(row)
  BY <1>1 DEF SessionInv, Working, SessionTypeOK, SessionRow, Outdated
<1>3. row = NoRow("gone") \/ (row \in LeaveRequestRow /\ row.status \in Statuses)
  BY <1>2, PlannedForms DEF Unsaved, Version
<1>4. request[r] = NoRow("unused") => ValidOnCreate(row)
  BY <1>2 DEF Creates, NoRow
<1>5. \E a \in Employees : Warranted(a, request[r], row)
  BY <1>1, <1>2 DEF WarrantInv, Ready, Prepared, Unsaved
<1>6. days \in [Requests -> SUBSET Int] /\ request \in [Requests -> LeaveRequestRow]
  BY DEF WarrantInv, SessionInv, SessionTypeOK
<1>7. CASE row.status = "gone"
  <2>1. Destroys(p) /\ row = NoRow("gone") /\ row.status \notin Statuses
    BY <1>3, <1>7 DEF Destroys, Statuses
  <2>2. ~Creates(p)
    <3>1. base.status \in Statuses
      BY <1>2, <2>1, PlannedForms DEF Version, Unsaved
    <3> QED BY <3>1 DEF Creates, Statuses
  <2>3. Write(p, NoRow("gone"), copies[r] \ session[p].seen)
    BY <2>1, <2>2 DEF Commit, Insertion, Update, Destruction
  <2>4. \E kept : kept = {} /\ Write(p, NoRow("gone"), kept)
    BY <1>2, <2>3
  <2>5. /\ request' = [request EXCEPT ![r] = NoRow("gone")]
        /\ days' = [days EXCEPT ![r] = {}]
        /\ UNCHANGED <<employee, today>>
    BY <2>1, <2>4 DEF Write
  <2> HIDE DEF r
  <2>6. request' = [q \in Requests |-> IF q \in {r} THEN NoRow("gone") ELSE request[q]]
    BY <1>6, <2>5
  <2>7. days' = [q \in Requests |-> IF q \in {r} THEN {} ELSE days[q]]
    BY <1>6, <2>5
  <2> QED BY <1>2, <1>4, <1>5, <1>7, <2>5, <2>6, <2>7 DEF DestroyRequests, r
<1>8. CASE row.status # "gone"
  <2>1. ~Destroys(p) /\ row \in LeaveRequestRow /\ row.status \in Statuses
    BY <1>3, <1>8, NoRowType DEF Destroys
  <2>2. row.approver \in Present(employee)
    BY <1>1, <1>8 DEF WarrantInv, Ready, Unsaved
  <2>3. \E kept : kept # {} /\ Write(p, row, kept)
    <3>1. CASE Insertion(p)
      BY <3>1 DEF Insertion
    <3>2. CASE Update(p)
      <4>1. Stored(r)
        <5>1. ~Creates(p)
          BY <3>2 DEF Update
        <5> QED BY <1>1, <1>2, <5>1 DEF SessionInv, Working, Creates, NoRow, Stored
      <4>2. Write(p, Merged(row, base, request[r]), (copies[r] \ session[p].seen) \cup {Copy(p)})
        BY <3>2, <4>1 DEF Update
      <4>3. Merged(row, base, base) = row
        BY <1>2, <2>1 DEF Merged, LeaveRequestRow
      <4> QED BY <1>2, <4>2, <4>3
    <3> QED BY <2>1, <3>1, <3>2 DEF Commit, Destruction
  <2>4. Save(r, row)
    BY <2>1, <2>2, <2>3 DEF Write, Save
  <2> QED BY <1>2, <1>4, <1>5, <1>8, <2>4
<1> QED BY <1>7, <1>8

LEMMA CurrentStep ==
    ASSUME SessionInv, WarrantInv, NEW p \in Processes, Commit(p), ~Outdated(p)
    PROVE  LET r == session[p].request IN
              \E a \in Employees : r \in Requests /\ (Handler(a, r) \/ CompletesApproval(r))
<1> DEFINE r == session[p].request
           row == Unsaved(p)
<1>1. /\ r \in Requests /\ request[r] = session[p].base
      /\ row.status # "gone" => Save(r, row)
      /\ row.status = "gone" => DestroyRequests({r}) /\ UNCHANGED employee
      /\ request[r] = NoRow("unused") => ValidOnCreate(row)
      /\ \E a \in Employees : Warranted(a, request[r], row)
  BY CurrentCommit
<1>2. EmployeeTypeOK /\ request[r] \in LeaveRequestRow
  BY <1>1 DEF SessionInv, SessionTypeOK
<1> HIDE DEF r, row
<1>3. \E a \in Employees : Handler(a, r) \/ CompletesApproval(r)
  BY <1>1, <1>2, WarrantedSave
<1> QED BY <1>1, <1>3 DEF r

\* Steps other than commits only touch the session of one process.
LEMMA OnlyCommitsWrite ==
    ASSUME SessionInv, [SessionNext]_sessionVars,
           \A p \in Processes : ~Commit(p)
    PROVE  UNCHANGED <<vars, copies, raced>>
<1>1. ASSUME NEW p \in Processes, NEW a \in Employees, NEW r \in Requests,
             LoadCreate(p, a, r) \/ Load(p, a, r)
      PROVE  UNCHANGED <<vars, copies, raced>>
  <2>1. \E base, saves : Open(p, r, base, saves)
    BY <1>1, OpenWarrants
  <2> QED BY <2>1 DEF Open
<1>2. ASSUME NEW p \in Processes, Begin(p) \/ Refuse(p) \/ Kill(p)
      PROVE  UNCHANGED <<vars, copies, raced>>
  BY <1>2 DEF Begin, Refuse, Kill
<1> QED BY <1>1, <1>2 DEF SessionNext, sessionVars

THEOREM WarrantInvariant == SessionSpec => []WarrantInv
  BY SessionInvariant, WarrantInitInv, WarrantNextInv, SessionNextInv, PTL DEF SessionSpec

\* However many processes serve the workflow, whatever they commit from
\* current data is what one process would have done.
THEOREM DeviationCorrect == SessionSpec => OnlyOutdatedDeviate
<1>1. ASSUME SessionInv, WarrantInv, [SessionNext]_sessionVars
      PROVE  \/ Next \/ UNCHANGED vars
             \/ \E r \in Requests : CompletesApproval(r)
             \/ \E p \in Processes : Commit(p) /\ Outdated(p)
  <2>1. ASSUME NEW p \in Processes, Commit(p), ~Outdated(p)
        PROVE  Next \/ \E r \in Requests : CompletesApproval(r)
    BY <1>1, <2>1, CurrentStep DEF Next
  <2>2. CASE \A p \in Processes : ~Commit(p)
    BY <1>1, <2>2, OnlyCommitsWrite
  <2> QED BY <2>1, <2>2
<1> QED BY <1>1, SessionInvariant, WarrantInvariant, PTL DEF SessionSpec, OnlyOutdatedDeviate

-----------------------------------------------------------------------------
(* Days counted for two requests.                                          *)

\* Only rows with warnings wait as NEW, unless they have been raced.
RacedInv ==
    /\ DoubleCountRaced
    /\ \A r \in Requests :
          request[r].status = "NEW" => request[r].violations # {} \/ r \in raced

\* The second half of an approval is a move like any other.
LEMMA CompletionMoves ==
    ASSUME NEW r \in Requests, request[r] \in LeaveRequestRow, CompletesApproval(r)
    PROVE  \E a \in Employees, row \in LeaveRequestRow :
              Save(r, row) /\ Moved(a, request[r], row)
<1>1. PICK a \in Employees : /\ request[r].status = "PENDING"
                             /\ request[r].leaveType \in ApprovalFree
                             /\ Save(r, Approved(request[r], a))
  BY DEF CompletesApproval
<1>2. request[r].overrides \in SUBSET Constraints /\ MayApprove(a, request[r])
  BY <1>1 DEF LeaveRequestRow, MayApprove
<1>3. Approved(Pending(request[r], request[r].overrides), a) = Approved(request[r], a)
  BY <1>1 DEF Approved, Pending, LeaveRequestRow
<1>4. Approved(request[r], a) \in LeaveRequestRow /\ Moved(a, request[r], Approved(request[r], a))
  BY <1>1, <1>2, <1>3, ApprovedRow
<1> QED BY <1>1, <1>4

LEMMA CurrentEffect ==
    ASSUME SessionInv, WarrantInv, NEW p \in Processes, Commit(p), ~Outdated(p)
    PROVE  LET r == session[p].request IN
              /\ r \in Requests
              /\ \/ \E a \in Employees, row \in LeaveRequestRow :
                       Save(r, row) /\ (Filed(a, r, row) \/ Moved(a, request[r], row))
                 \/ DestroyRequests({r})
<1> DEFINE r == session[p].request
<1>1. PICK a \in Employees : r \in Requests /\ (Handler(a, r) \/ CompletesApproval(r))
  BY CurrentStep
<1>2. EmployeeTypeOK /\ request[r] \in LeaveRequestRow
  BY <1>1 DEF SessionInv, SessionTypeOK
<1>3. CASE Handler(a, r)
  BY <1>1, <1>2, <1>3, HandlerEffect DEF Effect
<1>4. CASE CompletesApproval(r)
  BY <1>1, <1>2, <1>4, CompletionMoves
<1> QED BY <1>1, <1>3, <1>4

LEMMA RacedInitInv == SessionInit => RacedInv
  BY DEF SessionInit, Init, NoRow, RacedInv, DoubleCountRaced, ACTIVE_STATUSES

LEMMA CommitKeepsRaced ==
    ASSUME SessionInv, WarrantInv, RacedInv, NEW p \in Processes, Commit(p)
    PROVE  RacedInv'
<1> DEFINE r == session[p].request
<1>0. \A q \in Requests : request[q] \in LeaveRequestRow
  BY DEF SessionInv, SessionTypeOK
<1>1. PICK row : /\ r \in Requests /\ request' = [request EXCEPT ![r] = row]
                 /\ row \in LeaveRequestRow
  BY CommitCommits DEF Commits
<1>2. /\ request'[r] = row
      /\ \A q \in Requests \ {r} : request'[q] = request[q]
  BY <1>1 DEF SessionInv, SessionTypeOK
<1>3. /\ raced \subseteq raced'
      /\ Outdated(p) /\ request' # request => r \in raced'
  BY DEF Commit, Insertion, Update, Destruction, Write
<1> HIDE DEF r
<1>4. \/ r \in raced' \/ request' = request
      \/ row.status = "gone"
      \/ \E a \in Employees : Filed(a, r, row) \/ Moved(a, request[r], row)
  <2>1. ASSUME ~Outdated(p)
        PROVE  \/ \E a \in Employees, new \in LeaveRequestRow :
                     Save(r, new) /\ (Filed(a, r, new) \/ Moved(a, request[r], new))
               \/ DestroyRequests({r})
    BY <2>1, CurrentEffect DEF r
  <2>2. ASSUME DestroyRequests({r}) PROVE row.status = "gone"
    BY <1>1, <1>2, <2>2, NoRowType DEF DestroyRequests
  <2>3. ASSUME NEW new, Save(r, new) PROVE new = row
    BY <1>1, <1>2, <2>3 DEF Save, SessionInv, SessionTypeOK
  <2> QED BY <1>3, <2>1, <2>2, <2>3
<1>5. CASE r \in raced'
  BY <1>2, <1>3, <1>5 DEF RacedInv, DoubleCountRaced, Intersects, Returned
<1>6. CASE request' = request
  BY <1>3, <1>6 DEF RacedInv, DoubleCountRaced, Intersects, Returned
<1>7. CASE row.status = "gone"
  BY <1>2, <1>3, <1>7 DEF RacedInv, DoubleCountRaced, Intersects, Returned, ACTIVE_STATUSES
<1>8. ASSUME NEW a \in Employees, Filed(a, r, row) \/ Moved(a, request[r], row)
      PROVE  RacedInv'
  <2>1. ASSUME NEW s \in Requests \ {r},
               row.status \in ACTIVE_STATUSES, request[s].status \in ACTIVE_STATUSES,
               row.employee = request[s].employee,
               Intersects(row, request[s]) \/ Intersects(request[s], row)
        PROVE  Returned(row) \/ Returned(request[s]) \/ r \in raced \/ s \in raced
    <3> DEFINE excuse == r \in raced \/ s \in raced
    <3>1. request[r] \in LeaveRequestRow /\ request[s] \in LeaveRequestRow
      BY <1>0, <1>1
    <3>2. request[r].status = "NEW" => request[r].violations # {} \/ excuse
      BY <1>1 DEF RacedInv
    <3>3. /\ request[r].status \in ACTIVE_STATUSES
          /\ request[s].status \in ACTIVE_STATUSES
          /\ request[r].employee = request[s].employee
          /\ Intersects(request[r], request[s]) \/ Intersects(request[s], request[r])
          => Returned(request[r]) \/ Returned(request[s]) \/ excuse
      BY <1>1 DEF RacedInv, DoubleCountRaced
    <3>4. excuse \in BOOLEAN
      OBVIOUS
    <3> HIDE DEF excuse
    <3>5. Returned(row) \/ Returned(request[s]) \/ excuse
      BY <1>1, <1>8, <2>1, <3>1, <3>2, <3>3, <3>4, OverlapAfterSave
    <3> QED BY <3>5 DEF excuse
  <2>2. DoubleCountRaced'
    BY <1>1, <1>2, <1>3, <2>1 DEF RacedInv, DoubleCountRaced, Intersects, Returned
  <2>3. row.status = "NEW" => row.violations # {} \/ r \in raced
    BY <1>1, <1>8 DEF Filed, Moved, SameLeave, RacedInv
  <2> QED BY <1>2, <1>3, <2>2, <2>3 DEF RacedInv
<1> QED BY <1>4, <1>5, <1>6, <1>7, <1>8

THEOREM RacedInvariant == SessionSpec => []RacedInv
<1>1. ASSUME SessionInv, WarrantInv, RacedInv, [SessionNext]_sessionVars PROVE RacedInv'
  <2>1. CASE \A p \in Processes : ~Commit(p)
    <3>1. UNCHANGED <<request, raced>>
      BY <1>1, <2>1, OnlyCommitsWrite DEF vars
    <3> QED BY <1>1, <3>1 DEF RacedInv, DoubleCountRaced, Intersects, Returned
  <2> QED BY <1>1, <2>1, CommitKeepsRaced
<1> QED BY <1>1, RacedInitInv, SessionInvariant, WarrantInvariant, PTL DEF SessionSpec

\* However many processes serve the workflow, a day is counted for two
\* requests only for the reasons one process knows, or after a race.
THEOREM DoubleCountRacedCorrect == SessionSpec => []DoubleCountRaced
<1>1. RacedInv => DoubleCountRaced
  BY DEF RacedInv
<1> QED BY <1>1, RacedInvariant, PTL
=============================================================================
