----------------------- MODULE EmployeeAdmin_proofs -----------------------
(***************************************************************************)
(* Proofs about the employees table, for any staff and any forms: who the  *)
(* staff of a manager are, and that build_staff_list lists them.           *)
(***************************************************************************)
EXTENDS StaffList, FiniteSetTheorems, SequenceTheorems, TLAPS

USE NoneAssumption, AdminAssumption

-----------------------------------------------------------------------------

LEMMA EmployeeInitType == EmployeeInit => EmployeeTypeOK
BY DEF EmployeeInit, EmployeeTypeOK

LEMMA SaveFormType ==
    ASSUME EmployeeTypeOK, NEW form \in EmployeeForm, SaveForm(form)
    PROVE  EmployeeTypeOK' /\ Present(employee) \subseteq Present(employee')
<1> DEFINE row(act) == [row |-> "stored", active |-> act, role |-> form.role,
                        approver |-> form.approver]
<1>1. /\ form.who \in Employees /\ form.role \in Roles
      /\ form.approver \in Employees \cup {None} /\ form.active \in BOOLEAN
  BY DEF EmployeeForm
<1>2. \A act \in BOOLEAN : row(act) \in EmployeeRow /\ row(act).row = "stored"
  BY <1>1 DEF EmployeeRow
<1>3. employee' = [employee EXCEPT ![form.who] = row(form.active)]
  BY Zenon DEF SaveForm, SaveEmployee
<1> HIDE DEF row
<1> QED BY <1>1, <1>2, <1>3 DEF EmployeeTypeOK, Present

LEMMA EmployeeChangeType ==
    ASSUME EmployeeTypeOK, NEW a \in Employees, EmployeeChange(a)
    PROVE  EmployeeTypeOK' /\ Present(employee) \subseteq Present(employee')
<1>1. ASSUME NEW form \in Hires, CreateEmployee(a, form)
      PROVE  EmployeeTypeOK' /\ Present(employee) \subseteq Present(employee')
  BY <1>1, SaveFormType, Zenon DEF CreateEmployee
<1>2. ASSUME NEW form \in Edits, EditEmployee(a, form)
      PROVE  EmployeeTypeOK' /\ Present(employee) \subseteq Present(employee')
  BY <1>2, SaveFormType, Zenon DEF EditEmployee
<1>3. ASSUME NEW e \in Suspendable, NEW active \in BOOLEAN, SetActive(a, e, active)
      PROVE  EmployeeTypeOK' /\ Present(employee) \subseteq Present(employee')
  BY <1>3 DEF SetActive, SaveEmployee, EmployeeTypeOK, EmployeeRow, Present
<1> QED BY <1>1, <1>2, <1>3 DEF EmployeeChange

LEMMA DestroyEmployeeType ==
    ASSUME EmployeeTypeOK, NEW a \in Employees, NEW e \in Employees,
           DestroyEmployeeRow(a, e)
    PROVE  EmployeeTypeOK' /\ Present(employee') = Present(employee) \ {e}
BY DEF DestroyEmployeeRow, EmployeeTypeOK, EmployeeRow, NoEmployee, Present, Roles

\* Nobody comes back: the rows of a new table that are stored were stored or
\* never used, and an identity that was used stays used.
NobodyReturns ==
    \A e \in Employees :
        employee[e].row # "unused" =>
            /\ employee'[e].row # "unused"
            /\ e \in Present(employee') => e \in Present(employee)

LEMMA EmployeeChangeReturns ==
    ASSUME EmployeeTypeOK, NEW a \in Employees, EmployeeChange(a)
    PROVE  NobodyReturns
<1>1. ASSUME NEW who \in Employees, NEW row, row.row = "stored",
             employee[who].row \in {"unused", "stored"},
             employee' = [employee EXCEPT ![who] = row]
      PROVE  NobodyReturns
  BY <1>1 DEF EmployeeTypeOK, NobodyReturns, Present
<1>2. ASSUME NEW form \in EmployeeForm, SaveForm(form),
             employee[form.who].row \in {"unused", "stored"}
      PROVE  NobodyReturns
  <2> DEFINE row == [row |-> "stored", active |-> form.active, role |-> form.role,
                     approver |-> form.approver]
  <2>1. row.row = "stored" /\ form.who \in Employees
    BY DEF EmployeeForm
  <2>2. employee' = [employee EXCEPT ![form.who] = row]
    BY <1>2, Zenon DEF SaveForm, SaveEmployee
  <2> HIDE DEF row
  <2> QED BY <1>1, <1>2, <2>1, <2>2
<1>3. ASSUME NEW form \in Hires, CreateEmployee(a, form)
      PROVE  NobodyReturns
  BY <1>2, <1>3 DEF CreateEmployee
<1>4. ASSUME NEW form \in Edits, EditEmployee(a, form)
      PROVE  NobodyReturns
  BY <1>2, <1>4 DEF EditEmployee, Present
<1>5. ASSUME NEW e \in Suspendable, NEW active \in BOOLEAN, SetActive(a, e, active)
      PROVE  NobodyReturns
  <2> DEFINE row == [employee[e] EXCEPT !.active = active]
  <2>1. row.row = "stored" /\ e \in Employees /\ employee[e].row = "stored"
    BY <1>5 DEF SetActive, Present, EmployeeTypeOK, EmployeeRow
  <2>2. employee' = [employee EXCEPT ![e] = row]
    BY <1>5, Zenon DEF SetActive, SaveEmployee
  <2> HIDE DEF row
  <2> QED BY <1>1, <2>1, <2>2
<1> QED BY <1>3, <1>4, <1>5 DEF EmployeeChange

LEMMA DestroyEmployeeReturns ==
    ASSUME EmployeeTypeOK, NEW a \in Employees, NEW e \in Employees,
           DestroyEmployeeRow(a, e)
    PROVE  NobodyReturns
BY DEF DestroyEmployeeRow, EmployeeTypeOK, NoEmployee, Present, NobodyReturns

-----------------------------------------------------------------------------
(* The hierarchy, and chains of approvers.                                 *)

\* c is a chain of n approvers that leads up to m.
IsChain(emp, c, n, m) ==
    /\ c \in [1 .. n -> Employees]
    /\ \A i \in 1 .. n :
          /\ c[i] \in Present(emp)
          /\ emp[c[i]].approver = IF i < n THEN c[i + 1] ELSE m
    /\ \A i \in 2 .. n : c[i] # m /\ emp[c[i]].role # "employee"

\* There is a chain of n from e to m.
HasChain(emp, e, n, m) ==
    \E c \in [1 .. n -> Employees] : IsChain(emp, c, n, m) /\ c[1] = e

LEMMA ReportsByChain ==
    ASSUME NEW emp, NEW e \in Employees, NEW m
    PROVE  ReportsTo(emp, e, m)
             <=> \E n \in 1 .. Cardinality(Employees) : HasChain(emp, e, n, m)
<1>1. ASSUME NEW n \in 1 .. Cardinality(Employees), NEW c \in [1 .. n -> Employees]
      PROVE  IsChain(emp, c, n, m)
               <=> /\ \A i \in DOMAIN c :
                         /\ c[i] \in Present(emp)
                         /\ emp[c[i]].approver = IF i + 1 \in DOMAIN c THEN c[i + 1] ELSE m
                   /\ \A i \in DOMAIN c \ {1} : c[i] # m /\ emp[c[i]].role # "employee"
  <2>1. Cardinality(Employees) \in Nat
    BY EmployeesAssumption, FS_CardinalityType
  <2>2. n \in Nat /\ DOMAIN c = 1 .. n
    BY <2>1
  <2>3. \A i \in 1 .. n : i + 1 \in 1 .. n <=> i < n
    BY <2>2
  <2>4. (1 .. n) \ {1} = 2 .. n
    BY <2>2
  <2> QED BY <2>2, <2>3, <2>4 DEF IsChain
<1>2. ASSUME ReportsTo(emp, e, m)
      PROVE  \E n \in 1 .. Cardinality(Employees) : HasChain(emp, e, n, m)
  <2>1. PICK c \in Chains :
           /\ c[1] = e
           /\ \A i \in DOMAIN c :
                 /\ c[i] \in Present(emp)
                 /\ emp[c[i]].approver = IF i + 1 \in DOMAIN c THEN c[i + 1] ELSE m
           /\ \A i \in DOMAIN c \ {1} : c[i] # m /\ emp[c[i]].role # "employee"
    BY <1>2 DEF ReportsTo
  <2>2. PICK n \in 1 .. Cardinality(Employees) : c \in [1 .. n -> Employees]
    BY DEF Chains
  <2> QED BY <1>1, <2>1, <2>2 DEF HasChain
<1>3. ASSUME NEW n \in 1 .. Cardinality(Employees), NEW c \in [1 .. n -> Employees],
             IsChain(emp, c, n, m), c[1] = e
      PROVE  ReportsTo(emp, e, m)
  <2>1. c \in Chains
    BY DEF Chains
  <2> QED BY <1>1, <1>3, <2>1 DEF ReportsTo
<1> QED BY <1>2, <1>3 DEF HasChain

LEMMA LeastNatural ==
    ASSUME NEW S \in SUBSET Nat, S # {}
    PROVE  \E k \in S : \A l \in S : k <= l
<1>1. PICK k \in S : \A l \in S : <<l, k>> \notin OpToRel(<, Nat)
  BY Zenon, NatLessThanWellFounded, WFMin
<1>2. \A l \in S : ~(l < k)
  BY <1>1 DEF OpToRel
<1> QED BY <1>2

\* Nobody occurs twice in a chain: the chain would lead from his second
\* occurrence on as it does from the first, and never reach m.
LEMMA ChainInjective ==
    ASSUME NEW emp, NEW m, NEW n \in Nat, NEW c, IsChain(emp, c, n, m),
           NEW i \in 1 .. n, NEW j \in 1 .. n, i < j, c[i] = c[j]
    PROVE  FALSE
<1> DEFINE Rest == {k \in Nat : k <= n - j /\ c[n - k] = c[n - k - (j - i)]}
<1>1. n - j \in Rest
  OBVIOUS
<1>2. PICK k \in Rest : \A l \in Rest : k <= l
  <2>1. Rest \in SUBSET Nat /\ Rest # {}
    BY <1>1
  <2> HIDE DEF Rest
  <2> QED BY <2>1, LeastNatural
<1> DEFINE a == n - k - (j - i)
           b == n - k
<1>3. /\ a \in 1 .. n /\ b \in 1 .. n /\ a < b /\ c[a] = c[b]
      /\ k \in Nat /\ k <= n - j
  BY <1>2
<1>4. emp[c[a]].approver = c[a + 1] /\ a + 1 \in 2 .. n
  BY <1>3 DEF IsChain
<1>5. CASE k = 0
  <2>1. b = n
    BY <1>5
  <2>2. emp[c[b]].approver = m
    BY <1>3, <2>1 DEF IsChain
  <2> HIDE DEF a, b
  <2> QED BY <1>3, <1>4, <2>2 DEF IsChain
<1>6. CASE k > 0
  <2>1. emp[c[b]].approver = c[b + 1]
    BY <1>3, <1>6 DEF IsChain
  <2>2. c[b + 1] = c[a + 1]
    <3> HIDE DEF a, b
    <3> QED BY <1>3, <1>4, <2>1
  <2>3. k - 1 \in Nat /\ n - (k - 1) = b + 1 /\ n - (k - 1) - (j - i) = a + 1
    BY <1>3, <1>6
  <2>4. k - 1 \in Rest
    <3>1. k - 1 <= n - j
      BY <1>3
    <3> QED BY <2>2, <2>3, <3>1
  <2> QED BY <1>2, <1>3, <2>4
<1> QED BY <1>3, <1>5, <1>6

LEMMA ChainLength ==
    ASSUME NEW emp, NEW m, NEW n \in Nat, NEW c, IsChain(emp, c, n, m)
    PROVE  n <= Cardinality(Employees)
<1>1. c \in [1 .. n -> Employees]
  BY DEF IsChain
<1>2. IsFiniteSet(1 .. n) /\ Cardinality(1 .. n) = n
  BY FS_Interval
<1>3. Cardinality(Employees) \in Nat
  BY EmployeesAssumption, FS_CardinalityType
<1>4. ASSUME Cardinality(Employees) < n
      PROVE  FALSE
  <2>1. PICK i, j \in 1 .. n : i # j /\ c[i] = c[j]
    BY <1>1, <1>2, <1>4, EmployeesAssumption, FS_PigeonHole
  <2>2. i < j \/ j < i
    BY <2>1
  <2> QED BY <2>1, <2>2, ChainInjective
<1> QED BY <1>3, <1>4

\* Who reports to m is in every set that the recursion closes: going down
\* from m, the first member of a chain that is not has an approver that is.
LEMMA ChainInClosed ==
    ASSUME NEW emp, NEW m, NEW n \in Nat, NEW c, IsChain(emp, c, n, m),
           NEW S, ClosedUnderStaff(emp, m, S), NEW i \in 1 .. n
    PROVE  c[i] \in S
<1> DEFINE Outside == {k \in Nat : k < n /\ c[n - k] \notin S}
<1>1. ASSUME Outside # {}
      PROVE  FALSE
  <2>1. PICK k \in Outside : \A l \in Outside : k <= l
    <3>1. Outside \in SUBSET Nat
      OBVIOUS
    <3> HIDE DEF Outside
    <3> QED BY <1>1, <3>1, LeastNatural
  <2>2. k \in Nat /\ n - k \in 1 .. n /\ c[n - k] \notin S
    BY <2>1
  <2>3. c[n - k] \in Present(emp)
    BY <2>2 DEF IsChain
  <2>4. CASE k = 0
    <3>1. emp[c[n - k]].approver = m
      BY <2>2, <2>4 DEF IsChain
    <3> QED BY <2>2, <2>3, <3>1 DEF ClosedUnderStaff, DirectStaff
  <2>5. CASE k > 0
    <3> DEFINE up == c[n - k + 1]
    <3>1. n - k + 1 \in 2 .. n
      BY <2>2, <2>5
    <3>2. emp[c[n - k]].approver = up
      BY <2>2, <2>5 DEF IsChain
    <3>3. up # m /\ emp[up].role # "employee"
      BY <3>1 DEF IsChain
    <3>4. up \in S
      <4>1. k - 1 \in Nat /\ k - 1 < n /\ n - (k - 1) = n - k + 1 /\ ~(k <= k - 1)
        BY <2>2, <2>5
      <4>2. k - 1 \notin Outside
        BY <2>1, <4>1
      <4> QED BY <4>1, <4>2
    <3> HIDE DEF up
    <3> QED BY <2>2, <2>3, <3>2, <3>3, <3>4 DEF ClosedUnderStaff, DirectStaff
  <2> QED BY <2>2, <2>4, <2>5
<1>2. n - i \in Nat /\ n - i < n /\ n - (n - i) = i
  OBVIOUS
<1>3. n - i \notin Outside
  BY <1>1
<1> QED BY <1>2, <1>3

\* Somebody on the staff of the first of a chain has a chain one longer.
LEMMA ChainExtends ==
    ASSUME NEW emp, NEW m, NEW n \in Nat \ {0}, NEW c, IsChain(emp, c, n, m),
           c[1] # m, emp[c[1]].role # "employee", NEW d \in DirectStaff(emp, c[1])
    PROVE  HasChain(emp, d, n + 1, m)
<1> DEFINE longer == [i \in 1 .. n + 1 |-> IF i = 1 THEN d ELSE c[i - 1]]
           e == c[1]
<1>2. c \in [1 .. n -> Employees]
  BY DEF IsChain
<1>4. d \in Employees /\ d \in Present(emp) /\ emp[d].approver = e
  BY DEF DirectStaff, Present
<1>5. /\ longer \in [1 .. n + 1 -> Employees] /\ longer[1] = d
      /\ \A i \in 2 .. n + 1 : longer[i] = c[i - 1] /\ i - 1 \in 1 .. n
  BY <1>2, <1>4
<1> HIDE DEF longer
<1>6. ASSUME NEW i \in 1 .. n + 1
      PROVE  /\ longer[i] \in Present(emp)
             /\ emp[longer[i]].approver = IF i < n + 1 THEN longer[i + 1] ELSE m
  <2>1. CASE i = 1
    <3>1. longer[i + 1] = e /\ i < n + 1
      BY <1>5, <2>1
    <3> QED BY <1>4, <1>5, <2>1, <3>1
  <2>2. CASE i \in 2 .. n
    <3>1. longer[i] = c[i - 1] /\ longer[i + 1] = c[i] /\ i - 1 \in 1 .. n /\ i - 1 < n
      BY <1>5, <2>2
    <3>2. c[i - 1] \in Present(emp) /\ emp[c[i - 1]].approver = c[i]
      BY <2>2, <3>1 DEF IsChain
    <3> QED BY <2>2, <3>1, <3>2
  <2>3. CASE i = n + 1
    <3>1. longer[i] = c[n] /\ n \in 1 .. n
      BY <1>5, <2>3
    <3>2. c[n] \in Present(emp) /\ emp[c[n]].approver = m
      BY <3>1 DEF IsChain
    <3> QED BY <2>3, <3>1, <3>2
  <2> QED BY <2>1, <2>2, <2>3
<1>7. ASSUME NEW i \in 2 .. n + 1
      PROVE  longer[i] # m /\ emp[longer[i]].role # "employee"
  <2>1. longer[i] = c[i - 1] /\ (i = 2 \/ i - 1 \in 2 .. n)
    BY <1>5
  <2> QED BY <2>1 DEF IsChain
<1> QED BY <1>5, <1>6, <1>7 DEF IsChain, HasChain

\* The recursion closes the set of those who report to m.
LEMMA ReportsClosed ==
    ASSUME NEW emp, NEW m
    PROVE  ClosedUnderStaff(emp, m, {e \in Employees : ReportsTo(emp, e, m)})
<1> DEFINE R == {e \in Employees : ReportsTo(emp, e, m)}
<1>0. Cardinality(Employees) \in Nat
  BY EmployeesAssumption, FS_CardinalityType
<1>1. ASSUME NEW d \in DirectStaff(emp, m)
      PROVE  d \in R
  <2> DEFINE c == [i \in 1 .. 1 |-> d]
  <2>1. d \in Employees /\ d \in Present(emp) /\ emp[d].approver = m
    BY DEF DirectStaff, Present
  <2>2. IsChain(emp, c, 1, m)
    BY <2>1 DEF IsChain
  <2>3. 1 \in 1 .. Cardinality(Employees)
    BY <1>0, <2>2, ChainLength
  <2>4. c \in [1 .. 1 -> Employees] /\ c[1] = d
    BY <2>1
  <2> HIDE DEF c
  <2>5. HasChain(emp, d, 1, m)
    BY <2>2, <2>4 DEF HasChain
  <2> QED BY <2>1, <2>3, <2>5, ReportsByChain
<1>2. ASSUME NEW e \in R \ {m}, emp[e].role # "employee", NEW d \in DirectStaff(emp, e)
      PROVE  d \in R
  <2>1. PICK n \in 1 .. Cardinality(Employees) : HasChain(emp, e, n, m)
    BY ReportsByChain
  <2>2. PICK c \in [1 .. n -> Employees] : IsChain(emp, c, n, m) /\ c[1] = e
    BY <2>1 DEF HasChain
  <2>3. n \in Nat \ {0} /\ n + 1 \in Nat
    BY <1>0
  <2>4. d \in Employees
    BY DEF DirectStaff, Present
  <2>5. c[1] # m /\ emp[c[1]].role # "employee" /\ d \in DirectStaff(emp, c[1])
    BY <1>2, <2>2
  <2>6. HasChain(emp, d, n + 1, m)
    BY <2>2, <2>3, <2>5, ChainExtends
  <2>7. n + 1 <= Cardinality(Employees)
    BY <2>3, <2>6, ChainLength DEF HasChain
  <2>8. n + 1 \in 1 .. Cardinality(Employees)
    BY <1>0, <2>3, <2>7
  <2> QED BY <2>4, <2>6, <2>8, ReportsByChain
<1> HIDE DEF R
<1>3. ClosedUnderStaff(emp, m, R)
  BY <1>1, <1>2 DEF ClosedUnderStaff
<1> QED BY <1>3 DEF R

LEMMA HierarchyIsReports ==
    ASSUME NEW emp, NEW m
    PROVE  Hierarchy(emp, m) = {e \in Employees : ReportsTo(emp, e, m)}
<1> DEFINE R == {e \in Employees : ReportsTo(emp, e, m)}
<1>1. R \subseteq Present(emp)
  BY DEF ReportsTo, Chains
<1>2. ASSUME NEW e \in Hierarchy(emp, m)
      PROVE  e \in R
  BY <1>1, ReportsClosed DEF Hierarchy
<1>3. ASSUME NEW e \in R, NEW S \in SUBSET Present(emp), ClosedUnderStaff(emp, m, S)
      PROVE  e \in S
  <2>1. Cardinality(Employees) \in Nat
    BY EmployeesAssumption, FS_CardinalityType
  <2>2. PICK n \in 1 .. Cardinality(Employees) : HasChain(emp, e, n, m)
    BY ReportsByChain
  <2>3. PICK c \in [1 .. n -> Employees] : IsChain(emp, c, n, m) /\ c[1] = e
    BY <2>2 DEF HasChain
  <2>4. n \in Nat /\ 1 \in 1 .. n
    BY <2>1
  <2> QED BY <1>3, <2>3, <2>4, ChainInClosed
<1> QED BY <1>1, <1>2, <1>3 DEF Hierarchy

(***************************************************************************)
(* The staff of a manager are those whose chain of approvers leads up to   *)
(* him through people with staff: for any number of employees and any      *)
(* graph of approvers, loops and approvers that were deleted included.     *)
(***************************************************************************)
THEOREM StaffCorrect == EmployeeSpec => []StaffReportUp
<1>1. StaffReportUp
  BY HierarchyIsReports DEF StaffReportUp, StaffOf
<1> QED BY <1>1, PTL

LEMMA EmployeeTypeInvariant == EmployeeSpec => []EmployeeTypeOK
<1>1. EmployeeTypeOK /\ [EmployeeNext]_employee => EmployeeTypeOK'
  <2>1. ASSUME EmployeeTypeOK, UNCHANGED employee
        PROVE  EmployeeTypeOK'
    BY <2>1 DEF EmployeeTypeOK
  <2> QED BY <2>1, EmployeeChangeType, DestroyEmployeeType DEF EmployeeNext
<1> QED BY <1>1, EmployeeInitType, PTL DEF EmployeeSpec

\* What the recursion finds below m is closed for whoever it went through.
LEMMA HierarchyClosedBelow ==
    ASSUME NEW emp, NEW m, NEW e \in Hierarchy(emp, m), emp[e].role # "employee"
    PROVE  ClosedUnderStaff(emp, e, Hierarchy(emp, m))
<1> DEFINE H == Hierarchy(emp, m)
<1>1. ClosedUnderStaff(emp, m, H)
  BY HierarchyIsReports, ReportsClosed
<1> HIDE DEF H
<1>2. e \in H
  BY DEF H
<1>3. DirectStaff(emp, m) \subseteq H
  BY <1>1 DEF ClosedUnderStaff
<1>4. DirectStaff(emp, e) \subseteq H
  BY <1>1, <1>2, <1>3 DEF ClosedUnderStaff
<1>5. ASSUME NEW x \in H \ {e}, emp[x].role # "employee"
      PROVE  DirectStaff(emp, x) \subseteq H
  BY <1>1, <1>3, <1>5 DEF ClosedUnderStaff
<1>6. ClosedUnderStaff(emp, e, H)
  BY <1>4, <1>5 DEF ClosedUnderStaff
<1> QED BY <1>6 DEF H

(***************************************************************************)
(* The staff of a manager's staff are staff of the manager, in any graph   *)
(* of approvers: a list that stops at somebody lower down, or in another   *)
(* place of a loop, holds nobody whom the list of the manager misses.      *)
(***************************************************************************)
THEOREM AuthorityNests == EmployeeSpec => []StaffNests
<1>1. ASSUME EmployeeTypeOK, NEW m \in Present(employee), employee[m].role = "manager",
             NEW e \in StaffOf(employee, m), employee[e].role # "admin"
      PROVE  StaffOf(employee, e) \subseteq StaffOf(employee, m)
  <2> DEFINE H == Hierarchy(employee, m)
  <2>1. StaffOf(employee, m) = H
    BY <1>1 DEF StaffOf
  <2>2. H \subseteq Present(employee)
    BY DEF Hierarchy
  <2>3. CASE employee[e].role = "employee"
    BY <2>3 DEF StaffOf
  <2>4. CASE employee[e].role = "manager"
    <3>1. ClosedUnderStaff(employee, e, H)
      BY <1>1, <2>1, <2>4, HierarchyClosedBelow
    <3>2. StaffOf(employee, e) = Hierarchy(employee, e)
      BY <2>4 DEF StaffOf
    <3>3. Hierarchy(employee, e) \subseteq H
      <4> HIDE DEF H
      <4> QED BY <2>2, <3>1 DEF Hierarchy
    <3> QED BY <2>1, <3>2, <3>3
  <2>5. CASE employee[e].role = "approver"
    <3>1. ClosedUnderStaff(employee, e, H)
      BY <1>1, <2>1, <2>5, HierarchyClosedBelow
    <3> QED BY <2>1, <2>5, <3>1 DEF StaffOf, ClosedUnderStaff
  <2>6. employee[e].role \in Roles
    <3>1. e \in Employees
      BY <2>1, <2>2 DEF Present
    <3> QED BY <1>1, <3>1 DEF EmployeeTypeOK, EmployeeRow
  <2> QED BY <1>1, <2>3, <2>4, <2>5, <2>6 DEF Roles
<1>2. EmployeeTypeOK => StaffNests
  BY <1>1 DEF StaffNests
<1> QED BY <1>2, EmployeeTypeInvariant, PTL

-----------------------------------------------------------------------------
(* Folds over sequences. *)

\* The largest of a set of numbers up to n.
LEMMA LargestOf ==
    ASSUME NEW n \in Nat, NEW S \in SUBSET (1 .. n), S # {}
    PROVE  Max(S) \in S /\ \A x \in S : x <= Max(S)
<1> DEFINE Below == {k \in Nat : k <= n /\ n - k \in S}
<1>1. Below # {}
  <2>1. PICK x \in S : TRUE
    OBVIOUS
  <2>2. n - x \in Nat /\ n - x <= n /\ n - (n - x) = x
    OBVIOUS
  <2> QED BY <2>2
<1>2. PICK k \in Below : \A l \in Below : k <= l
  <2>1. Below \in SUBSET Nat
    OBVIOUS
  <2> HIDE DEF Below
  <2> QED BY <1>1, <2>1, LeastNatural
<1>3. ASSUME NEW y \in S
      PROVE  n - k >= y
  <2>1. n - y \in Nat /\ n - y <= n /\ n - (n - y) = y
    OBVIOUS
  <2>2. n - y \in Below
    BY <2>1
  <2>3. k <= n - y
    BY <1>2, <2>2
  <2> QED BY <1>2, <2>1, <2>3
<1>4. n - k \in S
  BY <1>2
<1>5. \E x \in S : \A y \in S : x >= y
  BY <1>3, <1>4
<1>6. Max(S) \in S /\ \A y \in S : Max(S) >= y
  BY <1>5 DEF Max
<1> QED BY <1>6

LEMMA LargestOfSegment ==
    ASSUME NEW n \in Nat, NEW k \in 1 .. n
    PROVE  Max(1 .. k) = k /\ (1 .. k) \ {k} = 1 .. (k - 1)
<1>1. 1 .. k \in SUBSET (1 .. n) /\ k \in 1 .. k /\ 1 .. k # {}
  OBVIOUS
<1>2. Max(1 .. k) \in 1 .. k /\ k <= Max(1 .. k)
  BY <1>1, LargestOf
<1> QED BY <1>2

\* f[s] is the result of the steps of s, the last one outermost.
IsFold(f, n, base, step) ==
    \A s \in SUBSET (1 .. n) :
        f[s] = IF s = {} THEN base ELSE step[Max(s)][f[s \ {Max(s)}]]

\* Every fold over 1 .. n is well defined.
LEMMA FoldExists ==
    ASSUME NEW n \in Nat, NEW D, NEW base \in D, NEW step \in [1 .. n -> [D -> D]]
    PROVE  \E f \in [SUBSET (1 .. n) -> D] : IsFold(f, n, base, step)
<1> DEFINE Body(f, s) == IF s = {} THEN base ELSE step[Max(s)][f[s \ {Max(s)}]]
           Small(k) == {s \in SUBSET (1 .. n) : Cardinality(s) <= k}
           Fits(f, k) == \A s \in Small(k) : f[s] = Body(f, s)
           Bad == {k \in Nat : ~ \E f \in [SUBSET (1 .. n) -> D] : Fits(f, k)}
<1>1. \A s \in SUBSET (1 .. n) : IsFiniteSet(s) /\ Cardinality(s) \in Nat
  <2>1. IsFiniteSet(1 .. n)
    BY FS_Interval
  <2> QED BY <2>1, FS_Subset, FS_CardinalityType
<1>2. ASSUME NEW s \in SUBSET (1 .. n), s # {}
      PROVE  /\ s \ {Max(s)} \in SUBSET (1 .. n) /\ Max(s) \in 1 .. n
             /\ Cardinality(s \ {Max(s)}) = Cardinality(s) - 1
  <2>1. Max(s) \in s
    BY <1>2, LargestOf
  <2> QED BY <1>1, <2>1, FS_RemoveElement
<1>3. ASSUME NEW f \in [SUBSET (1 .. n) -> D]
      PROVE  [s \in SUBSET (1 .. n) |-> Body(f, s)] \in [SUBSET (1 .. n) -> D]
  <2>1. ASSUME NEW s \in SUBSET (1 .. n)
        PROVE  Body(f, s) \in D
    <3>1. CASE s = {}
      BY <3>1
    <3>2. CASE s # {}
      <4>1. step[Max(s)] \in [D -> D] /\ f[s \ {Max(s)}] \in D
        BY <1>2, <3>2
      <4> QED BY <3>2, <4>1
    <3> QED BY <3>1, <3>2
  <2> QED BY <2>1
<1>4. ASSUME NEW k \in Nat, NEW f \in [SUBSET (1 .. n) -> D], Fits(f, k)
      PROVE  Fits([s \in SUBSET (1 .. n) |-> Body(f, s)], k + 1)
  <2> DEFINE g == [s \in SUBSET (1 .. n) |-> Body(f, s)]
  <2>1. ASSUME NEW s \in Small(k + 1)
        PROVE  g[s] = Body(g, s)
    <3>1. s \in SUBSET (1 .. n) /\ Cardinality(s) <= k + 1 /\ g[s] = Body(f, s)
      OBVIOUS
    <3>2. CASE s = {}
      BY <3>1, <3>2
    <3>3. CASE s # {}
      <4> DEFINE r == s \ {Max(s)}
      <4>1. r \in SUBSET (1 .. n) /\ Cardinality(r) <= k
        <5>1. /\ s \ {Max(s)} \in SUBSET (1 .. n)
              /\ Cardinality(s \ {Max(s)}) = Cardinality(s) - 1
              /\ Cardinality(s) \in Nat
          BY <1>1, <1>2, <3>1, <3>3
        <5> QED BY <3>1, <5>1
      <4>2. g[r] = f[r]
        BY <1>4, <4>1
      <4>3. Body(f, s) = step[Max(s)][f[r]] /\ Body(g, s) = step[Max(s)][g[r]]
        BY <3>3
      <4> HIDE DEF g, r, Body
      <4> QED BY <3>1, <4>2, <4>3
    <3> QED BY <3>2, <3>3
  <2> HIDE DEF g, Body
  <2> QED BY <2>1 DEF g
<1>5. \E f \in [SUBSET (1 .. n) -> D] : Fits(f, 0)
  <2> DEFINE f == [s \in SUBSET (1 .. n) |-> base]
  <2>1. f \in [SUBSET (1 .. n) -> D]
    OBVIOUS
  <2>2. \A s \in Small(0) : s = {}
    <3>1. ASSUME NEW s \in Small(0), s # {}
          PROVE  FALSE
      <4>1. Cardinality(s) \in Nat /\ Cardinality(s) <= 0 /\ s \in SUBSET (1 .. n)
        BY <1>1
      <4>2. Cardinality(s \ {Max(s)}) = Cardinality(s) - 1 /\ s \ {Max(s)} \in SUBSET (1 .. n)
        BY <1>2, <3>1
      <4>3. Cardinality(s \ {Max(s)}) \in Nat
        BY <1>1, <4>2
      <4> QED BY <4>1, <4>2, <4>3
    <3> QED BY <3>1
  <2>3. Fits(f, 0)
    BY <2>2
  <2> QED BY <2>1, <2>3
<1>6. ASSUME Bad # {}
      PROVE  FALSE
  <2> HIDE DEF Fits
  <2>1. PICK k \in Bad : \A l \in Bad : k <= l
    <3>1. Bad \in SUBSET Nat
      OBVIOUS
    <3> HIDE DEF Bad
    <3> QED BY <1>6, <3>1, LeastNatural
  <2>2. k \in Nat /\ ~ \E f \in [SUBSET (1 .. n) -> D] : Fits(f, k)
    BY <2>1
  <2>3. k # 0
    BY <1>5, <2>2, Zenon
  <2>4. k - 1 \in Nat /\ ~(k <= k - 1) /\ (k - 1) + 1 = k
    BY <2>2, <2>3
  <2>5. PICK f \in [SUBSET (1 .. n) -> D] : Fits(f, k - 1)
    BY <2>1, <2>4
  <2> DEFINE g == [s \in SUBSET (1 .. n) |-> Body(f, s)]
  <2>6. g \in [SUBSET (1 .. n) -> D]
    BY <1>3
  <2> HIDE DEF Body
  <2>7. Fits(g, (k - 1) + 1)
    BY <1>4, <2>4, <2>5
  <2> HIDE DEF g
  <2>8. Fits(g, k)
    BY <2>4, <2>7
  <2> QED BY <2>2, <2>6, <2>8
<1>7. PICK f \in [SUBSET (1 .. n) -> D] : Fits(f, n)
  BY <1>6
<1>8. \A s \in SUBSET (1 .. n) : s \in Small(n)
  <2>1. Cardinality(1 .. n) = n /\ IsFiniteSet(1 .. n)
    BY FS_Interval
  <2>2. ASSUME NEW s \in SUBSET (1 .. n)
        PROVE  Cardinality(s) <= n
    <3>1. Cardinality(s) <= Cardinality(1 .. n)
      BY <2>1, FS_Subset
    <3> QED BY <2>1, <3>1
  <2> QED BY <2>2
<1> QED BY <1>7, <1>8 DEF IsFold

\* iter[1 .. k] is the result of the first k steps.
Unrolls(iter, n, D, base, step) ==
    /\ iter[{}] = base
    /\ \A k \in 1 .. n : iter[1 .. (k - 1)] \in D
                           => iter[1 .. k] = step[k][iter[1 .. (k - 1)]]

LEMMA FoldUpTo ==
    ASSUME NEW n \in Nat, NEW D, NEW base \in D, NEW step \in [1 .. n -> [D -> D]],
           NEW iter, Unrolls(iter, n, D, base, step)
    PROVE  \A k \in 0 .. n : iter[1 .. k] \in D
<1> DEFINE Bad == {k \in 0 .. n : iter[1 .. k] \notin D}
<1>1. ASSUME Bad # {}
      PROVE  FALSE
  <2>1. PICK k \in Bad : \A l \in Bad : k <= l
    <3>1. Bad \in SUBSET Nat
      OBVIOUS
    <3> HIDE DEF Bad
    <3> QED BY <1>1, <3>1, LeastNatural
  <2>2. k \in 0 .. n /\ iter[1 .. k] \notin D
    BY <2>1
  <2>3. CASE k = 0
    <3>1. 1 .. k = {}
      BY <2>3
    <3> QED BY <2>2, <3>1 DEF Unrolls
  <2>4. CASE k # 0
    <3>1. k \in 1 .. n /\ k - 1 \in 0 .. n /\ ~(k <= k - 1)
      BY <2>2, <2>4
    <3>2. k - 1 \notin Bad
      BY <2>1, <3>1
    <3>3. iter[1 .. (k - 1)] \in D
      BY <3>1, <3>2
    <3>4. step[k] \in [D -> D]
      BY <3>1
    <3>5. step[k][iter[1 .. (k - 1)]] \in D
      BY <3>3, <3>4
    <3>6. iter[1 .. k] = step[k][iter[1 .. (k - 1)]]
      BY <3>1, <3>3 DEF Unrolls
    <3> QED BY <2>2, <3>5, <3>6
  <2> QED BY <2>3, <2>4
<1> QED BY <1>1

-----------------------------------------------------------------------------
(* The lists that the recursion builds. *)

\* g[k] is the list after the first k of the elements to append.
Appending(g, staff, more) ==
    /\ g[0] = staff
    /\ \A k \in 1 .. Len(more) :
          g[k] = IF more[k] \in ToSet(g[k - 1]) THEN g[k - 1] ELSE Append(g[k - 1], more[k])
    /\ AppendMissing(staff, more) = g[Len(more)]

LEMMA AppendMissingFold ==
    ASSUME NEW E, NEW staff \in Seq(E), NEW more \in Seq(E)
    PROVE  \E g \in [0 .. Len(more) -> Seq(E)] : Appending(g, staff, more)
<1> DEFINE n == Len(more)
           D == Seq(E)
           Add(s, e) == IF e \in ToSet(s) THEN s ELSE Append(s, e)
           step == [i \in 1 .. n |-> [s \in D |-> Add(s, more[i])]]
           Body(f) == [s \in SUBSET DOMAIN more |->
                          IF s = {} THEN staff ELSE Add(f[s \ {Max(s)}], more[Max(s)])]
           iter == CHOOSE f : f = Body(f)
<1>1. n \in Nat /\ DOMAIN more = 1 .. n /\ \A i \in 1 .. n : more[i] \in E
  OBVIOUS
<1>2. \A s \in D, e \in E : Add(s, e) \in D
  OBVIOUS
<1>3. step \in [1 .. n -> [D -> D]]
  <2> HIDE DEF Add, D, n
  <2> QED BY <1>1, <1>2
<1>4. \A s \in SUBSET (1 .. n) : s # {} => Max(s) \in 1 .. n
  BY <1>1, LargestOf
<1>5. iter = Body(iter)
  <2>1. PICK f \in [SUBSET (1 .. n) -> D] : IsFold(f, n, staff, step)
    <3>1. n \in Nat /\ staff \in D /\ step \in [1 .. n -> [D -> D]]
      BY <1>1, <1>3
    <3> HIDE DEF step, D, n
    <3> QED BY <3>1, FoldExists
  <2>2. ASSUME NEW s \in SUBSET (1 .. n)
        PROVE  f[s] = IF s = {} THEN staff ELSE Add(f[s \ {Max(s)}], more[Max(s)])
    <3>1. CASE s # {}
      <4>1. f[s \ {Max(s)}] \in D /\ Max(s) \in 1 .. n
        BY <1>4, <3>1
      <4>2. step[Max(s)][f[s \ {Max(s)}]] = Add(f[s \ {Max(s)}], more[Max(s)])
        <5> HIDE DEF Add, D
        <5> QED BY <4>1
      <4> HIDE DEF Add, D, step, n
      <4> QED BY <2>1, <3>1, <4>2 DEF IsFold
    <3>2. CASE s = {}
      BY <2>1, <3>2 DEF IsFold
    <3> QED BY <3>1, <3>2
  <2>3. f = Body(f)
    <3> HIDE DEF Add, D
    <3> QED BY <1>1, <2>2
  <2> HIDE DEF Body
  <2> QED BY <2>3
<1>6. AppendMissing(staff, more) = iter[DOMAIN more]
  BY DEF AppendMissing, FoldLeft, MapThenFoldSet
<1> HIDE DEF iter
<1>7. \A s \in SUBSET (1 .. n) :
         iter[s] = IF s = {} THEN staff ELSE Add(iter[s \ {Max(s)}], more[Max(s)])
  <2> HIDE DEF Add
  <2> QED BY <1>1, <1>5
<1>8. ASSUME NEW k \in 1 .. n
      PROVE  iter[1 .. k] = Add(iter[1 .. (k - 1)], more[k])
  <2>1. Max(1 .. k) = k /\ (1 .. k) \ {k} = 1 .. (k - 1)
    BY <1>1, LargestOfSegment
  <2>2. 1 .. k \in SUBSET (1 .. n) /\ 1 .. k # {}
    <3>1. n \in Nat /\ k \in 1 .. n /\ k \in 1 .. k
      BY <1>1
    <3> HIDE DEF n
    <3>2. \A x \in 1 .. k : x \in 1 .. n
      BY <3>1
    <3> QED BY <3>1, <3>2, Zenon
  <2> HIDE DEF Add
  <2> QED BY <1>7, <2>1, <2>2
<1>9. iter[{}] = staff
  BY <1>7
<1>10. \A k \in 0 .. n : iter[1 .. k] \in D
  <2>1. \A k \in 1 .. n : iter[1 .. (k - 1)] \in D
                             => iter[1 .. k] = step[k][iter[1 .. (k - 1)]]
    <3> HIDE DEF Add, D
    <3> QED BY <1>8
  <2>2. staff \in D
    OBVIOUS
  <2>3. Unrolls(iter, n, D, staff, step)
    <3> HIDE DEF step, D, n
    <3> QED BY <1>9, <2>1 DEF Unrolls
  <2>4. n \in Nat /\ step \in [1 .. n -> [D -> D]]
    BY <1>1, <1>3
  <2> HIDE DEF step, D, n
  <2> QED BY <2>2, <2>3, <2>4, FoldUpTo
<1> DEFINE g == [k \in 0 .. n |-> iter[1 .. k]]
<1>11. g \in [0 .. n -> D]
  BY <1>10
<1>12. g[0] = staff
  <2>1. 1 .. 0 = {}
    OBVIOUS
  <2> QED BY <1>1, <1>9, <2>1
<1>13. \A k \in 1 .. n : g[k] = Add(g[k - 1], more[k])
  <2>1. \A k \in 1 .. n : k \in 0 .. n /\ k - 1 \in 0 .. n
    BY <1>1
  <2> HIDE DEF Add
  <2> QED BY <1>8, <2>1
<1>14. AppendMissing(staff, more) = g[n]
  BY <1>1, <1>6
<1> HIDE DEF g
<1>15. Appending(g, staff, more)
  BY <1>12, <1>13, <1>14 DEF Appending
<1> QED BY <1>11, <1>15

\* Nobody is listed twice.
Distinct(s) == \A i, j \in 1 .. Len(s) : s[i] = s[j] => i = j

LEMMA AppendSets ==
    ASSUME NEW E, NEW s \in Seq(E), NEW e \in E
    PROVE  /\ ToSet(Append(s, e)) = ToSet(s) \cup {e}
           /\ Distinct(s) /\ e \notin ToSet(s) => Distinct(Append(s, e))
<1> DEFINE t == Append(s, e)
<1>1. /\ t \in Seq(E) /\ Len(t) = Len(s) + 1 /\ Len(s) \in Nat /\ t[Len(s) + 1] = e
      /\ \A i \in 1 .. Len(s) : t[i] = s[i]
  BY AppendProperties
<1>2. ToSet(t) = {t[i] : i \in 1 .. Len(t)} /\ ToSet(s) = {s[i] : i \in 1 .. Len(s)}
  BY <1>1 DEF ToSet
<1> HIDE DEF t
<1>3. \A i \in 1 .. Len(t) : i \in 1 .. Len(s) \/ i = Len(s) + 1
  BY <1>1
<1>4. ToSet(t) = ToSet(s) \cup {e}
  <2>1. \A x \in ToSet(t) : x \in ToSet(s) \cup {e}
    BY <1>1, <1>2, <1>3
  <2>2. \A i \in 1 .. Len(s) : i \in 1 .. Len(t)
    BY <1>1
  <2>3. Len(s) + 1 \in 1 .. Len(t)
    BY <1>1
  <2>4. \A x \in ToSet(s) \cup {e} : x \in ToSet(t)
    BY <1>1, <1>2, <2>2, <2>3
  <2> QED BY <2>1, <2>4
<1>5. ASSUME Distinct(s), e \notin ToSet(s)
      PROVE  Distinct(t)
  <2>1. \A i \in 1 .. Len(s) : s[i] # e
    BY <1>2, <1>5
  <2> QED BY <1>1, <1>3, <1>5, <2>1 DEF Distinct
<1> QED BY <1>4, <1>5 DEF t

\* What appending the missing elements yields.
LEMMA AppendMissingIs ==
    ASSUME NEW E, NEW staff \in Seq(E), NEW more \in Seq(E)
    PROVE  /\ AppendMissing(staff, more) \in Seq(E)
           /\ ToSet(AppendMissing(staff, more)) = ToSet(staff) \cup ToSet(more)
           /\ Distinct(staff) => Distinct(AppendMissing(staff, more))
<1> DEFINE n == Len(more)
<1>1. n \in Nat /\ \A k \in 1 .. n : more[k] \in E
  OBVIOUS
<1>2. PICK g \in [0 .. n -> Seq(E)] :
         /\ g[0] = staff
         /\ \A k \in 1 .. n :
               g[k] = IF more[k] \in ToSet(g[k - 1]) THEN g[k - 1]
                      ELSE Append(g[k - 1], more[k])
         /\ AppendMissing(staff, more) = g[n]
  <2>1. PICK g \in [0 .. Len(more) -> Seq(E)] : Appending(g, staff, more)
    BY AppendMissingFold
  <2> QED BY <2>1 DEF Appending
<1>3. ToSet(more) = {more[i] : i \in 1 .. n}
  BY DEF ToSet
<1> HIDE DEF n
<1> DEFINE Right(k) == /\ ToSet(g[k]) = ToSet(staff) \cup {more[i] : i \in 1 .. k}
                       /\ Distinct(staff) => Distinct(g[k])
           Bad == {k \in 0 .. n : ~ Right(k)}
<1>4. Right(0)
  BY <1>2
<1>5. ASSUME NEW k \in 1 .. n, Right(k - 1)
      PROVE  Right(k)
  <2>1. g[k - 1] \in Seq(E) /\ more[k] \in E
    BY <1>1, <1>2
  <2>2. {more[i] : i \in 1 .. k} = {more[i] : i \in 1 .. (k - 1)} \cup {more[k]}
    <3>1. k \in Nat /\ k \in 1 .. k /\ \A i \in 1 .. k : i \in 1 .. (k - 1) \/ i = k
      BY <1>1
    <3>2. \A i \in 1 .. (k - 1) : i \in 1 .. k
      BY <3>1
    <3> QED BY <3>1, <3>2
  <2>3. CASE more[k] \in ToSet(g[k - 1])
    <3>1. g[k] = g[k - 1]
      BY <1>2, <2>3
    <3> QED BY <1>5, <2>2, <2>3, <3>1
  <2>4. CASE more[k] \notin ToSet(g[k - 1])
    <3>1. g[k] = Append(g[k - 1], more[k])
      BY <1>2, <2>4
    <3>2. ToSet(g[k]) = ToSet(g[k - 1]) \cup {more[k]}
      BY <2>1, <3>1, AppendSets
    <3>3. Distinct(g[k - 1]) => Distinct(g[k])
      BY <2>1, <2>4, <3>1, AppendSets
    <3> QED BY <1>5, <2>2, <3>2, <3>3
  <2> QED BY <2>3, <2>4
<1> HIDE DEF Right
<1>6. ASSUME Bad # {}
      PROVE  FALSE
  <2>1. PICK k \in Bad : \A l \in Bad : k <= l
    <3>1. Bad \in SUBSET Nat
      OBVIOUS
    <3> HIDE DEF Bad
    <3> QED BY <1>6, <3>1, LeastNatural
  <2>2. k \in 1 .. n
    BY <1>1, <1>4, <2>1
  <2>3. k - 1 \in 0 .. n /\ ~(k <= k - 1)
    BY <1>1, <2>2
  <2>4. Right(k - 1)
    BY <2>1, <2>3
  <2> QED BY <1>5, <2>1, <2>2, <2>4
<1>7. Right(n) /\ g[n] \in Seq(E)
  <2>1. n \in 0 .. n
    BY <1>1
  <2> QED BY <1>2, <1>6, <2>1
<1> QED BY <1>2, <1>3, <1>7 DEF Right

\* The rows of a query, in some order, each of them once.
LEMMA RowsOf ==
    ASSUME NEW S, IsFiniteSet(S)
    PROVE  /\ SetToSeq(S) \in Seq(S) /\ Len(SetToSeq(S)) = Cardinality(S)
           /\ Cardinality(S) \in Nat
           /\ ToSet(SetToSeq(S)) = S /\ Distinct(SetToSeq(S))
<1> DEFINE n == Cardinality(S)
           rows == SetToSeq(S)
<1>1. n \in Nat /\ ExistsBijection(1 .. n, S)
  BY FS_CardinalityType
<1>2. \E f \in [1 .. n -> S] : IsInjective(f)
  BY <1>1, Zenon DEF ExistsBijection, Bijection, Injection
<1>3. rows \in [1 .. n -> S] /\ IsInjective(rows)
  BY <1>2, Zenon DEF SetToSeq
<1>4. rows \in Injection(1 .. n, S)
  BY <1>3 DEF Injection
<1>5. IsFiniteSet(1 .. n) /\ Cardinality(1 .. n) = n
  BY <1>1, FS_Interval
<1>6. rows \in Surjection(1 .. n, S)
  <2> HIDE DEF rows
  <2> QED BY <1>4, <1>5, FS_Injection
<1> HIDE DEF rows, n
<1>7. rows \in Seq(S) /\ Len(rows) = n
  BY <1>1, <1>3
<1>8. ToSet(rows) = S
  BY <1>3, <1>6 DEF ToSet, Surjection
<1>9. Distinct(rows)
  BY <1>3, <1>7 DEF Distinct, IsInjective
<1> QED BY <1>1, <1>7, <1>8, <1>9 DEF rows, n

\* g[k] is the list after the first k rows of the query.
Lists(g, rows, below) ==
    /\ g[0] = <<>>
    /\ \A k \in 1 .. Len(rows) :
          g[k] = AppendMissing(Append(g[k - 1], rows[k]), below[rows[k]])
    /\ Listing(below) = g[Len(rows)]

LEMMA ListingFold ==
    ASSUME NEW E, NEW direct \in SUBSET E, IsFiniteSet(direct),
           NEW below \in [direct -> Seq(E)]
    PROVE  \E g \in [0 .. Len(SetToSeq(direct)) -> Seq(E)] :
              Lists(g, SetToSeq(direct), below)
<1> DEFINE rows == SetToSeq(direct)
           n == Len(rows)
           D == Seq(E)
           Add(s, e) == AppendMissing(Append(s, e), below[e])
           step == [i \in 1 .. n |-> [s \in D |-> Add(s, rows[i])]]
           Body(f) == [s \in SUBSET DOMAIN rows |->
                          IF s = {} THEN <<>> ELSE Add(f[s \ {Max(s)}], rows[Max(s)])]
           iter == CHOOSE f : f = Body(f)
<1>1. n \in Nat /\ DOMAIN rows = 1 .. n /\ \A i \in 1 .. n : rows[i] \in direct
  <2>1. rows \in Seq(direct)
    BY RowsOf
  <2> HIDE DEF rows
  <2> QED BY <2>1
<1> DEFINE start == <<>>
<1>2. \A s \in D, e \in direct : Add(s, e) \in D
  <2>1. ASSUME NEW s \in D, NEW e \in direct
        PROVE  Add(s, e) \in D
    <3>1. Append(s, e) \in Seq(E) /\ below[e] \in Seq(E)
      OBVIOUS
    <3> QED BY <3>1, AppendMissingIs
  <2> QED BY <2>1
<1>3. step \in [1 .. n -> [D -> D]]
  <2> HIDE DEF Add, D, n, rows
  <2> QED BY <1>1, <1>2
<1>4. \A s \in SUBSET (1 .. n) : s # {} => Max(s) \in 1 .. n
  BY <1>1, LargestOf
<1>5. iter = Body(iter)
  <2>1. PICK f \in [SUBSET (1 .. n) -> D] : IsFold(f, n, start, step)
    <3>1. n \in Nat /\ start \in D /\ step \in [1 .. n -> [D -> D]]
      BY <1>1, <1>3
    <3> HIDE DEF step, D, n, start
    <3> QED BY <3>1, FoldExists
  <2>2. ASSUME NEW s \in SUBSET (1 .. n)
        PROVE  f[s] = IF s = {} THEN start ELSE Add(f[s \ {Max(s)}], rows[Max(s)])
    <3>1. CASE s # {}
      <4>1. f[s \ {Max(s)}] \in D /\ Max(s) \in 1 .. n
        BY <1>4, <3>1
      <4>2. step[Max(s)][f[s \ {Max(s)}]] = Add(f[s \ {Max(s)}], rows[Max(s)])
        <5> HIDE DEF Add, D, n, rows
        <5> QED BY <4>1
      <4> HIDE DEF Add, D, step, n, rows, start
      <4> QED BY <2>1, <3>1, <4>2 DEF IsFold
    <3>2. CASE s = {}
      <4> HIDE DEF Add, D, step, n, rows, start
      <4> QED BY <2>1, <3>2 DEF IsFold
    <3> HIDE DEF Add, D, step, n, rows, start
    <3> QED BY <3>1, <3>2
  <2>3. f = Body(f)
    <3> HIDE DEF Add, D, rows, n
    <3> QED BY <1>1, <2>2
  <2> HIDE DEF Body
  <2> QED BY <2>3
<1>6. Listing(below) = iter[DOMAIN rows]
  <2>1. DOMAIN below = direct
    OBVIOUS
  <2> QED BY <2>1 DEF Listing, FoldLeft, MapThenFoldSet
<1> HIDE DEF iter
<1>7. \A s \in SUBSET (1 .. n) :
         iter[s] = IF s = {} THEN start ELSE Add(iter[s \ {Max(s)}], rows[Max(s)])
  <2> HIDE DEF Add, n, rows
  <2> QED BY <1>1, <1>5
<1>8. ASSUME NEW k \in 1 .. n
      PROVE  iter[1 .. k] = Add(iter[1 .. (k - 1)], rows[k])
  <2>1. Max(1 .. k) = k /\ (1 .. k) \ {k} = 1 .. (k - 1)
    BY <1>1, LargestOfSegment
  <2>2. 1 .. k \in SUBSET (1 .. n) /\ 1 .. k # {}
    <3>1. n \in Nat /\ k \in 1 .. n /\ k \in 1 .. k
      BY <1>1
    <3> HIDE DEF n
    <3>2. \A x \in 1 .. k : x \in 1 .. n
      BY <3>1
    <3> QED BY <3>1, <3>2, Zenon
  <2> HIDE DEF Add, n, rows, start
  <2> QED BY <1>7, <2>1, <2>2
<1>9. iter[{}] = start
  BY <1>7
<1>10. \A k \in 0 .. n : iter[1 .. k] \in D
  <2>1. \A k \in 1 .. n : iter[1 .. (k - 1)] \in D
                             => iter[1 .. k] = step[k][iter[1 .. (k - 1)]]
    <3> HIDE DEF Add, D, n, rows
    <3> QED BY <1>8
  <2>2. start \in D
    OBVIOUS
  <2>3. Unrolls(iter, n, D, start, step)
    <3> HIDE DEF step, D, n, start
    <3> QED BY <1>9, <2>1 DEF Unrolls
  <2>4. n \in Nat /\ step \in [1 .. n -> [D -> D]]
    BY <1>1, <1>3
  <2> HIDE DEF step, D, n, start
  <2> QED BY <2>2, <2>3, <2>4, FoldUpTo
<1> DEFINE g == [k \in 0 .. n |-> iter[1 .. k]]
<1>11. g \in [0 .. n -> D]
  <2> HIDE DEF n, D
  <2> QED BY <1>10
<1>12. g[0] = start
  <2>1. 1 .. 0 = {} /\ 0 \in 0 .. n
    BY <1>1
  <2> HIDE DEF n, start
  <2> QED BY <1>9, <2>1
<1>13. \A k \in 1 .. n : g[k] = Add(g[k - 1], rows[k])
  <2>1. \A k \in 1 .. n : k \in 0 .. n /\ k - 1 \in 0 .. n
    BY <1>1
  <2> HIDE DEF Add, n, rows
  <2> QED BY <1>8, <2>1
<1>14. Listing(below) = g[n]
  <2>1. n \in 0 .. n
    BY <1>1
  <2> HIDE DEF n, rows
  <2> QED BY <1>1, <1>6, <2>1
<1> HIDE DEF g
<1>15. Lists(g, rows, below)
  BY <1>12, <1>13, <1>14 DEF Lists
<1> HIDE DEF rows
<1>16. g \in [0 .. Len(rows) -> Seq(E)]
  BY <1>11
<1> QED BY <1>15, <1>16 DEF rows

\* What the loop over the direct staff of somebody yields.
LEMMA ListingIs ==
    ASSUME NEW E, NEW direct \in SUBSET E, IsFiniteSet(direct),
           NEW below \in [direct -> Seq(E)]
    PROVE  /\ Listing(below) \in Seq(E)
           /\ \A x : x \in ToSet(Listing(below))
                      <=> \E d \in direct : x = d \/ x \in ToSet(below[d])
           /\ (\A d, f \in direct : d \notin ToSet(below[f])) => Distinct(Listing(below))
<1> DEFINE rows == SetToSeq(direct)
           n == Len(rows)
           Apart == \A d, f \in direct : d \notin ToSet(below[f])
<1>1. /\ rows \in Seq(direct) /\ ToSet(rows) = direct /\ Distinct(rows)
  BY RowsOf
<1>2. PICK g \in [0 .. n -> Seq(E)] : Lists(g, rows, below)
  BY ListingFold
<1> HIDE DEF rows
<1>3. /\ n \in Nat
      /\ \A k \in 1 .. n : rows[k] \in direct /\ rows[k] \in E /\ below[rows[k]] \in Seq(E)
      /\ {rows[i] : i \in 1 .. n} = direct
  <2>1. ToSet(rows) = {rows[i] : i \in 1 .. n}
    BY <1>1 DEF ToSet
  <2>2. \A k \in 1 .. n : rows[k] \in direct
    BY <1>1
  <2>3. {rows[i] : i \in 1 .. n} = direct
    BY <1>1, <2>1
  <2>4. \A k \in 1 .. n : rows[k] \in E
    BY <2>2
  <2>5. \A k \in 1 .. n : below[rows[k]] \in Seq(E)
    BY <2>2
  <2>6. n \in Nat
    BY <1>1
  <2> HIDE DEF n
  <2> QED BY <2>2, <2>3, <2>4, <2>5, <2>6
<1>4. /\ g[0] = <<>> /\ Listing(below) = g[n]
      /\ \A k \in 1 .. n : g[k] = AppendMissing(Append(g[k - 1], rows[k]), below[rows[k]])
  BY <1>2 DEF Lists
<1>5. \A i, j \in 1 .. n : rows[i] = rows[j] => i = j
  BY <1>1 DEF Distinct
<1> HIDE DEF n
<1> DEFINE Under(x, i) == x = rows[i] \/ x \in ToSet(below[rows[i]])
           Seen(x, k) == \E i \in 1 .. k : Under(x, i)
           Right(k) == /\ \A x : x \in ToSet(g[k]) <=> Seen(x, k)
                       /\ Apart => Distinct(g[k])
           Bad == {k \in 0 .. n : ~ Right(k)}
<1>6. Right(0)
  BY <1>4 DEF ToSet, Distinct
<1>7. ASSUME NEW k \in 1 .. n, Right(k - 1)
      PROVE  Right(k)
  <2> DEFINE s == Append(g[k - 1], rows[k])
  <2>1. g[k - 1] \in Seq(E) /\ rows[k] \in direct /\ rows[k] \in E /\ below[rows[k]] \in Seq(E)
    BY <1>2, <1>3
  <2>2. s \in Seq(E) /\ ToSet(s) = ToSet(g[k - 1]) \cup {rows[k]}
    BY <2>1, AppendSets
  <2>3. Distinct(g[k - 1]) /\ rows[k] \notin ToSet(g[k - 1]) => Distinct(s)
    BY <2>1, AppendSets
  <2> HIDE DEF s
  <2>4. g[k] = AppendMissing(s, below[rows[k]])
    BY <1>4 DEF s
  <2>5. /\ ToSet(g[k]) = ToSet(s) \cup ToSet(below[rows[k]])
        /\ Distinct(s) => Distinct(g[k])
    BY <2>1, <2>2, <2>4, AppendMissingIs
  <2>6. \A x : Seen(x, k) <=> Seen(x, k - 1) \/ Under(x, k)
    <3>1. k \in 1 .. k /\ \A i \in 1 .. k : i \in 1 .. (k - 1) \/ i = k
      BY <1>3
    <3>2. \A i \in 1 .. (k - 1) : i \in 1 .. k
      BY <1>3
    <3> HIDE DEF Under
    <3> QED BY <3>1, <3>2
  <2>7. Apart => ~ Seen(rows[k], k - 1)
    <3>1. ASSUME Apart, NEW i \in 1 .. (k - 1)
          PROVE  rows[k] # rows[i] /\ rows[k] \notin ToSet(below[rows[i]])
      <4>1. i \in 1 .. n /\ i # k
        BY <1>3
      <4> QED BY <1>3, <1>5, <2>1, <3>1, <4>1
    <3> QED BY <3>1
  <2> HIDE DEF Seen, Apart
  <2> QED BY <1>7, <2>2, <2>3, <2>5, <2>6, <2>7
<1> HIDE DEF Right
<1>8. ASSUME Bad # {}
      PROVE  FALSE
  <2>1. PICK k \in Bad : \A l \in Bad : k <= l
    <3>1. Bad \in SUBSET Nat
      OBVIOUS
    <3> HIDE DEF Bad
    <3> QED BY <1>8, <3>1, LeastNatural
  <2>2. k \in 1 .. n
    BY <1>3, <1>6, <2>1
  <2>3. k - 1 \in 0 .. n /\ ~(k <= k - 1)
    BY <1>3, <2>2
  <2>4. Right(k - 1)
    BY <2>1, <2>3
  <2> QED BY <1>7, <2>1, <2>2, <2>4
<1>9. Right(n) /\ g[n] \in Seq(E)
  <2>1. n \in 0 .. n
    BY <1>3
  <2> QED BY <1>2, <1>8, <2>1
<1>10. \A x : Seen(x, n) <=> \E d \in direct : x = d \/ x \in ToSet(below[d])
  BY <1>3
<1> HIDE DEF Seen, Apart
<1>11. /\ \A x : x \in ToSet(Listing(below)) <=> Seen(x, n)
       /\ Apart => Distinct(Listing(below))
       /\ Listing(below) \in Seq(E)
  BY <1>4, <1>9 DEF Right
<1>12. \A x : x \in ToSet(Listing(below)) <=> \E d \in direct : x = d \/ x \in ToSet(below[d])
  BY <1>10, <1>11, Zenon
<1> QED BY <1>11, <1>12, Zenon DEF Apart

-----------------------------------------------------------------------------
(* The recursion, by how far below the manager somebody is. *)

\* The approver of the first of a chain has a chain one shorter.
LEMMA ChainShortens ==
    ASSUME NEW emp, NEW m, NEW n \in Nat, n >= 2, NEW c, IsChain(emp, c, n, m)
    PROVE  HasChain(emp, emp[c[1]].approver, n - 1, m) /\ emp[c[1]].approver # m
<1> DEFINE shorter == [i \in 1 .. n - 1 |-> c[i + 1]]
<1>1. c \in [1 .. n -> Employees]
  BY DEF IsChain
<1>2. emp[c[1]].approver = c[2] /\ c[2] # m
  BY DEF IsChain
<1>3. /\ shorter \in [1 .. n - 1 -> Employees]
      /\ \A i \in 1 .. n - 1 : shorter[i] = c[i + 1] /\ i + 1 \in 2 .. n
      /\ 1 \in 1 .. n - 1 /\ shorter[1] = c[2]
  BY <1>1
<1> HIDE DEF shorter
<1>4. ASSUME NEW i \in 1 .. n - 1
      PROVE  /\ shorter[i] \in Present(emp)
             /\ emp[shorter[i]].approver = IF i < n - 1 THEN shorter[i + 1] ELSE m
  <2>1. shorter[i] = c[i + 1] /\ i + 1 \in 1 .. n
    BY <1>3
  <2>2. c[i + 1] \in Present(emp) /\ emp[c[i + 1]].approver = IF i + 1 < n THEN c[i + 2] ELSE m
    BY <2>1 DEF IsChain
  <2>3. i < n - 1 => shorter[i + 1] = c[i + 2]
    BY <1>3
  <2> QED BY <2>1, <2>2, <2>3
<1>5. ASSUME NEW i \in 2 .. n - 1
      PROVE  shorter[i] # m /\ emp[shorter[i]].role # "employee"
  <2>1. shorter[i] = c[i + 1] /\ i + 1 \in 2 .. n
    BY <1>3
  <2> QED BY <2>1 DEF IsChain
<1>6. IsChain(emp, shorter, n - 1, m)
  BY <1>3, <1>4, <1>5 DEF IsChain
<1>7. HasChain(emp, c[2], n - 1, m)
  BY <1>3, <1>6 DEF HasChain
<1> QED BY <1>2, <1>7

\* How far below m somebody is: the length of his shortest chain.
Lengths(emp, e, m) == {n \in 1 .. Cardinality(Employees) : HasChain(emp, e, n, m)}

Depth(emp, e, m) ==
    CHOOSE n \in Lengths(emp, e, m) : \A l \in Lengths(emp, e, m) : n <= l

LEMMA DepthIs ==
    ASSUME NEW emp, NEW m, NEW e \in Hierarchy(emp, m)
    PROVE  /\ Depth(emp, e, m) \in Lengths(emp, e, m)
           /\ \A l \in Lengths(emp, e, m) : Depth(emp, e, m) <= l
           /\ Depth(emp, e, m) \in Nat /\ Depth(emp, e, m) >= 1
           /\ Depth(emp, e, m) <= Cardinality(Employees)
<1>1. e \in Employees /\ ReportsTo(emp, e, m)
  BY HierarchyIsReports
<1>2. Cardinality(Employees) \in Nat
  BY EmployeesAssumption, FS_CardinalityType
<1>3. Lengths(emp, e, m) # {}
  BY <1>1, ReportsByChain DEF Lengths, HasChain
<1>4. Lengths(emp, e, m) \in SUBSET (1 .. Cardinality(Employees))
  BY DEF Lengths
<1>5. Lengths(emp, e, m) \in SUBSET Nat
  BY <1>2, <1>4
<1>6. \E n \in Lengths(emp, e, m) : \A l \in Lengths(emp, e, m) : n <= l
  BY <1>3, <1>5, LeastNatural
<1>7. /\ Depth(emp, e, m) \in Lengths(emp, e, m)
      /\ \A l \in Lengths(emp, e, m) : Depth(emp, e, m) <= l
  BY <1>6 DEF Depth
<1> QED BY <1>2, <1>4, <1>7

LEMMA DepthBelow ==
    ASSUME NEW emp, NEW m, NEW e \in Hierarchy(emp, m), e # m,
           emp[e].role # "employee", NEW d \in DirectStaff(emp, e)
    PROVE  d \in Hierarchy(emp, m) /\ Depth(emp, d, m) = Depth(emp, e, m) + 1
<1>1. ClosedUnderStaff(emp, m, Hierarchy(emp, m))
  BY HierarchyIsReports, ReportsClosed
<1>2. d \in Hierarchy(emp, m)
  BY <1>1 DEF ClosedUnderStaff
<1>3. Cardinality(Employees) \in Nat
  BY EmployeesAssumption, FS_CardinalityType
<1> DEFINE n == Depth(emp, e, m)
           k == Depth(emp, d, m)
<1>4. /\ n \in Lengths(emp, e, m) /\ n \in Nat \ {0} /\ n >= 1
      /\ \A l \in Lengths(emp, e, m) : n <= l
  BY DepthIs
<1>5. /\ k \in Lengths(emp, d, m) /\ k \in Nat /\ k >= 1 /\ k <= Cardinality(Employees)
      /\ \A l \in Lengths(emp, d, m) : k <= l
  BY <1>2, DepthIs
<1>6. emp[d].approver = e
  BY DEF DirectStaff
<1> HIDE DEF n, k
<1>7. k <= n + 1
  <2>1. PICK c \in [1 .. n -> Employees] : IsChain(emp, c, n, m) /\ c[1] = e
    BY <1>4 DEF Lengths, HasChain
  <2>2. HasChain(emp, d, n + 1, m)
    <3>1. n \in Nat \ {0}
      BY <1>4
    <3>2. c[1] # m /\ emp[c[1]].role # "employee" /\ d \in DirectStaff(emp, c[1])
      BY <2>1
    <3> QED BY <2>1, <3>1, <3>2, ChainExtends
  <2>3. n + 1 \in Nat
    BY <1>4
  <2>4. n + 1 <= Cardinality(Employees)
    BY <2>2, <2>3, ChainLength DEF HasChain
  <2>5. n + 1 \in 1 .. Cardinality(Employees)
    BY <1>3, <1>4, <2>4
  <2>6. n + 1 \in Lengths(emp, d, m)
    BY <2>2, <2>5 DEF Lengths
  <2> QED BY <1>5, <2>6
<1>8. n <= k - 1
  <2>1. PICK c \in [1 .. k -> Employees] : IsChain(emp, c, k, m) /\ c[1] = d
    BY <1>5 DEF Lengths, HasChain
  <2>2. k >= 2
    <3>1. ASSUME k = 1
          PROVE  FALSE
      <4>1. emp[c[1]].approver = m
        BY <2>1, <3>1 DEF IsChain
      <4> QED BY <1>6, <2>1, <4>1
    <3> QED BY <1>5, <3>1
  <2>3. HasChain(emp, e, k - 1, m)
    BY <1>5, <1>6, <2>1, <2>2, ChainShortens
  <2>4. k - 1 \in 1 .. Cardinality(Employees)
    BY <1>3, <1>5, <2>2
  <2>5. k - 1 \in Lengths(emp, e, m)
    BY <2>3, <2>4 DEF Lengths
  <2> QED BY <1>4, <2>5
<1>9. k = n + 1
  BY <1>4, <1>5, <1>7, <1>8
<1> QED BY <1>2, <1>9 DEF n, k

LEMMA DepthOfDirectStaff ==
    ASSUME NEW emp, NEW m, NEW d \in DirectStaff(emp, m)
    PROVE  d \in Hierarchy(emp, m) /\ Depth(emp, d, m) = 1
<1>1. ClosedUnderStaff(emp, m, Hierarchy(emp, m))
  BY HierarchyIsReports, ReportsClosed
<1>2. d \in Hierarchy(emp, m)
  BY <1>1 DEF ClosedUnderStaff
<1> DEFINE k == Depth(emp, d, m)
<1>3. k \in Lengths(emp, d, m) /\ k \in Nat /\ k >= 1
  BY <1>2, DepthIs
<1> HIDE DEF k
<1>4. PICK c \in [1 .. k -> Employees] : IsChain(emp, c, k, m) /\ c[1] = d
  BY <1>3 DEF Lengths, HasChain
<1>5. emp[d].approver = m
  BY DEF DirectStaff
<1>6. k >= 2 => FALSE
  BY <1>3, <1>4, <1>5, ChainShortens
<1>7. k = 1
  BY <1>3, <1>6
<1> QED BY <1>2, <1>7 DEF k

\* One round of the recursion: what each call returns if below[d] is what
\* the call for d returns.
Round(emp, m, below) ==
    [e \in Hierarchy(emp, m) |->
        IF e = m \/ emp[e].role = "employee" THEN <<>>
        ELSE Listing([d \in DirectStaff(emp, e) |-> below[d]])]

\* The recursion ends: every call goes one step down from m.
LEMMA RecursionEnds ==
    ASSUME NEW emp, NEW m
    PROVE  \E below : below = Round(emp, m, below)
<1> DEFINE H == Hierarchy(emp, m)
           N == Cardinality(Employees)
           Settled(f, k) == /\ f = [e \in H |-> f[e]]
                            /\ \A e \in H : Depth(emp, e, m) + k > N
                                               => f[e] = Round(emp, m, f)[e]
           Bad == {k \in Nat : ~ \E f : Settled(f, k)}
<1>1. N \in Nat
  BY EmployeesAssumption, FS_CardinalityType
<1>2. \A e \in H : Depth(emp, e, m) \in Nat /\ Depth(emp, e, m) >= 1 /\ Depth(emp, e, m) <= N
  BY DepthIs
<1>3. \E f : Settled(f, 0)
  <2> DEFINE f == [e \in H |-> <<>>]
  <2>1. \A e \in H : ~(Depth(emp, e, m) + 0 > N)
    <3> HIDE DEF H, N
    <3> QED BY <1>1, <1>2
  <2>2. Settled(f, 0)
    BY <2>1
  <2> HIDE DEF f, Settled
  <2> QED BY <2>2
<1>4. ASSUME NEW k \in Nat, NEW f, Settled(f, k)
      PROVE  Settled(Round(emp, m, f), k + 1)
  <2> DEFINE g == Round(emp, m, f)
  <2>1. g = [e \in H |-> g[e]]
    BY DEF Round
  <2>2. ASSUME NEW e \in H, Depth(emp, e, m) + (k + 1) > N
        PROVE  g[e] = Round(emp, m, g)[e]
    <3>1. CASE e = m \/ emp[e].role = "employee"
      BY <3>1 DEF Round
    <3>2. CASE e # m /\ emp[e].role # "employee"
      <4>1. ASSUME NEW d \in DirectStaff(emp, e)
            PROVE  f[d] = g[d]
        <5>1. d \in H /\ Depth(emp, d, m) = Depth(emp, e, m) + 1
          BY <3>2, DepthBelow
        <5>2. Depth(emp, d, m) + k > N
          <6> HIDE DEF H, N
          <6> QED BY <1>1, <1>2, <2>2, <5>1
        <5> QED BY <1>4, <5>1, <5>2
      <4> HIDE DEF g
      <4>2. [d \in DirectStaff(emp, e) |-> f[d]] = [d \in DirectStaff(emp, e) |-> g[d]]
        BY <4>1
      <4>3. g[e] = Listing([d \in DirectStaff(emp, e) |-> f[d]])
        BY <3>2 DEF g, Round
      <4>4. Round(emp, m, g)[e] = Listing([d \in DirectStaff(emp, e) |-> g[d]])
        BY <3>2 DEF Round
      <4> QED BY <4>2, <4>3, <4>4
    <3> QED BY <3>1, <3>2
  <2> HIDE DEF g
  <2>3. Settled(g, k + 1)
    BY <2>1, <2>2
  <2> QED BY <2>3 DEF g
<1> HIDE DEF Settled
<1>5. ASSUME Bad # {}
      PROVE  FALSE
  <2>1. PICK k \in Bad : \A l \in Bad : k <= l
    <3>1. Bad \in SUBSET Nat
      OBVIOUS
    <3> HIDE DEF Bad
    <3> QED BY <1>5, <3>1, LeastNatural
  <2>2. k \in Nat /\ k # 0 /\ ~ \E f : Settled(f, k)
    BY <1>3, <2>1
  <2>3. k - 1 \in Nat /\ ~(k <= k - 1) /\ (k - 1) + 1 = k
    BY <2>2
  <2>4. PICK f : Settled(f, k - 1)
    BY <2>1, <2>3
  <2>5. Settled(Round(emp, m, f), (k - 1) + 1)
    BY <1>4, <2>3, <2>4
  <2> QED BY <2>2, <2>3, <2>5
<1>6. PICK f : Settled(f, N)
  BY <1>1, <1>5
<1>7. \A e \in H : Depth(emp, e, m) + N > N
  <2> HIDE DEF H, N
  <2> QED BY <1>1, <1>2
<1>8. f = [e \in H |-> f[e]] /\ \A e \in H : f[e] = Round(emp, m, f)[e]
  BY <1>6, <1>7 DEF Settled
<1>9. Round(emp, m, f) = [e \in H |-> Round(emp, m, f)[e]]
  BY DEF Round
<1>10. f = Round(emp, m, f)
  <2> HIDE DEF H
  <2> QED BY <1>8, <1>9
<1> QED BY <1>10

\* Whom a call lists, and who is on the staff of those.
LEMMA CallLists ==
    ASSUME NEW emp, NEW m, NEW below, below = Round(emp, m, below), NEW e \in Hierarchy(emp, m)
    PROVE  /\ below[e] \in Seq(Employees)
           /\ e # m /\ emp[e].role # "employee"
                => DirectStaff(emp, e) \subseteq ToSet(below[e])
           /\ \A x \in ToSet(below[e]) :
                 /\ x \in Hierarchy(emp, m)
                 /\ Depth(emp, x, m) > Depth(emp, e, m)
                 /\ x # m /\ emp[x].role # "employee"
                       => DirectStaff(emp, x) \subseteq ToSet(below[e])
<1> DEFINE H == Hierarchy(emp, m)
           N == Cardinality(Employees)
           Fine(y) ==
               /\ below[y] \in Seq(Employees)
               /\ y # m /\ emp[y].role # "employee"
                    => DirectStaff(emp, y) \subseteq ToSet(below[y])
               /\ \A x \in ToSet(below[y]) :
                     /\ x \in H
                     /\ Depth(emp, x, m) > Depth(emp, y, m)
                     /\ x # m /\ emp[x].role # "employee"
                           => DirectStaff(emp, x) \subseteq ToSet(below[y])
           Bad == {k \in Nat : \E y \in H : Depth(emp, y, m) + k = N /\ ~ Fine(y)}
<1>1. N \in Nat
  BY EmployeesAssumption, FS_CardinalityType
<1>2. \A y \in H : Depth(emp, y, m) \in Nat /\ Depth(emp, y, m) >= 1 /\ Depth(emp, y, m) <= N
  BY DepthIs
<1>3. ASSUME NEW y \in H,
             \A d \in H : Depth(emp, d, m) = Depth(emp, y, m) + 1 => Fine(d)
      PROVE  Fine(y)
  <2>1. below[y] = Round(emp, m, below)[y]
    OBVIOUS
  <2>2. CASE y = m \/ emp[y].role = "employee"
    <3>1. below[y] = <<>>
      BY <2>1, <2>2 DEF Round
    <3>2. below[y] \in Seq(Employees) /\ ToSet(below[y]) = {}
      BY <3>1 DEF ToSet
    <3> QED BY <2>2, <3>2
  <2>3. CASE y # m /\ emp[y].role # "employee"
    <3> DEFINE direct == DirectStaff(emp, y)
               lists == [d \in direct |-> below[d]]
    <3>1. below[y] = Listing(lists)
      BY <2>1, <2>3 DEF Round
    <3>2. \A d \in direct : d \in H /\ Depth(emp, d, m) = Depth(emp, y, m) + 1
      BY <2>3, DepthBelow
    <3> HIDE DEF Fine, H
    <3>3. \A d \in direct : Fine(d)
      BY <1>3, <3>2
    <3>4. direct \in SUBSET Employees
      BY DEF DirectStaff, Present
    <3>5. IsFiniteSet(direct)
      BY <3>4, EmployeesAssumption, FS_Subset
    <3>6. lists \in [direct -> Seq(Employees)]
      BY <3>3 DEF Fine
    <3>7. /\ Listing(lists) \in Seq(Employees)
          /\ \A x : x \in ToSet(Listing(lists))
                       <=> \E d \in direct : x = d \/ x \in ToSet(lists[d])
      <4> HIDE DEF direct, lists
      <4> QED BY <3>4, <3>5, <3>6, ListingIs
    <3>8. \A x : x \in ToSet(below[y]) <=> \E d \in direct : x = d \/ x \in ToSet(below[d])
      BY <3>1, <3>7
    <3>9. below[y] \in Seq(Employees)
      BY <3>1, <3>7
    <3>10. direct \subseteq ToSet(below[y])
      BY <3>8
    <3>11. \A d \in direct : ToSet(below[d]) \subseteq ToSet(below[y])
      BY <3>8
    <3> HIDE DEF lists, direct
    <3>12. ASSUME NEW x \in ToSet(below[y])
           PROVE  /\ x \in H
                  /\ Depth(emp, x, m) > Depth(emp, y, m)
                  /\ x # m /\ emp[x].role # "employee"
                        => DirectStaff(emp, x) \subseteq ToSet(below[y])
      <4>1. PICK d \in direct : x = d \/ x \in ToSet(below[d])
        BY <3>8
      <4>2. d \in H /\ Depth(emp, d, m) = Depth(emp, y, m) + 1 /\ Fine(d)
        BY <3>2, <3>3
      <4>3. CASE x = d
        <5>1. x # m /\ emp[x].role # "employee" => DirectStaff(emp, x) \subseteq ToSet(below[d])
          BY <4>2, <4>3 DEF Fine
        <5>2. Depth(emp, x, m) > Depth(emp, y, m)
          BY <1>2, <4>2, <4>3
        <5> QED BY <3>11, <4>2, <4>3, <5>1, <5>2
      <4>4. CASE x \in ToSet(below[d])
        <5>1. /\ x \in H /\ Depth(emp, x, m) > Depth(emp, d, m)
              /\ x # m /\ emp[x].role # "employee"
                    => DirectStaff(emp, x) \subseteq ToSet(below[d])
          BY <4>2, <4>4 DEF Fine
        <5>2. Depth(emp, x, m) > Depth(emp, y, m)
          BY <1>2, <4>2, <5>1
        <5> QED BY <3>11, <5>1, <5>2
      <4> QED BY <4>1, <4>3, <4>4
    <3> QED BY <3>9, <3>10, <3>12 DEF Fine, direct
  <2> QED BY <2>2, <2>3
<1> HIDE DEF Fine, H, N
<1>4. ASSUME Bad # {}
      PROVE  FALSE
  <2>1. PICK k \in Bad : \A l \in Bad : k <= l
    <3>1. Bad \in SUBSET Nat
      OBVIOUS
    <3> HIDE DEF Bad
    <3> QED BY <1>4, <3>1, LeastNatural
  <2>2. PICK y \in H : Depth(emp, y, m) + k = N /\ ~ Fine(y)
    BY <2>1
  <2>3. PICK d \in H : Depth(emp, d, m) = Depth(emp, y, m) + 1 /\ ~ Fine(d)
    BY <1>3, <2>2
  <2>4. k \in Nat
    BY <2>1
  <2>5. k - 1 \in Nat /\ Depth(emp, d, m) + (k - 1) = N /\ ~(k <= k - 1)
    BY <1>1, <1>2, <2>2, <2>3, <2>4
  <2>6. k - 1 \in Bad
    BY <2>3, <2>5
  <2> QED BY <2>1, <2>5, <2>6
<1>5. Fine(e)
  <2>1. e \in H
    BY DEF H
  <2>2. N - Depth(emp, e, m) \in Nat /\ Depth(emp, e, m) + (N - Depth(emp, e, m)) = N
    BY <1>1, <1>2, <2>1
  <2> QED BY <1>4, <2>1, <2>2
<1> QED BY <1>5 DEF Fine, H

\* What build_staff_list returns for a manager.
LEMMA BuiltList ==
    ASSUME NEW emp, NEW m
    PROVE  /\ ToSet(BuildStaffList(emp, m)) = Hierarchy(emp, m)
           /\ Len(BuildStaffList(emp, m)) = Cardinality(Hierarchy(emp, m))
<1> DEFINE H == Hierarchy(emp, m)
           below == CHOOSE f : f = Round(emp, m, f)
           direct == DirectStaff(emp, m)
           lists == [d \in direct |-> below[d]]
           list == BuildStaffList(emp, m)
<1>1. below = Round(emp, m, below)
  BY RecursionEnds
<1>2. list = Listing(lists)
  BY DEF BuildStaffList, Round
<1> HIDE DEF below
<1>3. \A d \in direct : d \in H /\ Depth(emp, d, m) = 1
  BY DepthOfDirectStaff
<1>4. \A d \in H :
         /\ below[d] \in Seq(Employees)
         /\ d # m /\ emp[d].role # "employee" => DirectStaff(emp, d) \subseteq ToSet(below[d])
         /\ \A x \in ToSet(below[d]) :
               /\ x \in H
               /\ Depth(emp, x, m) > Depth(emp, d, m)
               /\ x # m /\ emp[x].role # "employee"
                     => DirectStaff(emp, x) \subseteq ToSet(below[d])
  BY <1>1, CallLists
<1> HIDE DEF H
<1>5. direct \in SUBSET Employees
  BY DEF DirectStaff, Present
<1>6. IsFiniteSet(direct)
  BY <1>5, EmployeesAssumption, FS_Subset
<1>7. lists \in [direct -> Seq(Employees)]
  BY <1>3, <1>4
<1>8. /\ list \in Seq(Employees)
      /\ \A x : x \in ToSet(list) <=> \E d \in direct : x = d \/ x \in ToSet(lists[d])
      /\ (\A d, f \in direct : d \notin ToSet(lists[f])) => Distinct(list)
  <2> HIDE DEF direct, lists
  <2> QED BY <1>2, <1>5, <1>6, <1>7, ListingIs
<1> HIDE DEF list
<1>9. \A x : x \in ToSet(list) <=> \E d \in direct : x = d \/ x \in ToSet(below[d])
  BY <1>8
<1>10. Distinct(list)
  <2>1. \A d, f \in direct : d \notin ToSet(below[f])
    <3>1. ASSUME NEW d \in direct, NEW f \in direct, d \in ToSet(below[f])
          PROVE  FALSE
      <4>1. Depth(emp, d, m) > Depth(emp, f, m)
        BY <1>3, <1>4, <3>1
      <4>2. Depth(emp, d, m) = 1 /\ Depth(emp, f, m) = 1
        BY <1>3
      <4> QED BY <4>1, <4>2
    <3> QED BY <3>1
  <2> QED BY <1>8, <2>1
<1> HIDE DEF lists
<1>11. ToSet(list) \subseteq H
  BY <1>3, <1>4, <1>9
<1>12. ClosedUnderStaff(emp, m, ToSet(list))
  <2>1. direct \subseteq ToSet(list)
    BY <1>9
  <2>2. ASSUME NEW x \in ToSet(list) \ {m}, emp[x].role # "employee"
        PROVE  DirectStaff(emp, x) \subseteq ToSet(list)
    <3>1. PICK d \in direct : x = d \/ x \in ToSet(below[d])
      BY <1>9
    <3>2. DirectStaff(emp, x) \subseteq ToSet(below[d])
      BY <1>3, <1>4, <2>2, <3>1
    <3> HIDE DEF direct
    <3> QED BY <1>9, <3>2
  <2> QED BY <2>1, <2>2 DEF ClosedUnderStaff
<1>13. H \subseteq ToSet(list)
  <2>1. H \subseteq Present(emp)
    BY DEF H, Hierarchy
  <2>2. ToSet(list) \in SUBSET Present(emp)
    BY <1>11, <2>1
  <2> QED BY <1>12, <2>2 DEF H, Hierarchy
<1>14. ToSet(list) = H
  BY <1>11, <1>13
<1>15. Len(list) = Cardinality(H)
  <2>1. /\ Len(list) \in Nat /\ DOMAIN list = 1 .. Len(list)
        /\ ToSet(list) = {list[i] : i \in 1 .. Len(list)}
    BY <1>8 DEF ToSet
  <2>2. list \in [1 .. Len(list) -> H]
    BY <1>8, <1>14, <2>1
  <2>3. IsInjective(list)
    BY <1>10, <2>1 DEF Distinct, IsInjective
  <2>4. \A x \in H : \E i \in 1 .. Len(list) : list[i] = x
    BY <1>14, <2>1
  <2>5. list \in Bijection(1 .. Len(list), H)
    BY <2>2, <2>3, <2>4 DEF Bijection, Injection, Surjection
  <2>6. ExistsBijection(1 .. Len(list), H)
    BY <2>5 DEF ExistsBijection
  <2> QED BY <2>1, <2>6, FS_CountingElements
<1> QED BY <1>14, <1>15 DEF H, list

(***************************************************************************)
(* The list that build_staff_list puts together for a manager holds        *)
(* exactly the people whose chain of approvers leads up to him, each of    *)
(* them once, for any number of employees and any graph of approvers: in   *)
(* a loop the recursion ends, for it stops at the manager himself.         *)
(***************************************************************************)
THEOREM ListCorrect == EmployeeSpec => []StaffListComplete
<1>1. StaffListComplete
  <2>1. ASSUME NEW m
        PROVE  LET list == ManagerStaffList(m) IN
               /\ ToSet(list) = {e \in Employees : ReportsTo(employee, e, m)}
               /\ Len(list) = Cardinality(ToSet(list))
    BY BuiltList, HierarchyIsReports DEF ManagerStaffList
  <2> QED BY <2>1 DEF StaffListComplete
<1> QED BY <1>1, PTL
=============================================================================
