------------------------ MODULE EmployeeMails_proofs ------------------------
(***************************************************************************)
(* Proofs about the activation mails, for any staff, any forms and any     *)
(* number of jobs and crashes.                                             *)
(***************************************************************************)
EXTENDS EmployeeMails, EmployeeAdmin_proofs

USE NoneAssumption, AdminAssumption, MailAssumption

-----------------------------------------------------------------------------
(* The web process.                                                        *)

\* A change by the web process adds a job, or changes no switch that counts.
Observed(e) ==
    \/ jobs'[e] = jobs[e] + 1
    \/ /\ jobs'[e] = jobs[e]
       /\ e \in Present(employee') =>
             /\ e \in Present(employee)
             /\ \/ SameSwitches(SettingOf(e), SettingOf(e)')
                \/ ~(employee'[e].active \/ contact'[e].notify)

WebStep ==
    /\ EmployeeTypeOK' /\ contact' \in [Employees -> Contact]
    /\ NobodyReturns
    /\ jobs' \in [Employees -> Nat]
    /\ \A e \in Employees : Observed(e)
    /\ UNCHANGED queueVars

LEMMA ObserveEffect ==
    ASSUME EmployeeTypeOK, jobs \in [Employees -> Nat], NobodyReturns, Observe
    PROVE  /\ jobs' \in [Employees -> Nat]
           /\ \A e \in Employees : Observed(e)
<1>1. jobs' \in [Employees -> Nat]
  BY DEF Observe
<1>2. ASSUME NEW e \in Employees PROVE Observed(e)
  <2>1. CASE Enqueues(e)
    BY <2>1 DEF Observe, Observed
  <2>2. CASE ~Enqueues(e)
    <3>1. jobs'[e] = jobs[e]
      BY <2>2 DEF Observe
    <3>2. ASSUME e \in Present(employee') PROVE e \in Present(employee)
      BY <2>2, <3>2 DEF NobodyReturns, Enqueues
    <3>3. ASSUME e \in Present(employee')
          PROVE  \/ SameSwitches(SettingOf(e), SettingOf(e)')
                 \/ ~(SettingOf(e)'.active \/ SettingOf(e)'.notify)
      BY <2>2, <3>2, <3>3, Zenon DEF Enqueues, SameSwitches
    <3>4. SettingOf(e)'.active = employee'[e].active /\ SettingOf(e)'.notify = contact'[e].notify
      BY DEF SettingOf
    <3> QED BY <3>1, <3>2, <3>3, <3>4, Zenon DEF Observed
  <2> QED BY <2>1, <2>2
<1> QED BY <1>1, <1>2

LEMMA WebEffect == ASSUME MailTypeOK, Web PROVE WebStep
<1>0. /\ EmployeeTypeOK /\ contact \in [Employees -> Contact]
      /\ jobs \in [Employees -> Nat]
  BY DEF MailTypeOK
<1>1. ASSUME NEW a \in Employees, EmployeeChange(a)
      PROVE  EmployeeTypeOK' /\ NobodyReturns
  BY <1>0, <1>1, EmployeeChangeType, EmployeeChangeReturns
<1>2. ASSUME NEW who, NEW c \in Contacts, contact' = [contact EXCEPT ![who] = c]
      PROVE  contact' \in [Employees -> Contact]
  BY <1>0, <1>2
<1>3. ASSUME NEW a \in Employees, Administer(a) PROVE WebStep
  <2>1. EmployeeTypeOK' /\ NobodyReturns /\ contact' \in [Employees -> Contact]
    <3>1. ASSUME NEW form \in Hires, NEW c \in Contacts, CreateEmployee(a, form),
                 contact' = [contact EXCEPT ![form.who] = c]
          PROVE  EmployeeTypeOK' /\ NobodyReturns /\ contact' \in [Employees -> Contact]
      BY <1>1, <1>2, <3>1 DEF EmployeeChange
    <3>2. ASSUME NEW form \in Edits, NEW c \in Contacts, EditEmployee(a, form),
                 contact' = [contact EXCEPT ![form.who] = c]
          PROVE  EmployeeTypeOK' /\ NobodyReturns /\ contact' \in [Employees -> Contact]
      BY <1>1, <1>2, <3>2 DEF EmployeeChange
    <3>3. ASSUME NEW e \in Suspendable, NEW active \in BOOLEAN, SetActive(a, e, active),
                 UNCHANGED contact
          PROVE  EmployeeTypeOK' /\ NobodyReturns /\ contact' \in [Employees -> Contact]
      BY <1>0, <1>1, <3>3 DEF EmployeeChange
    <3>4. ASSUME NEW e \in Leavers, DestroyEmployeeRow(a, e), UNCHANGED contact
          PROVE  EmployeeTypeOK' /\ NobodyReturns /\ contact' \in [Employees -> Contact]
      BY <1>0, <3>4, DestroyEmployeeType, DestroyEmployeeReturns
    <3> QED BY <1>3, <3>1, <3>2, <3>3, <3>4 DEF Administer
  <2> QED BY <1>0, <1>3, <2>1, ObserveEffect DEF Administer, WebStep, Observe
<1>4. ASSUME NEW e \in Owners, EditProfile(e) PROVE WebStep
  <2>1. employee' = [employee EXCEPT ![e] = employee[e]]
    BY <1>4, Zenon DEF EditProfile, SaveEmployee
  <2>2. employee' = employee
    BY <1>0, <2>1 DEF EmployeeTypeOK
  <2>3. EmployeeTypeOK' /\ NobodyReturns
    BY <1>0, <2>2 DEF EmployeeTypeOK, NobodyReturns
  <2>4. contact' \in [Employees -> Contact]
    BY <1>2, <1>4 DEF EditProfile
  <2> QED BY <1>0, <1>4, <2>3, <2>4, ObserveEffect DEF EditProfile, WebStep, Observe
<1> QED BY <1>3, <1>4 DEF Web

-----------------------------------------------------------------------------
(* The invariant.                                                          *)

\* Boolean columns compared with one another: reflexive and transitive.
LEMMA SameSwitchesTrans ==
    ASSUME NEW r, NEW s, NEW t, SameSwitches(r, s), SameSwitches(s, t)
    PROVE  SameSwitches(r, t)
BY Zenon DEF SameSwitches

LEMMA SameSwitchesRefl == \A s : SameSwitches(s, s)
BY DEF SameSwitches

LEMMA SettingType == ASSUME MailTypeOK PROVE \A e \in Employees : SettingOf(e) \in Setting
<1>1. \A e \in Employees : /\ employee[e].active \in BOOLEAN
                          /\ contact[e].notify \in BOOLEAN /\ contact[e].email \in BOOLEAN
  BY DEF MailTypeOK, EmployeeTypeOK, EmployeeRow, Contact
<1>2. \A a, n, m \in BOOLEAN : [active |-> a, notify |-> n, email |-> m] \in Setting
  BY DEF Setting
<1> QED BY <1>1, <1>2, Zenon DEF SettingOf

LEMMA MailInitInv == MailInit => MailInv
<1> SUFFICES ASSUME MailInit PROVE MailInv
  OBVIOUS
<1>1. EmployeeTypeOK /\ contact \in [Employees -> Contact]
  BY EmployeeInitType DEF MailInit
<1>2. \A e \in Employees : SettingOf(e) \in Setting
  <2>1. \A e \in Employees : /\ employee[e].active \in BOOLEAN
                            /\ contact[e].notify \in BOOLEAN /\ contact[e].email \in BOOLEAN
    BY <1>1 DEF EmployeeTypeOK, EmployeeRow, Contact
  <2>2. \A a, n, m \in BOOLEAN : [active |-> a, notify |-> n, email |-> m] \in Setting
    BY DEF Setting
  <2> QED BY <2>1, <2>2, Zenon DEF SettingOf
<1>3. worker.on = None /\ worker.at = "waiting" /\ worker.read \in Setting
  BY DEF MailInit, Idle, Unset, Setting
<1>4. worker \in [on : Employees \cup {None}, at : {"waiting", "token", "deliver", "done"},
                  read : Setting]
  BY DEF MailInit, Idle, Unset, Setting
<1>5. handled \in [Employees -> Setting]
  BY <1>2 DEF MailInit
<1>6. MailTypeOK
  BY <1>1, <1>3, <1>4, <1>5 DEF MailInit, MailTypeOK, Present
<1>7. SilenceMeansHandled
  <2>1. \A e \in Employees : handled[e] = SettingOf(e)
    BY Zenon DEF MailInit
  <2> QED BY <2>1, SameSwitchesRefl DEF SilenceMeansHandled, Present
<1>8. InvitedMeansToken /\ JobQueued /\ TokenStored
  BY <1>3 DEF MailInit, InvitedMeansToken, JobQueued, TokenStored
<1>9. OnlyJobIsCurrent
  BY <1>3 DEF OnlyJobIsCurrent, Present
<1>10. NoRowNoMail
  BY <1>3 DEF MailInit, NoRowNoMail, Present
<1> QED BY <1>6, <1>7, <1>8, <1>9, <1>10 DEF MailInv

LEMMA WebInv == ASSUME MailInv, WebStep PROVE MailInv'
<1>0. /\ MailTypeOK /\ SilenceMeansHandled /\ InvitedMeansToken
      /\ JobQueued /\ OnlyJobIsCurrent /\ TokenStored /\ NoRowNoMail
  BY DEF MailInv
<1>1. MailTypeOK'
  BY <1>0 DEF MailTypeOK, WebStep, queueVars
<1>2. SilenceMeansHandled'
  <2> SUFFICES ASSUME NEW e \in Employees, e \in Present(employee'), jobs'[e] = 0,
                      employee'[e].active \/ contact'[e].notify
               PROVE  SameSwitches(handled[e], SettingOf(e)')
    BY DEF SilenceMeansHandled, Present, WebStep, queueVars
  <2>1. jobs[e] \in Nat /\ Observed(e)
    BY <1>0 DEF MailTypeOK, WebStep
  <2>2. jobs'[e] # jobs[e] + 1
    BY <2>1
  <2>3. /\ jobs[e] = 0 /\ e \in Present(employee)
        /\ SameSwitches(SettingOf(e), SettingOf(e)')
    BY <2>1, <2>2 DEF Observed
  <2>4. employee[e].active \/ contact[e].notify
    BY <2>3, Zenon DEF SameSwitches, SettingOf
  <2>5. SameSwitches(handled[e], SettingOf(e))
    BY <1>0, <2>3, <2>4 DEF SilenceMeansHandled
  <2> QED BY <2>3, <2>5, SameSwitchesTrans
<1>3. InvitedMeansToken'
  BY <1>0 DEF InvitedMeansToken, NoRowNoMail, WebStep, NobodyReturns, queueVars, Present
<1>4. JobQueued'
  BY <1>0 DEF JobQueued, WebStep, Observed, queueVars, MailTypeOK
<1>5. OnlyJobIsCurrent'
  <2> SUFFICES ASSUME NEW e \in Employees, e = worker.on,
                      e \in Present(employee'), jobs'[e] = 1,
                      employee'[e].active \/ contact'[e].notify
               PROVE  IF worker.at = "done" THEN SameSwitches(handled[e], SettingOf(e)')
                      ELSE SameSwitches(worker.read, SettingOf(e)')
    BY DEF OnlyJobIsCurrent, WebStep, queueVars, Present
  <2>1. jobs[e] \in Nat /\ jobs[e] > 0 /\ Observed(e)
    BY <1>0 DEF MailTypeOK, WebStep, JobQueued
  <2>2. jobs'[e] # jobs[e] + 1
    BY <2>1
  <2>3. /\ jobs[e] = 1 /\ e \in Present(employee)
        /\ SameSwitches(SettingOf(e), SettingOf(e)')
    BY <2>1, <2>2 DEF Observed
  <2>4. employee[e].active \/ contact[e].notify
    BY <2>3, Zenon DEF SameSwitches, SettingOf
  <2>5. IF worker.at = "done" THEN SameSwitches(handled[e], SettingOf(e))
                             ELSE SameSwitches(worker.read, SettingOf(e))
    BY <1>0, <2>3, <2>4 DEF OnlyJobIsCurrent
  <2> QED BY <2>3, <2>5, SameSwitchesTrans
<1>6. TokenStored'
  BY <1>0 DEF TokenStored, NoRowNoMail, WebStep, NobodyReturns, queueVars, Present
<1>7. NoRowNoMail'
  BY <1>0 DEF NoRowNoMail, WebStep, NobodyReturns, queueVars
<1> QED BY <1>1, <1>2, <1>3, <1>4, <1>5, <1>6, <1>7 DEF MailInv

\* What the worker's steps leave alone keeps the settings as they are.
LEMMA SettingsKept ==
    ASSUME UNCHANGED <<employee, contact>>
    PROVE  \A e : SettingOf(e)' = SettingOf(e)
BY DEF SettingOf

\* A save that changes none of the columns an administrator or the employee
\* enters leaves them as they are.
LEMMA SaveOfOthers ==
    ASSUME MailTypeOK, NEW e \in Employees, NEW copy, NEW changed,
           SaveCopy(e, copy, changed),
           "active" \notin changed, "email" \notin changed, "notify" \notin changed
    PROVE  UNCHANGED <<employee, contact>>
<1>1. CASE e \in Present(employee)
  <2>1. employee' = [employee EXCEPT ![e].active = employee[e].active]
    BY <1>1, Zenon DEF SaveCopy
  <2>2. contact' = [contact EXCEPT ![e].email = contact[e].email,
                                  ![e].notify = contact[e].notify]
    BY <1>1 DEF SaveCopy
  <2>3. employee' = employee
    BY <2>1 DEF MailTypeOK, EmployeeTypeOK, EmployeeRow
  <2>4. contact' = contact
    BY <2>2 DEF MailTypeOK, Contact
  <2> QED BY <2>3, <2>4
<1>2. CASE e \notin Present(employee)
  BY <1>2 DEF SaveCopy
<1> QED BY <1>1, <1>2

LEMMA WorkerInv ==
    ASSUME MailInv,
           Job \/ Crash \/ \E e \in Employees : Load(e) \/ GiveUp(e)
    PROVE  MailInv' /\ UNCHANGED <<employee, contact>>
<1>0. /\ MailTypeOK /\ SilenceMeansHandled /\ InvitedMeansToken
      /\ JobQueued /\ OnlyJobIsCurrent /\ TokenStored /\ NoRowNoMail
  BY DEF MailInv
<1>1. ASSUME NEW e \in Employees, Load(e) PROVE MailInv' /\ UNCHANGED <<employee, contact>>
  <2>0. /\ worker' = [on |-> e, at |-> "token", read |-> SettingOf(e)]
        /\ UNCHANGED <<employee, contact, tokens, jobs, handled, invited, crashes>>
        /\ e \in Present(employee) /\ jobs[e] > 0
    BY <1>1 DEF Load, Kept
  <2>1. worker'.on = e /\ worker'.at = "token" /\ worker'.read = SettingOf(e)
    BY <2>0
  <2>2. MailTypeOK'
    BY <1>0, <2>0, SettingType DEF MailTypeOK, EmployeeTypeOK
  <2>3. OnlyJobIsCurrent'
    BY <2>0, <2>1, SettingsKept, SameSwitchesRefl DEF OnlyJobIsCurrent
  <2>4. SilenceMeansHandled'
    BY <1>0, <2>0, SettingsKept DEF SilenceMeansHandled
  <2> QED BY <1>0, <2>0, <2>1, <2>2, <2>3, <2>4
          DEF MailInv, InvitedMeansToken, JobQueued, TokenStored, NoRowNoMail, Present
<1>2. ASSUME NEW e \in Employees, GiveUp(e) PROVE MailInv' /\ UNCHANGED <<employee, contact>>
  <2>0. /\ worker.on = None /\ e \notin Present(employee)
        /\ jobs' = [jobs EXCEPT ![e] = @ - 1] /\ jobs[e] > 0
        /\ UNCHANGED <<employee, contact, tokens, worker, handled, invited, crashes>>
    BY <1>2 DEF GiveUp, Idle, queueVars
  <2>1. /\ jobs' \in [Employees -> Nat]
        /\ \A o \in Present(employee) : jobs'[o] = jobs[o]
    BY <1>0, <2>0 DEF MailTypeOK, Present
  <2>2. MailTypeOK'
    BY <1>0, <2>0, <2>1 DEF MailTypeOK, EmployeeTypeOK
  <2>3. SilenceMeansHandled'
    BY <1>0, <2>0, <2>1, SettingsKept DEF SilenceMeansHandled
  <2>4. OnlyJobIsCurrent'
    BY <2>0 DEF OnlyJobIsCurrent, Present
  <2> QED BY <1>0, <2>0, <2>2, <2>3, <2>4
          DEF MailInv, InvitedMeansToken, JobQueued, TokenStored, NoRowNoMail
<1>3. CASE EnsureToken
  <2>0. /\ worker.at = "token" /\ worker' = [worker EXCEPT !.at = "deliver"]
        /\ tokens' = tokens \cup ({worker.on} \cap Present(employee))
        /\ UNCHANGED <<employee, contact, jobs, handled, invited, crashes>>
    <3>1. worker.on \in Employees
      BY <1>0, <1>3 DEF EnsureToken, Running, MailTypeOK
    <3> DEFINE changed == IF worker.on \in tokens THEN {} ELSE {"token"}
    <3>2. SaveCopy(worker.on, worker.read, changed)
      BY <1>3 DEF EnsureToken
    <3>3. "active" \notin changed /\ "email" \notin changed /\ "notify" \notin changed
      OBVIOUS
    <3>4. UNCHANGED <<employee, contact>>
      BY <1>0, <3>1, <3>2, <3>3, SaveOfOthers
    <3>5. tokens' = tokens \cup ({worker.on} \cap Present(employee))
      BY <3>2 DEF SaveCopy
    <3> QED BY <1>3, <3>4, <3>5 DEF EnsureToken, Running, Goes
  <2>1. worker'.on = worker.on /\ worker'.at = "deliver" /\ worker'.read = worker.read
    BY <1>0, <2>0 DEF MailTypeOK
  <2>2. MailTypeOK'
    BY <1>0, <2>0 DEF MailTypeOK, EmployeeTypeOK, Present
  <2>3. OnlyJobIsCurrent'
    BY <1>0, <2>0, <2>1, SettingsKept DEF OnlyJobIsCurrent
  <2>4. SilenceMeansHandled'
    BY <1>0, <2>0, SettingsKept DEF SilenceMeansHandled
  <2> QED BY <1>0, <2>0, <2>1, <2>2, <2>3, <2>4
          DEF MailInv, InvitedMeansToken, JobQueued, TokenStored, NoRowNoMail
<1>4. CASE Deliver
  <2>0. /\ worker.at = "deliver" /\ worker' = [worker EXCEPT !.at = "done"]
        /\ handled' = [handled EXCEPT ![worker.on] = worker.read]
        /\ invited' \in {invited, invited \cup {worker.on}}
        /\ UNCHANGED <<employee, contact, tokens, jobs, crashes>>
    BY <1>4 DEF Deliver, Running, Goes, Kept
  <2>1. /\ worker'.on = worker.on /\ worker'.at = "done"
        /\ worker.on \in Employees /\ worker.read \in Setting
    BY <1>0, <2>0 DEF MailTypeOK
  <2>2. /\ handled'[worker.on] = worker.read
        /\ \A o \in Employees : o # worker.on => handled'[o] = handled[o]
    BY <1>0, <2>0, <2>1 DEF MailTypeOK
  <2>3. MailTypeOK'
    BY <1>0, <2>0, <2>1 DEF MailTypeOK, EmployeeTypeOK
  <2>4. OnlyJobIsCurrent'
    BY <1>0, <2>0, <2>1, <2>2, SettingsKept DEF OnlyJobIsCurrent
  <2>5. SilenceMeansHandled'
    <3>1. jobs[worker.on] # 0
      BY <1>0, <2>1 DEF JobQueued, MailTypeOK
    <3> QED BY <1>0, <2>0, <2>2, <3>1, SettingsKept DEF SilenceMeansHandled, Present
  <2>6. InvitedMeansToken'
    BY <1>0, <2>0, <2>1 DEF InvitedMeansToken, TokenStored
  <2> QED BY <1>0, <2>0, <2>1, <2>3, <2>4, <2>5, <2>6
          DEF MailInv, JobQueued, TokenStored, NoRowNoMail
<1>5. CASE Done
  <2>0. /\ worker.at = "done" /\ worker' = Idle
        /\ jobs' = [jobs EXCEPT ![worker.on] = @ - 1]
        /\ UNCHANGED <<employee, contact, tokens, handled, invited, crashes>>
    BY <1>5 DEF Done, Running
  <2>1. /\ worker.on \in Employees /\ jobs[worker.on] > 0
        /\ worker'.on = None /\ worker'.at = "waiting"
    BY <1>0, <2>0 DEF MailTypeOK, JobQueued, Idle
  <2>2. worker' \in [on : Employees \cup {None},
                     at : {"waiting", "token", "deliver", "done"}, read : Setting]
    BY <2>0 DEF Idle, Unset, Setting
  <2>3. /\ jobs' \in [Employees -> Nat]
        /\ jobs'[worker.on] = jobs[worker.on] - 1
        /\ \A o \in Employees : o # worker.on => jobs'[o] = jobs[o]
    BY <1>0, <2>0, <2>1 DEF MailTypeOK
  <2>4. MailTypeOK'
    BY <1>0, <2>0, <2>1, <2>2, <2>3 DEF MailTypeOK, EmployeeTypeOK
  <2>5. SilenceMeansHandled'
    <3> SUFFICES ASSUME NEW e \in Present(employee), jobs'[e] = 0,
                        employee[e].active \/ contact[e].notify
                 PROVE  SameSwitches(handled[e], SettingOf(e))
      BY <2>0, SettingsKept DEF SilenceMeansHandled
    <3>1. CASE e = worker.on
      <4>1. jobs[e] = 1
        BY <1>0, <2>1, <2>3, <3>1 DEF MailTypeOK
      <4> QED BY <1>0, <2>0, <3>1, <4>1 DEF OnlyJobIsCurrent
    <3>2. CASE e # worker.on
      BY <1>0, <2>3, <3>2 DEF SilenceMeansHandled, Present
    <3> QED BY <3>1, <3>2
  <2>6. OnlyJobIsCurrent'
    BY <2>1 DEF OnlyJobIsCurrent, Present
  <2> QED BY <1>0, <2>0, <2>1, <2>4, <2>5, <2>6
          DEF MailInv, InvitedMeansToken, JobQueued, TokenStored, NoRowNoMail
<1>6. CASE Crash
  <2>0. /\ worker' = Idle /\ crashes' = crashes + 1 /\ crashes < MaxCrashes
        /\ UNCHANGED <<employee, contact, tokens, jobs, handled, invited>>
    BY <1>6 DEF Crash
  <2>1. /\ worker'.on = None /\ worker'.at = "waiting"
        /\ worker' \in [on : Employees \cup {None},
                        at : {"waiting", "token", "deliver", "done"}, read : Setting]
    BY <2>0 DEF Idle, Unset, Setting
  <2>2. MailTypeOK'
    BY <1>0, <2>0, <2>1 DEF MailTypeOK, EmployeeTypeOK
  <2>3. SilenceMeansHandled'
    BY <1>0, <2>0, SettingsKept DEF SilenceMeansHandled
  <2>4. OnlyJobIsCurrent'
    BY <2>1 DEF OnlyJobIsCurrent, Present
  <2> QED BY <1>0, <2>0, <2>1, <2>2, <2>3, <2>4
          DEF MailInv, InvitedMeansToken, JobQueued, TokenStored, NoRowNoMail
<1> QED BY <1>1, <1>2, <1>3, <1>4, <1>5, <1>6 DEF Job

LEMMA StutterInv == ASSUME MailInv, UNCHANGED mailVars PROVE MailInv'
<1>1. /\ UNCHANGED <<employee, contact, tokens, jobs, worker, handled, invited, crashes>>
      /\ \A e : SettingOf(e)' = SettingOf(e)
  BY SettingsKept DEF mailVars
<1> QED BY <1>1 DEF MailInv, MailTypeOK, EmployeeTypeOK, SilenceMeansHandled,
                    InvitedMeansToken, JobQueued, OnlyJobIsCurrent, TokenStored, NoRowNoMail

LEMMA MailNextInv == MailInv /\ [MailNext]_mailVars => MailInv'
<1>1. ASSUME MailInv, Web PROVE MailInv'
  BY <1>1, WebEffect, WebInv DEF MailInv
<1> QED BY <1>1, WorkerInv, StutterInv DEF MailNext

-----------------------------------------------------------------------------
(* Theorems.                                                               *)

\* The invariant holds whatever is changed, enqueued, run and interrupted.
THEOREM MailsCorrect == MailSpec => []MailInv
BY MailInitInv, MailNextInv, PTL DEF MailSpec

\* The contact details, the queue and the worker's progress keep their types.
THEOREM MailTypeCorrect == MailSpec => []MailTypeOK
<1>1. MailInv => MailTypeOK
  BY DEF MailInv
<1> QED BY <1>1, MailsCorrect, PTL

\* With no job left, the last one has acted on an employee's present switches.
THEOREM HandledCorrect == MailSpec => []SilenceMeansHandled
<1>1. MailInv => SilenceMeansHandled
  BY DEF MailInv
<1> QED BY <1>1, MailsCorrect, PTL

\* Whoever was sent a link has a token stored that it can be checked against.
THEOREM TokenCorrect == MailSpec => []InvitedMeansToken
<1>1. MailInv => InvitedMeansToken
  BY DEF MailInv
<1> QED BY <1>1, MailsCorrect, PTL

\* No job writes back what administrators and employees have changed meanwhile.
THEOREM WritesCorrect == MailSpec => NothingWrittenBack
<1>1. ASSUME MailInv, [MailNext]_mailVars
      PROVE  [<<employee, contact>>' # <<employee, contact>> => Web]_mailVars
  BY <1>1, WorkerInv DEF MailNext
<1> QED BY <1>1, MailsCorrect, PTL DEF MailSpec, NothingWrittenBack
=============================================================================
