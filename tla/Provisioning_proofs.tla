------------------------ MODULE Provisioning_proofs ------------------------
(***************************************************************************)
(* Provisioning keeps its promises however many companies register, and    *)
(* however often the worker is killed.                                     *)
(***************************************************************************)
EXTENDS Provisioning, TLAPS

(***************************************************************************)
(* A registration that asks for a subdomain holds it alone, and a job      *)
(* belongs to a registration.                                              *)
(***************************************************************************)
Ownership ==
    /\ \A q, r \in Registrations :
          registration[q] # None /\ registration[q] = registration[r] => q = r
    /\ \A r \in Registrations : jobs[r] # "none" => registration[r] # None

(***************************************************************************)
(* Where the worker stands says which mails it has enqueued.               *)
(***************************************************************************)
Progress ==
    /\ worker.at \in Mails \cup {"done"} => worker.of \in active
    /\ worker.at = "system" => \A m \in Mails : mails[worker.of][m] = 0
    /\ worker.at = "welcome" => mails[worker.of]["system"] = 1 /\ mails[worker.of]["welcome"] = 0
    /\ worker.at = "done" => \A m \in Mails : mails[worker.of][m] = 1

ProvisioningInv ==
    /\ ProvisioningTypeOK
    /\ AccountsMatch
    /\ WelcomedOnce
    /\ ActiveHasAdministrator
    /\ Ownership
    /\ Progress

USE DEF AccountStates, JobStates, Mails, Idle

-----------------------------------------------------------------------------

LEMMA InitInv == ProvisioningInit => ProvisioningInv
  BY ProvisioningAssumption
  DEF ProvisioningInit, ProvisioningInv, ProvisioningTypeOK, AccountsMatch, WelcomedOnce,
      ActiveHasAdministrator, Ownership, Progress

\* A registration takes a subdomain that no other has asked for.
LEMMA RegisterKeepsInv ==
    ASSUME ProvisioningInv, NEW r \in Registrations, NEW s \in Subdomains, Register(r, s)
    PROVE  ProvisioningInv'
<1> USE ProvisioningAssumption DEF ProvisioningInv, Register
<1>1. ProvisioningTypeOK'
  BY DEF ProvisioningTypeOK
<1>2. r \notin active
  BY DEF AccountsMatch
<1>3. AccountsMatch'
  BY <1>2 DEF AccountsMatch, ProvisioningTypeOK
<1>4. WelcomedOnce'
  BY <1>2 DEF WelcomedOnce, ProvisioningTypeOK
<1>5. ActiveHasAdministrator' /\ Progress'
  BY DEF ActiveHasAdministrator, Progress
<1>6. Ownership'
  BY DEF Ownership, ProvisioningTypeOK
<1> QED
  BY <1>1, <1>3, <1>4, <1>5, <1>6

\* Setting an account up adds to what it has.
LEMMA SetUpKeepsInv ==
    ASSUME ProvisioningInv, NEW s \in Subdomains, NEW u \in UserNames, SetUp(s, u)
    PROVE  ProvisioningInv'
<1> USE DEF ProvisioningInv, SetUp
<1>1. ProvisioningTypeOK'
  BY DEF ProvisioningTypeOK
<1>2. AccountsMatch' /\ Ownership'
  BY DEF AccountsMatch, Ownership, ProvisioningTypeOK
<1>3. ActiveHasAdministrator'
  BY DEF ActiveHasAdministrator, ProvisioningTypeOK
<1>4. WelcomedOnce' /\ Progress'
  BY DEF WelcomedOnce, Progress
<1> QED
  BY <1>1, <1>2, <1>3, <1>4

\* The transaction of the job; an account that is there already stops it.
LEMMA ProvisionKeepsInv ==
    ASSUME ProvisioningInv, NEW r \in Registrations, Provision(r)
    PROVE  ProvisioningInv'
<1> USE ProvisioningAssumption DEF ProvisioningInv, Provision, Running, Goes, web
<1>1. registration[r] \in Subdomains /\ jobs[r] = "queued" /\ worker.of = r
  BY DEF ProvisioningTypeOK, Ownership
<1>2. r \notin active
  BY DEF AccountsMatch
<1>3. worker' = [of |-> r, at |-> "system"]
  OBVIOUS
<1>4. ProvisioningTypeOK'
  BY <1>1, <1>3 DEF ProvisioningTypeOK
<1>5. AccountsMatch' /\ Ownership'
  BY <1>1 DEF AccountsMatch, Ownership, ProvisioningTypeOK
<1>6. \A m \in Mails : mails[r][m] = 0
  BY <1>2 DEF WelcomedOnce, ProvisioningTypeOK
<1>7. WelcomedOnce'
  BY <1>1, <1>6 DEF WelcomedOnce, ProvisioningTypeOK
<1>8. ActiveHasAdministrator'
  BY <1>1 DEF ActiveHasAdministrator, ProvisioningTypeOK
<1>9. Progress'
  BY <1>3, <1>6 DEF Progress
<1> QED
  BY <1>4, <1>5, <1>7, <1>8, <1>9

LEMMA EnqueueMailKeepsInv ==
    ASSUME ProvisioningInv, NEW r \in Registrations, EnqueueMail(r)
    PROVE  ProvisioningInv'
<1> DEFINE m == worker.at
<1> USE DEF ProvisioningInv, EnqueueMail, Goes, web
<1>1. r \in active /\ jobs[r] = "queued" /\ mails[r][m] = 0
  BY ProvisioningAssumption DEF ProvisioningTypeOK, Progress
<1>2. worker' = [of |-> r, at |-> IF m = "system" THEN "welcome" ELSE "done"]
  BY DEF ProvisioningTypeOK
<1>3. mails'[r] = [mails[r] EXCEPT ![m] = 1]
  BY <1>1 DEF ProvisioningTypeOK
<1>4. \A q \in Registrations \ {r} : mails'[q] = mails[q]
  BY DEF ProvisioningTypeOK
<1>5. ProvisioningTypeOK'
  <2>1. mails[r][m] + 1 \in Nat /\ mails[r] \in [Mails -> Nat]
    BY DEF ProvisioningTypeOK
  <2>2. [mails[r] EXCEPT ![m] = @ + 1] \in [Mails -> Nat]
    BY <2>1
  <2>3. mails' \in [Registrations -> [Mails -> Nat]]
    BY <2>2 DEF ProvisioningTypeOK
  <2>4. worker' \in [of : Registrations, at : {"provision", "done"} \cup Mails]
    BY <1>2
  <2> QED
    BY <1>1, <1>2, <2>3, <2>4 DEF ProvisioningTypeOK
<1>6. WelcomedOnce'
  BY <1>1, <1>3, <1>4 DEF WelcomedOnce, ProvisioningTypeOK
<1>7. Progress'
  BY <1>1, <1>2, <1>3 DEF Progress, ProvisioningTypeOK
<1>8. AccountsMatch' /\ ActiveHasAdministrator' /\ Ownership'
  BY DEF AccountsMatch, ActiveHasAdministrator, Ownership
<1> QED
  BY <1>5, <1>6, <1>7, <1>8

\* The steps that only move the job or the worker.
LEMMA QueueKeepsInv ==
    ASSUME ProvisioningInv,
           Crash \/ \E r \in Registrations : Take(r) \/ Raise(r) \/ Done(r)
    PROVE  ProvisioningInv'
<1> USE ProvisioningAssumption DEF ProvisioningInv
<1>1. CASE Crash
  BY <1>1
  DEF Crash, web, ProvisioningTypeOK, AccountsMatch, WelcomedOnce, ActiveHasAdministrator,
      Ownership, Progress
<1>2. ASSUME NEW r \in Registrations, Take(r)
      PROVE  ProvisioningInv'
  BY <1>2
  DEF Take, web, ProvisioningTypeOK, AccountsMatch, WelcomedOnce, ActiveHasAdministrator,
      Ownership, Progress
<1>3. ASSUME NEW r \in Registrations, Raise(r)
      PROVE  ProvisioningInv'
  <2> USE DEF Raise, Running, web
  <2>1. jobs'[r] # "none" /\ \A q \in Registrations \ {r} : jobs'[q] = jobs[q]
    BY <1>3 DEF ProvisioningTypeOK
  <2>2. jobs' \in [Registrations -> JobStates] /\ jobs[r] = "queued"
    BY <1>3 DEF ProvisioningTypeOK
  <2>3. ProvisioningTypeOK'
    BY <1>3, <2>2 DEF ProvisioningTypeOK
  <2>4. WelcomedOnce' /\ Ownership'
    BY <1>3, <2>1, <2>2 DEF WelcomedOnce, Ownership
  <2>5. AccountsMatch' /\ ActiveHasAdministrator' /\ Progress'
    BY <1>3 DEF AccountsMatch, ActiveHasAdministrator, Progress
  <2> QED
    BY <2>3, <2>4, <2>5
<1>4. ASSUME NEW r \in Registrations, Done(r)
      PROVE  ProvisioningInv'
  BY <1>4
  DEF Done, Running, web, ProvisioningTypeOK, AccountsMatch, WelcomedOnce,
      ActiveHasAdministrator, Ownership, Progress
<1> QED
  BY <1>1, <1>2, <1>3, <1>4

LEMMA StepKeepsInv ==
    ProvisioningInv /\ [ProvisioningNext]_provisioningVars => ProvisioningInv'
<1> SUFFICES ASSUME ProvisioningInv, [ProvisioningNext]_provisioningVars
             PROVE  ProvisioningInv'
  OBVIOUS
<1>1. CASE UNCHANGED provisioningVars
  BY <1>1
  DEF provisioningVars, web, ProvisioningInv, ProvisioningTypeOK, AccountsMatch,
      WelcomedOnce, ActiveHasAdministrator, Ownership, Progress
<1>2. CASE ProvisioningNext
  BY <1>2, RegisterKeepsInv, SetUpKeepsInv, ProvisionKeepsInv, EnqueueMailKeepsInv,
     QueueKeepsInv
  DEF ProvisioningNext, Step
<1> QED
  BY <1>1, <1>2

-----------------------------------------------------------------------------

(***************************************************************************)
(* The inductive invariant of provisioning.                                *)
(***************************************************************************)
THEOREM ProvisioningCorrect == ProvisioningSpec => []ProvisioningInv
  BY InitInv, StepKeepsInv, PTL DEF ProvisioningSpec

(***************************************************************************)
(* Accounts and registrations that are ready correspond one to one, with   *)
(* any number of companies, subdomains and crashes.                        *)
(***************************************************************************)
THEOREM AccountsCorrect == ProvisioningSpec => []AccountsMatch
<1>1. ProvisioningInv => AccountsMatch
  BY DEF ProvisioningInv
<1> QED
  BY <1>1, ProvisioningCorrect, PTL

(***************************************************************************)
(* No company is welcomed twice, or before its account is ready, and none  *)
(* is left out by a job that ended.                                        *)
(***************************************************************************)
THEOREM WelcomeCorrect == ProvisioningSpec => []WelcomedOnce
<1>1. ProvisioningInv => WelcomedOnce
  BY DEF ProvisioningInv
<1> QED
  BY <1>1, ProvisioningCorrect, PTL

(***************************************************************************)
(* Every account that was set up has an administrator from then on.        *)
(***************************************************************************)
THEOREM AdministratorCorrect == ProvisioningSpec => []ActiveHasAdministrator
<1>1. ProvisioningInv => ActiveHasAdministrator
  BY DEF ProvisioningInv
<1> QED
  BY <1>1, ProvisioningCorrect, PTL

\* The registrations, the queue and the worker's progress keep their types.
THEOREM ProvisioningTypeCorrect == ProvisioningSpec => []ProvisioningTypeOK
<1>1. ProvisioningInv => ProvisioningTypeOK
  BY DEF ProvisioningInv
<1> QED
  BY <1>1, ProvisioningCorrect, PTL
=============================================================================
