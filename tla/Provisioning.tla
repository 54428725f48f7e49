---------------------------- MODULE Provisioning ----------------------------
(***************************************************************************)
(* How a company gets its account: somebody registers it on the public     *)
(* site (app/controllers/registrations_controller.rb), a job creates the   *)
(* account and enqueues the mails that welcome the company (app/workers/   *)
(* account_provisioner.rb), and the first administrator sets the account   *)
(* up (lib/account_setup.rb).                                              *)
(*                                                                         *)
(* Each commit of the job is a step of its own.  Between two of them the   *)
(* web process serves the others, or the worker is killed: the job stays   *)
(* in the queue and is run again from the start.                           *)
(***************************************************************************)
EXTENDS Naturals

CONSTANTS
    Registrations,  \* identities of registrations
    Subdomains,     \* those of the companies, none of them reserved
    UserNames,      \* names administrators may choose
    None,           \* null
    MaxCrashes      \* bound: times the worker is killed

ASSUME ProvisioningAssumption ==
    None \notin Registrations \cup Subdomains /\ MaxCrashes \in Nat

VARIABLES
    registration,   \* the subdomain each registration asks for, or None
    active,         \* the registrations whose account is ready
    account,        \* the state of each subdomain's account
    administrators, \* the employees of each account that set it up
    jobs,           \* the provisioning job of each registration
    worker,         \* the registration being provisioned and the next step
    mails,          \* how many mails of each kind a registration has had
    crashes         \* counter for the bound

web == <<registration, administrators>>
provisioningVars == <<web, active, account, jobs, worker, mails, crashes>>

AccountStates == {"none", "inactive", "active"}
JobStates == {"none", "queued", "failed"}
Mails == {"system", "welcome"}

Idle == [of |-> None, at |-> "waiting"]

ProvisioningInit ==
    /\ registration = [r \in Registrations |-> None]
    /\ active = {}
    /\ account = [s \in Subdomains |-> "none"]
    /\ administrators = [s \in Subdomains |-> {}]
    /\ jobs = [r \in Registrations |-> "none"]
    /\ worker = Idle
    /\ mails = [r \in Registrations |-> [m \in Mails |-> 0]]
    /\ crashes = 0

-----------------------------------------------------------------------------
(* The web process.                                                        *)

\* create: the observer enqueues the job in the transaction of the insert.
Register(r, s) ==
    /\ registration[r] = None
    /\ \A q \in Registrations : registration[q] # s
    /\ registration' = [registration EXCEPT ![r] = s]
    /\ jobs' = [jobs EXCEPT ![r] = "queued"]
    /\ UNCHANGED <<administrators, active, account, worker, mails, crashes>>

\* Mutant of SetUp: without the transaction, the account is activated first.
SetUpInAnyCase(s, u) ==
    /\ account[s] # "none"
    /\ account' = [account EXCEPT ![s] = "active"]
    /\ \/ u \notin administrators[s]
          /\ administrators' = [administrators EXCEPT ![s] = @ \cup {u}]
       \/ UNCHANGED administrators
    /\ UNCHANGED <<registration, active, jobs, worker, mails, crashes>>

\* update, which asks for the token of the account and not whether it is active
\* already.  A user name that is taken violates an index and takes the
\* transaction back.
SetUp(s, u) ==
    /\ account[s] # "none"
    /\ u \notin administrators[s]
    /\ administrators' = [administrators EXCEPT ![s] = @ \cup {u}]
    /\ account' = [account EXCEPT ![s] = "active"]
    /\ UNCHANGED <<registration, active, jobs, worker, mails, crashes>>

-----------------------------------------------------------------------------
(* The worker process.  After each step worker.at names the next one.      *)

Running(r, at) == worker = [of |-> r, at |-> at]

Goes(at) == worker' = [worker EXCEPT !.at = at]

Take(r) ==
    /\ worker = Idle
    /\ jobs[r] = "queued"
    /\ worker' = [of |-> r, at |-> "provision"]
    /\ UNCHANGED <<web, active, account, jobs, mails, crashes>>

\* Mutant of Provision: an account that exists is taken for the one to create.
ProvisionAgain(r) ==
    LET s == registration[r] IN
    /\ Running(r, "provision")
    /\ account' = [account EXCEPT ![s] = IF @ = "none" THEN "inactive" ELSE @]
    /\ active' = active \cup {r}
    /\ Goes("system")
    /\ UNCHANGED <<web, jobs, mails, crashes>>

\* Mutant of Provision: the account is saved outside the transaction.
ProvisionInParts(r) ==
    LET s == registration[r] IN
    /\ Running(r, "provision")
    /\ account[s] = "none"
    /\ account' = [account EXCEPT ![s] = "inactive"]
    /\ \/ active' = active \cup {r} /\ Goes("system")
       \/ active' = active /\ worker' = Idle
    /\ UNCHANGED <<web, jobs, mails, crashes>>

\* The transaction: the account and what belongs to it, and the registration.
Provision(r) ==
    LET s == registration[r] IN
    /\ Running(r, "provision")
    /\ account[s] = "none"
    /\ account' = [account EXCEPT ![s] = "inactive"]
    /\ active' = active \cup {r}
    /\ Goes("system")
    /\ UNCHANGED <<web, jobs, mails, crashes>>

\* Mutant of Raise: the job goes on after an account that was not saved.
RaiseAndGoOn(r) ==
    /\ Running(r, "provision")
    /\ account[registration[r]] # "none"
    /\ jobs' \in {jobs, [jobs EXCEPT ![r] = "failed"]}
    /\ Goes("system")
    /\ UNCHANGED <<web, active, account, mails, crashes>>

\* account.save! raises, for subdomains are unique: the job runs again later,
\* or has done so often enough.
Raise(r) ==
    /\ Running(r, "provision")
    /\ account[registration[r]] # "none"
    /\ jobs' \in {jobs, [jobs EXCEPT ![r] = "failed"]}
    /\ worker' = Idle
    /\ UNCHANGED <<web, active, account, mails, crashes>>

\* Enqueues one of the two mails; the job that sends it is not modelled.
EnqueueMail(r) ==
    LET m == worker.at IN
    /\ worker.of = r
    /\ m \in Mails
    /\ mails' = [mails EXCEPT ![r][m] = @ + 1]
    /\ Goes(IF m = "system" THEN "welcome" ELSE "done")
    /\ UNCHANGED <<web, active, account, jobs, crashes>>

Done(r) ==
    /\ Running(r, "done")
    /\ jobs' = [jobs EXCEPT ![r] = "none"]
    /\ worker' = Idle
    /\ UNCHANGED <<web, active, account, mails, crashes>>

\* Mutant of Crash: the job of a worker that died is not run again.
CrashLosingJob ==
    /\ worker # Idle /\ crashes < MaxCrashes
    /\ worker' = Idle
    /\ jobs' = [jobs EXCEPT ![worker.of] = "none"]
    /\ crashes' = crashes + 1
    /\ UNCHANGED <<web, active, account, mails>>

Crash ==
    /\ worker # Idle /\ crashes < MaxCrashes
    /\ worker' = Idle
    /\ crashes' = crashes + 1
    /\ UNCHANGED <<web, active, account, jobs, mails>>

Step(r) == Provision(r) \/ Raise(r) \/ EnqueueMail(r) \/ Done(r)

ProvisioningNext ==
    \/ \E r \in Registrations, s \in Subdomains : Register(r, s)
    \/ \E s \in Subdomains, u \in UserNames : SetUp(s, u)
    \/ \E r \in Registrations : Take(r) \/ Step(r)
    \/ Crash

(***************************************************************************)
(* The worker polls its queue by run_at for ever, so each job has its turn *)
(* and what it began goes on; bounded crashes stand for the assumption     *)
(* that the worker is not killed for ever.                                 *)
(***************************************************************************)
ProvisioningFairness ==
    \A r \in Registrations :
        SF_provisioningVars(Take(r)) /\ WF_provisioningVars(Step(r))

ProvisioningSpec ==
    ProvisioningInit /\ [][ProvisioningNext]_provisioningVars /\ ProvisioningFairness

-----------------------------------------------------------------------------

ProvisioningTypeOK ==
    /\ registration \in [Registrations -> Subdomains \cup {None}]
    /\ active \subseteq Registrations
    /\ account \in [Subdomains -> AccountStates]
    /\ administrators \in [Subdomains -> SUBSET UserNames]
    /\ jobs \in [Registrations -> JobStates]
    /\ worker \in [of : Registrations, at : {"provision", "done"} \cup Mails] \cup {Idle}
    /\ worker # Idle => jobs[worker.of] = "queued"
    /\ mails \in [Registrations -> [Mails -> Nat]]
    /\ crashes \in Nat

(***************************************************************************)
(* Every account belongs to one registration, which says that it is ready, *)
(* and a registration says so only if there is an account to redirect to   *)
(* (account_provisioner.rb:10-71, registrations/query.js.erb:1), whatever  *)
(* crashes and retries came between.                                       *)
(***************************************************************************)
AccountsMatch ==
    /\ \A r \in active : registration[r] # None /\ account[registration[r]] # "none"
    /\ \A s \in Subdomains :
          account[s] # "none" => \E r \in active : registration[r] = s
    /\ \A q, r \in active : registration[q] = registration[r] => q = r

(***************************************************************************)
(* However often the job runs, a company is welcomed at most once, never   *)
(* before its account is ready, and once if the job ended without failing  *)
(* (account_provisioner.rb:23, 73-75).  A job that was interrupted before  *)
(* the mails fails when it is run again, and they are not sent.            *)
(***************************************************************************)
WelcomedOnce ==
    \A r \in Registrations, m \in Mails :
        /\ mails[r][m] <= IF r \in active THEN 1 ELSE 0
        /\ r \in active /\ jobs[r] = "none" => mails[r][m] = 1

(***************************************************************************)
(* An account that has been set up has somebody who can sign in to it      *)
(* (account_setup.rb:35-84), also when the form is sent several times.   *)
(***************************************************************************)
ActiveHasAdministrator ==
    \A s \in Subdomains : account[s] = "active" => administrators[s] # {}

(***************************************************************************)
(* "Your account is being provisioned and will be available shortly" (show *)
(* .html.erb:3): a company that registered gets its account, crashes or    *)
(* not.                                                                    *)
(***************************************************************************)
RegisteredGetsAccount ==
    \A r \in Registrations : registration[r] # None ~> r \in active
=============================================================================
