---------------------------- MODULE LeaveLedger ----------------------------
(***************************************************************************)
(* What the leave workflow promises, whatever its screens, its two-step    *)
(* saves and its permission rules look like: a ledger with one entry per   *)
(* leave request.  Leave is taken only from a "granted" entry; an entry    *)
(* becomes granted in the name of one person who holds authority over it   *)
(* at that moment (or over a kind of leave that nobody has to approve); a  *)
(* refusal or a withdrawal can be turned into leave again only by          *)
(* withdrawing first and then by somebody with authority.                  *)
(***************************************************************************)
CONSTANTS Requests, Employees, None

VARIABLES
    phase,      \* where each entry stands
    grantor,    \* the person a granted entry was granted by, None otherwise
    authority,  \* the people with authority over each entry; anybody may
                \* gain or lose it at any moment
    free        \* the entries for leave that needs no approval

ledgerVars == <<phase, grantor, authority, free>>

Phases == {"unused", "draft", "asked", "granted", "refused", "withdrawn", "erased"}

LedgerInit ==
    /\ phase = [r \in Requests |-> "unused"]
    /\ grantor = [r \in Requests |-> None]
    /\ authority = [r \in Requests |-> {}]
    /\ free = {}

\* One entry moves; the other entries keep their phase and their grantor.
Moves(r, from, to, e) ==
    /\ phase[r] \in from
    /\ phase' = [phase EXCEPT ![r] = to]
    /\ grantor' = [grantor EXCEPT ![r] = e]

Enter(r) ==
    /\ \E p \in {"draft", "asked"} : Moves(r, {"unused"}, p, None)
    /\ free' \in {free, free \cup {r}}

Ask(r) == Moves(r, {"draft"}, "asked", None) /\ free' = free

\* Granted on entry, on confirmation of a draft, or by a later decision.
Grant(r, e) ==
    /\ Moves(r, {"unused", "draft", "asked"}, "granted", e)
    /\ free' \in {free, free \cup {r}}
    /\ phase[r] # "unused" => free' = free
    /\ e \in authority'[r] \/ r \in free'

Refuse(r) == Moves(r, {"asked"}, "refused", None) /\ free' = free

Withdraw(r) ==
    /\ Moves(r, {"asked", "granted", "refused"}, "withdrawn", None)
    /\ free' = free

Restore(r, e) ==
    /\ Moves(r, {"withdrawn"}, "granted", e)
    /\ e \in authority'[r]
    /\ free' = free

\* A draft is thrown away, or every entry of a person who leaves.
Erase(S) ==
    /\ \A r \in S : phase[r] # "unused"
    /\ phase' = [r \in Requests |-> IF r \in S THEN "erased" ELSE phase[r]]
    /\ grantor' = [r \in Requests |-> IF r \in S THEN None ELSE grantor[r]]
    /\ free' = free \ S

\* The organisation changes and no entry does.
Reorganise == UNCHANGED <<phase, grantor, free>>

LedgerNext ==
    /\ \/ \E r \in Requests : Enter(r) \/ Ask(r) \/ Refuse(r) \/ Withdraw(r)
       \/ \E r \in Requests, e \in Employees : Grant(r, e) \/ Restore(r, e)
       \/ \E S \in SUBSET Requests : Erase(S)
       \/ Reorganise
    /\ authority' \in [Requests -> SUBSET Employees]

LedgerSpec == LedgerInit /\ [][LedgerNext]_ledgerVars
=============================================================================
