SPECIFICATION Spec
CONSTANTS
    None = None
    boss = boss
    lead = lead
    clerk = clerk
    annual = annual
    family = family
    late = late
    r1 = r1
    r2 = r2
    Employees = {boss, clerk}
    Requests = {r1, r2}
    LeaveTypes = {annual}
    ApprovalFree = {}
    Constraints = {late}
    LastDay = 2
    Weekend = {2}
    FirstDay <- FromTheStart
    Hires <- NoForms
    Edits <- NoForms
    Suspendable = {}
    Leavers = {}
    Staffing <- ClerkWithoutAccess
INVARIANTS
    WorkflowInv
    DoubleCountExplained
SYMMETRY RequestSymmetry
CHECK_DEADLOCK FALSE
