SPECIFICATION SessionSpec
CONSTANTS
    None = None
    boss = boss
    clerk = clerk
    annual = annual
    study = study
    late = late
    Employees = {boss, clerk}
    Requests = {r1, r2}
    Processes = {p1, p2}
    MaxLoads = 3
    LeaveTypes = {annual, study}
    ApprovalFree = {study}
    Constraints = {late}
    LastDay = 1
    Weekend = {}
    FirstDay <- BossIsLate
    Hires <- NoForms
    Edits <- NoForms
    Suspendable = {}
    Leavers = {}
    Staffing <- OneOffice
INVARIANTS
    GrantedByAuthority
    OneLockedCopy
    DoubleCountRaced
PROPERTIES
    OnlyOutdatedDeviate
SYMMETRY SessionSymmetry
CHECK_DEADLOCK FALSE
