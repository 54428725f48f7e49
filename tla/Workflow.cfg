SPECIFICATION Spec
CONSTANTS
    None = None
    boss = boss
    lead = lead
    clerk = clerk
    annual = annual
    family = family
    late = late
    Employees = {boss, lead, clerk}
    Requests = {1}
    LeaveTypes = {annual, family}
    ApprovalFree = {family}
    Constraints = {late}
    LastDay = 1
    Weekend = {}
    FirstDay <- FromTheStart
    Hires <- ClerkUnderLead
    Edits <- Reshuffles
    Suspendable = {lead}
    Leavers = {lead}
    Staffing <- TwoLevels
INVARIANTS
    TypeOK
    AuditTrail
    NoOrphans
PROPERTIES
    KeepsLedger
    StrandedStays
CHECK_DEADLOCK FALSE
