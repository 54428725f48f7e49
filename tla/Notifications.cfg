SPECIFICATION NotificationSpec
CONSTANTS
    None = None
    boss = boss
    lead = lead
    clerk = clerk
    annual = annual
    family = family
    late = late
    Employees = {boss, lead, clerk}
    Requests = {1}
    LeaveTypes = {annual, family}
    ApprovalFree = {family}
    Constraints = {late}
    LastDay = 1
    Weekend = {}
    FirstDay <- FromTheStart
    Hires <- NoForms
    Edits <- NoForms
    Suspendable = {}
    Leavers = {lead}
    Staffing <- ThreeLevels
    MaxJobs = 2
    Notified = {lead, clerk}
INVARIANTS
    NotificationTypeOK
    SilenceMeansAnnounced
PROPERTY
    EventuallyAnnounced
CHECK_DEADLOCK FALSE
