SPECIFICATION EmployeeSpec
CONSTANTS
    None = None
    boss = boss
    ann = ann
    bob = bob
    cyd = cyd
    Employees = {boss, ann, bob, cyd}
    Staffing <- AtFirst
    Hires <- Newcomer
    Edits <- Rearrangements
    Suspendable = {bob}
    Leavers = {bob}
INVARIANTS
    StaffListComplete
    StaffReportUp
    StaffNests
