SPECIFICATION MailSpec
CONSTANTS
    None = None
    boss = boss
    clerk = clerk
    Employees = {boss, clerk}
    Staffing <- BossAlone
    Hires <- ClerkForms
    Edits <- ClerkForms
    Suspendable = {clerk}
    Leavers = {clerk}
    Owners = {clerk}
    Contacts <- Contact
    MaxJobs = 3
    MaxCrashes = 2
INVARIANTS
    MailTypeOK
    SilenceMeansHandled
    InvitedMeansToken
PROPERTIES
    NothingWrittenBack
    EventuallyInvited
CHECK_DEADLOCK FALSE
