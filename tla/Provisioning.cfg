SPECIFICATION ProvisioningSpec
CONSTANTS
    None = None
    Registrations = {acme, apex}
    Subdomains = {s1, s2}
    UserNames = {ann, bob}
    MaxCrashes = 2
INVARIANTS
    ProvisioningTypeOK
    AccountsMatch
    WelcomedOnce
    ActiveHasAdministrator
PROPERTY
    RegisteredGetsAccount
CHECK_DEADLOCK FALSE
