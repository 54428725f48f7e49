SPECIFICATION ConstraintSpec
CONSTANTS
    Dates <- FridayToFriday
    Holidays <- SeveralHolidays
    LateHolidays <- ThatWednesday
    SettingsSet <- SomeSettings
    MaxRequests = 1
CHECK_DEADLOCK FALSE
INVARIANT
    DurationMatchesDays
