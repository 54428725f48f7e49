SPECIFICATION ConstraintSpec
CONSTANTS
    Dates <- FridayToTuesday
    Holidays <- SundayAndMonday
    LateHolidays <- NoDates
    SettingsSet <- SomeSettings
    MaxRequests = 2
CHECK_DEADLOCK FALSE
PROPERTY
    OverdraftWarned
