SPECIFICATION Spec
CONSTANTS
    None = None
    Hours = 4
    Minutes = 3
    beginHour = 1
    beginMinute = 1
    MaxTime = 60
INVARIANTS TypeOK IdleMeansRecent FirstWithinDay
