SPECIFICATION Spec
CONSTANTS
    Presses = {"first", "second"}
    MaxAsked = 4
    Taps = {"copy", "send"}
    Sends = {"send"}
    MaxEdits = 4
    MaxRuns = 4
    MaxClock = 1
    MaxSessions = 2
    CIVIL_YEAR_MIN = 1896
    CIVIL_YEAR_MAX = 1904
    NoYear = 9999
    Calendars <- TheCalendars
    Bases <- TheBases
    Zones <- TheZones
    Steps <- TheSteps
    DAY = 4
    I64_MAX = 9000000
    MAX_BUSINESS_DAYS = 4
    DEGENERATE_GAP_DAYS = 16
    MaxSteps = 2
    AskedYears <- TheYears
CHECK_DEADLOCK FALSE
INVARIANTS AnswersAreNewest RecordsAreTrue EngineIsExact
PROPERTIES NewestIsTaken ResultsStand NobodyWaitsForEver
