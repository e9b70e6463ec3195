SPECIFICATION Spec
CONSTANTS
    ActiveParts = {"queue", "waiting", "discarding", "registry", "logger", "console", "terminal", "offset"}
    MaxItems = 2
    MaxCalls = 2
    MaxLogged = 2
    RegistryThreads = {"t1", "t2"}
    RegistryNames = {"net"}
    MaxSetting = 1
INVARIANTS
    AsyncLoggingLosesNothing
    SettingsReachEveryLogger
    LinesArrive
    ConsoleIsRestored
PROPERTIES
    NoLoggerIsReplaced
CHECK_DEADLOCK FALSE
