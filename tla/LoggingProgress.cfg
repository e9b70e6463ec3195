SPECIFICATION FairSpec
CONSTANTS
    ActiveParts = {"queue", "discarding", "registry", "logger"}
    MaxItems = 1
    MaxCalls = 2
    MaxLogged = 1
    RegistryThreads = {"t1", "t2", "t3"}
    RegistryNames = {"net"}
    MaxSetting = 1
PROPERTIES
    CallsReturn
    ImplementsAsyncLogging
CHECK_DEADLOCK FALSE
