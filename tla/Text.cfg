SPECIFICATION TextSpec
CONSTANTS
    ActiveParts = {"buffer", "rotating", "daily", "step", "pattern", "writer", "format", "pieces", "double", "msc_double"}
    Buffers = {a, b}
    Blocks = {k1, k2, k3}
    SIZE = 1
    Chars = {"x"}
    MaxCapacity = 3
    MaxAppend = 2
    MaxLength = 4
    Sizes = {1, 3}
    FileSize = 2
    OldFileCount = 2
    RotatingMessages = 6
    RotatingTrouble = 3
    Day = 3
    Rotation = 1
    DailyTime = 9
    DailyMessages = 4
    DailyTrouble = 2
    StepSeconds = 2
    StepFileSize = 2
    DeleteEmpty = TRUE
    StepTime = 4
    StepMessages = 4
    StepTrouble = 2
INVARIANTS
    BlocksAreOwned
    TextIsWhole
    FilesKeepTheNewest
    FormatsMeanWhatTheySay
PROPERTIES
    NoStepGoesBack
SYMMETRY Symmetry
CHECK_DEADLOCK FALSE
