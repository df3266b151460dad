SPECIFICATION MCSpec
CONSTANTS
    MAX_TRACKS = 2
    MAX_PATTERNS = 2
    MAX_STEPS = 3
    MAX_CHAIN = 2
    UNDO_LIMIT = 2
    Bpms = {200, 300}
    Channels = {0, 1}
    Pitches = {60}
    PlayChannel = 0
    OldOptions <- MCOptions
    OtherFiles <- MCFiles
    Sessions <- MCSessions
    MaxActs = 4
    MaxClock = 3
INVARIANTS SilentWhenReleased SilentWhenStopped
PROPERTY ExportSoundsTheSame
CHECK_DEADLOCK FALSE
