SPECIFICATION MidiSpec
CONSTANTS
    Apps = {"seq", "synth"}
    Ins = {"keys"}
    Outs = {"out"}
    Wires <- MCWires
    Statuses <- MCStatuses
    Datas <- MCDatas
    GuestMessages <- MCMessages
    Channels = {1}
    BACKLOG = 2
    SYSEX_LIMIT = 2
    MaxOpens = 2
    MaxEvents = 4
INVARIANT NoStuckNote
CHECK_DEADLOCK FALSE
