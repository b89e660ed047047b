CONSTANTS
    Writer = {w1}
    Size = 4
    LeftMin = 1
    Startup = 1
    Slack = 0
    VMIN = 2
    Time = TRUE
    IFlag = {"IGNCR"}
    OFlag = {"ONLCR"}
    Input = {"a", "nl", "eof", "erase", "kill", "intr", "cr"}
    Lines <- MCLines
    Counts = {1, 3}
    MaxEvents = 4
    None = None
    Go = FALSE
SPECIFICATION Spec
VIEW Looked
INVARIANTS
    InputRight
PROPERTIES
    LineIsRead
    WritesReturn
CHECK_DEADLOCK FALSE
