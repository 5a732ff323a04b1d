\* One request at a time, room for two lines.
SPECIFICATION Spec
CONSTANTS
    OneSlot = {p1}
    TwoSlots = {p1, p2}
    Procs <- OneSlot
    Options <- AllOptions
    Disks <- MCDisks
    Parts <- MCParts
    Capacity = 2
    MaxEvents = 5
    MaxRequests = 4
INVARIANTS TypeOK AnswersAreOwn
PROPERTIES ImplementsFeed
CHECK_DEADLOCK FALSE
