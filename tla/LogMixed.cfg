\* Two requests at a time: answers are mixed up.
SPECIFICATION Spec
CONSTANTS
    OneSlot = {p1}
    TwoSlots = {p1, p2}
    Procs <- TwoSlots
    Options <- AllOptions
    Disks <- MCDisks
    Parts <- MCParts
    Capacity = 5
    MaxEvents = 1
    MaxRequests = 2
INVARIANTS AnswersAreOwn
CHECK_DEADLOCK FALSE
