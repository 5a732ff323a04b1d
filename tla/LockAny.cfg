\* Any calls, two at a time.
SPECIFICATION Spec
CONSTANTS
    OneSlot = {s1}
    TwoSlots = {s1, s2}
    Slots <- TwoSlots
    Calls <- AllCalls
    MaxTries = 2
    Clients = TRUE
    MaxCalls = 3
INVARIANTS TypeOK PointerAfterKeyboard AloneTakesHold KilledIsOver
PROPERTIES TriesRunOut
CHECK_DEADLOCK FALSE
