\* A screen locked during a session that ends; no other client grabs anything.
SPECIFICATION Spec
CONSTANTS
    OneSlot = {s1}
    TwoSlots = {s1, s2}
    Slots <- OneSlot
    Calls <- LessonCalls
    MaxTries = 5
    Clients = FALSE
    MaxCalls = 3
INVARIANTS LockscreenBlocks
CHECK_DEADLOCK FALSE
