\* Two processes at once; any popen may fail.
SPECIFICATION Spec
CONSTANTS
    OneSlot = {p1}
    TwoSlots = {p1, p2}
    Procs <- TwoSlots
    Users <- MCUsers
    Known <- MCKnown
    Uids <- MCUids
    UidOf <- MCUidOf
    Root <- MCRoot
    Commands <- OverlapCommands
    Chains <- MCChains
    ForeignRules <- MCForeignRules
    Forks = {TRUE, FALSE}
    MaxForeign = 1
    MaxCommands = 3
INVARIANTS FreshLinesAreOwn
PROPERTIES OnlyOwnRulesDeleted
CHECK_DEADLOCK FALSE
