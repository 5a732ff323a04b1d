\* One command at a time, popen never fails.
SPECIFICATION Spec
CONSTANTS
    OneSlot = {p1}
    TwoSlots = {p1, p2}
    Procs <- OneSlot
    Users <- MCUsers
    Known <- MCKnown
    Uids <- MCUids
    UidOf <- MCUidOf
    Root <- MCRoot
    Commands <- SerialCommands
    Chains <- MCChains
    ForeignRules <- MCForeignRules
    Forks = {TRUE}
    MaxForeign = 2
    MaxCommands = 3
INVARIANTS TypeOK OtherRulesKept LoopbackNeverCut
PROPERTIES ImplementsPolicy
CHECK_DEADLOCK FALSE
