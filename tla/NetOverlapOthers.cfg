\* Two processes at once: the comment of status_iptables_user against the code.
SPECIFICATION Spec
CONSTANTS
    OneSlot = {p1}
    TwoSlots = {p1, p2}
    Procs <- TwoSlots
    Users <- MCUsers
    Known <- MCKnown
    Uids <- MCUids
    UidOf <- MCUidOf
    Root <- MCRoot
    Commands <- OverlapCommands
    Chains <- MCChains
    ForeignRules <- MCForeignRules
    Forks = {TRUE}
    MaxForeign = 2
    MaxCommands = 3
INVARIANTS OtherRulesKept
CHECK_DEADLOCK FALSE
