\* Two calls at a time; a stick pulled and plugged again.
SPECIFICATION Spec
CONSTANTS
    Slots = {s1, s2}
    Disks = {"hd1", "hd10", "stick"}
    Names = {"sda1", "sda10", "sdb1", "sdc1"}
    BeginsWith <- MCBeginsWith
    Home <- MCHome
    Ntfs = {"hd1"}
    Sticks = {"stick"}
    Calls <- MCCalls
    MaxWait = 2
    MaxCalls = 4
    MaxPlugs = 1
INVARIANTS TypeOK OnePerPoint PadKept
PROPERTIES AnswersAreTrue SafeToUnplug
SYMMETRY MCSlotSymmetry
CHECK_DEADLOCK FALSE
