\* Three calls that may overlap; popen and scrot may fail.
SPECIFICATION Spec
CONSTANTS
    c1 = c1
    c2 = c2
    c3 = c3
    Calls <- MCCalls
    None = None
INVARIANTS TypeOK OwnPicture NoOldPicture
SYMMETRY AnyOrder
CHECK_DEADLOCK FALSE
