SPECIFICATION Spec
CONSTANTS
    Slots = {s1, s2}
    Outs <- MCOuts
    Mics <- MCNone
    Boosts <- MCNone
    Caps <- MCCaps
    Channels <- MCChannels
    Switched = {"Master", "Capture"}
    OssNames = {"Master"}
    AlsaMax = 2
    Drivers = {"alsa", "oss", "none"}
    Asked = {"Master", "Capture"}
    Requests <- MCRequests
INVARIANTS TypeOK GoalsKept
 
SYMMETRY Interchangeable
