\* Changes at any time, a listener that may die, and a /tmp that may be full.
SPECIFICATION FairSpec
CONSTANTS
    Lines <- MCLines
    Ignored <- MCIgnored
    InitialTable <- MCTable
    MaxUpsets = 5
INVARIANTS TypeOK ReportsAreReal AllReported
PROPERTIES NoticedWhenCalm
