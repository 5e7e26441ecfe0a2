SPECIFICATION Spec
CONSTANTS
    PageSize = 286
    Pages <- SmallPages
    Raw <- SmallRaw
INVARIANTS OutputFits PrintsPaired MeansThePage
CHECK_DEADLOCK FALSE
