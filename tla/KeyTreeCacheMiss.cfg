SPECIFICATION Spec
CONSTANTS
    Keys <- Few
    Lookups = {TRUE}
    MaxNodes = 5
INVARIANT FoundAll
