SPECIFICATION Spec
CONSTANTS
    PageSize = 2
    PrintSizes = {1, 3}
    MaxPrinted = 5
    MaxInput = 1
PROPERTY NoDataMeansNone
CHECK_DEADLOCK FALSE
