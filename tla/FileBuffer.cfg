SPECIFICATION Spec
CONSTANTS
    Scripts <- FileScripts
    Handles = {h1}
    Files = {f1}
    Default = Default
    FilePage = 2
    FileMax = 3
    Recipients = 2
    SmtpRoom = 2
    Responses <- SmallResponses
    HttpRoom = 6
INVARIANT BufferLives
CHECK_DEADLOCK FALSE
