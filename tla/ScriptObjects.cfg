SPECIFICATION FairSpec
CONSTANTS
    Scripts <- SmallScripts
    Handles = {h1}
    Files = {f1}
    Default = Default
    FilePage = 2
    FileMax = 3
    Recipients = 2
    SmtpRoom = 2
    Responses <- SmallResponses
    HttpRoom = 6
INVARIANTS WokenByItsOwn Reclaimed MailInOrder BodyWhole TransfersFit
PROPERTY CallsEnd
CHECK_DEADLOCK FALSE
