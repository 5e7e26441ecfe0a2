SPECIFICATION Spec
CONSTANTS
    cache = cache  request = request  recv = recv
    packet = packet  stream = stream  socket = socket  session = session
    btt = btt  fA = fA  fB = fB
    Static <- Linked
    Files = {fA, fB}
    Provides <- TwoFiles
    TypeOf <- Types
    ScopeOf <- Scopes
    Texts = {"a", "b"}
    MaxModules = 9
    MaxCycles = 2
    MaxLines = 3
INVARIANTS OwnConf DirectivesStick StaticSurvives
           OwnBlockConf InnermostWins OneDirective
CHECK_DEADLOCK FALSE
