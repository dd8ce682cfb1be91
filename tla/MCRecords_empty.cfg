CONSTANTS
    RunParts = {"mirror"}
    a = a  b = b  k = k  x = x  y = y
    Ids = {a}
    EntityOf <- AllInTwo
    NEntities = 2
    Broken = {1}
    Handlers = {1}
    MaxSeq = 2
    MaxFaults = 0
    NoSubject = NoSubject
    Subjects = {k}
    Emails = {x, y}
    Tokens <- Mixed
    Logins = {1}
    MaxRemovals = 0
    MaxFailures = 0
SPECIFICATION SumSpec
PROPERTIES DeletionIsCaught
CHECK_DEADLOCK FALSE
