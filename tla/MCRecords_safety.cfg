CONSTANTS
    RunParts = {"mirror", "identity"}
    a = a  b = b  k = k  x = x  y = y
    Ids = {a, b}
    EntityOf <- AllInTwo
    NEntities = 2
    Broken = {1}
    Handlers = {1, 2}
    MaxSeq = 3
    MaxFaults = 1
    NoSubject = NoSubject
    Subjects = {k}
    Emails = {x, y}
    Tokens <- Mixed
    Logins = {1, 2}
    MaxRemovals = 1
    MaxFailures = 1
SPECIFICATION SumSpec
INVARIANT IdentitySound
PROPERTIES OlderOnlyAfterStaleRead DeletedForAReason MirrorConverges LiveMappingKept LoginsHeal
CHECK_DEADLOCK FALSE
