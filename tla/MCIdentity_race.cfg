CONSTANTS
    k = k  x = x  y = y
    NoSubject = NoSubject
    Subjects = {k}
    Emails = {x, y}
    Tokens <- Changing
    Logins = {1, 2}
    MaxRemovals = 1
    MaxFailures = 0
SPECIFICATION Spec
INVARIANT NoSecondAccount
CHECK_DEADLOCK FALSE
