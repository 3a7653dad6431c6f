SPECIFICATION Spec
CONSTANTS
    Callers = {c1,c2,c3}
    Authorizers = {c1}
    Margin = 1
    Timeout = 2
    ExpiresIn <- OneStep
    Replies <- AllReplies
    Faults = TRUE
    MaxTime = 3
    MaxGrants = 3
    None = None
INVARIANTS TypeOK NoDoubleSpend StoredRefreshUsable OverdueBounded
PROPERTIES RefreshOnlyWhenExpired EveryCallReturns
