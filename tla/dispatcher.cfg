SPECIFICATION FairDispatcherSpec
CONSTANTS
    c1 = c1
    echo = echo
    extra = extra
    one = one
    two = two
    None = None
    Unfit = Unfit
    Conns = {c1}
    Methods <- MCMethods
    Ids <- MCIds
    Requests <- MCRequests
    MaxItems = 3
INVARIANTS
    DispatcherTypeOK
    AnswersMatch
    EachRunsOnce
    FailuresAreExplained
PROPERTIES
    RequestsEnd
