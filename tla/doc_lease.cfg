SPECIFICATION ServerSpec
CONSTANTS
    alice = alice
    bob = bob
    prov = prov
    extract = extract
    plain = plain
    leased = leased
    c1 = c1
    c2 = c2
    None = None
    Agents <- MCParties
    Provider = prov
    Negotiations = {n1}
    Skills <- MCExtract
    Teachable <- MCExtract
    Supports <- MCExtractSupports
    Terms <- MCTerms
    Lease <- MCLease
    ComposeCheck <- MCComposeCheck
    HandlerErrors <- MCHandlerErrors
    Ttls = {2}
    Calls <- MCOneCall
    Dates <- MCDates
    HasSigningKey = TRUE
    ClockStepsBack = FALSE
    DurableStore = TRUE
    SizedStore = FALSE
    MaxTime = 2
    MaxRounds = 1
    MaxRuns = 3
VIEW MCView
INVARIANTS
    BudgetOutlivesRestarts
