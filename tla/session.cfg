SPECIFICATION SessionSpec
CONSTANTS
    alice = alice
    prov = prov
    extract = extract
    leased = leased
    c1 = c1
    c2 = c2
    None = None
    Agents = {alice, prov}
    Provider = prov
    Negotiations = {n1}
    Skills = {extract}
    Teachable = {}
    Supports <- MCSupports
    Terms = {leased}
    Lease <- MCLease
    ComposeCheck <- MCComposeCheck
    Ttls = {2}
    HandlerErrors <- MCHandlerErrors
    Calls <- MCCalls
    Dates <- MCDates
    HasSigningKey = TRUE
    ClockStepsBack = FALSE
    DurableStore = FALSE
    SizedStore = FALSE
    MaxTime = 2
    MaxRounds = 2
    MaxRuns = 3
    MaxAsked = 2
    Clients = {alice}
VIEW MCView
SYMMETRY MCSymmetry
INVARIANTS
    SessionTypeOK
    HeldIsEnforced
    HeardIsFinal
    UnitsAreAskedFor
PROPERTIES
    ViolationIsFinal
