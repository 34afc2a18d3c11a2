SPECIFICATION FairSpec
CONSTANTS
    alice = alice
    bob = bob
    prov = prov
    extract = extract
    hidden = hidden
    plain = plain
    leased = leased
    None = None
    Agents <- MCParties
    Provider = prov
    Negotiations = {n1, n2}
    Skills <- MCOneSkill
    Supports <- MCLeaseOnly
    Terms <- MCTerms
    Lease <- MCLease
    Ttls <- MCShortTtls
    Dates <- MCDates
    HasSigningKey = TRUE
    ClockStepsBack = FALSE
    MaxTime = 2
    MaxRounds = 2
PROPERTIES
    ImplementsLifecycle
    OffersLapse
VIEW MCView
