SPECIFICATION Spec
CONSTANTS
    alice = alice
    bob = bob
    prov = prov
    extract = extract
    hidden = hidden
    plain = plain
    leased = leased
    None = None
    Agents <- MCParties
    Provider = prov
    Negotiations = {n1}
    Skills <- MCOneSkill
    Supports <- MCLeaseOnly
    Terms <- MCTerms
    Lease <- MCLease
    Ttls <- MCTtls
    Dates <- MCDates
    HasSigningKey = TRUE
    ClockStepsBack = FALSE
    MaxTime = 3
    MaxRounds = 3
INVARIANTS
    EveryTransitionIsLogged
