SPECIFICATION Spec
CONSTANTS
    alice = alice
    bob = bob
    prov = prov
    extract = extract
    hidden = hidden
    plain = plain
    leased = leased
    None = None
    Agents <- MCAgents
    Provider = prov
    Negotiations = {n1}
    Skills <- MCSkills
    Supports <- MCSupports
    Terms <- MCTerms
    Lease <- MCLease
    Ttls <- MCTtls
    Dates <- MCDates
    HasSigningKey = TRUE
    ClockStepsBack = TRUE
    MaxTime = 3
    MaxRounds = 3
INVARIANTS
    TypeOK
    AgreementSound
    ToldIsStored
    AuditTrail
PROPERTIES
    SettledIsFinal
    OnlyPartiesMoveIt
