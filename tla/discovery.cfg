SPECIFICATION DiscoverySpec
CONSTANTS
    sa = sa
    sb = sb
    sc = sc
    delegate = delegate
    teach = teach
    compose = compose
    g1 = g1
    g2 = g2
    None = None
    SkillIds = {sa, sb, sc}
    Modes = {delegate, teach, compose}
    Compose = compose
    Manifests <- MCManifests
    Gets <- MCGets
SYMMETRY MCSymmetry
INVARIANTS
    DiscoveryTypeOK
    ListingsNest
    KnownIsConsistent
    CardIsCovered
    DiscoveredCanBeProposed
