SPECIFICATION CompositionSpec
CONSTANTS
    extract = extract
    post = post
    doc = doc
    note = note
    json = json
    text = text
    inv = inv
    acme = acme
    None = None
    Skills <- MCSkills
    Names <- MCNames
    MediaTypes <- MCMediaTypes
    Schemas <- MCSchemas
    Manifests <- MCManifests
    MaxSteps = 3
SYMMETRY MCSymmetry
INVARIANTS
    SameShape
