SPECIFICATION IdentitySpec
CONSTANTS
    kid1 = kid1
    kid2 = kid2
    keyA = keyA
    keyB = keyB
    None = None
    ForeignKey = ForeignKey
    Unparsable = Unparsable
    Misshapen = Misshapen
    Keypairs <- MCKeypairs
    Contents = {x1, x2}
    Tasks = {t1, t2}
INVARIANTS
    IdentityTypeOK
    VerifiedWasStruck
    NoFalseRefusal
    VerifiedStaysVerified
