----------------------------- MODULE MCIdentity -----------------------------
(* Two key identifiers, of which one is used for two keys. *)
EXTENDS Identity

CONSTANTS kid1, kid2, keyA, keyB

MCKeypairs ==
    {[kid |-> kid1, key |-> keyA], [kid |-> kid1, key |-> keyB],
     [kid |-> kid2, key |-> keyB]}
=============================================================================
