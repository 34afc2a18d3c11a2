----------------------------- MODULE MCDiscovery -----------------------------
(* Three skills; two manifests for one of them; two that validation refuses. *)
EXTENDS Discovery, TLC

CONSTANTS sa, sb, sc, delegate, teach, compose, g1, g2

Manifest(s, modes, composes) == [id |-> s, modes |-> modes, composes |-> composes]

MCManifests ==
    {Manifest(sa, {delegate}, FALSE), Manifest(sa, {delegate, compose}, TRUE),
     Manifest(sb, {teach}, FALSE), Manifest(sb, {}, FALSE), Manifest(sc, {compose}, FALSE)}

MCGets == {g1, g2}

\* The two requests are interchangeable.
MCSymmetry == Permutations(MCGets)
=============================================================================
