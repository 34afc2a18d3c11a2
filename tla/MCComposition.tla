--------------------------- MODULE MCComposition ---------------------------
(* Two skills over five I/O surfaces that differ in one respect each. *)
EXTENDS Composition, TLC

CONSTANTS extract, post, doc, note, json, text, inv, acme

MCSkills == {extract, post}

MCNames == {doc, note}

MCMediaTypes == {json, text}

MCSchemas == {inv, acme}

Slot(n, m, s, r) == [name |-> n, media |-> m, schema |-> s, required |-> r]

Surface(ins, outs) == [inputs |-> ins, outputs |-> outs]

\* Typed alike; with related schemas; of another medium; a required slot more;
\* an optional slot where the others require one, untyped on the way out.
MCManifests ==
    {Surface(<<Slot(doc, json, inv, TRUE)>>, <<Slot(doc, json, inv, TRUE)>>),
     Surface(<<Slot(doc, json, acme, TRUE)>>,
             <<Slot(doc, json, acme, TRUE), Slot(doc, text, None, TRUE)>>),
     Surface(<<Slot(note, text, None, TRUE)>>, <<Slot(note, json, inv, TRUE)>>),
     Surface(<<Slot(doc, json, inv, TRUE), Slot(note, text, None, TRUE)>>,
             <<Slot(note, text, inv, FALSE)>>),
     Surface(<<Slot(doc, text, None, FALSE), Slot(note, text, acme, TRUE)>>,
             <<Slot(doc, json, None, TRUE)>>)}
\* No surface mentions a skill.
MCSymmetry == Permutations(MCSkills)
============================================================================
