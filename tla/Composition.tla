----------------------------- MODULE Composition -----------------------------
(***************************************************************************)
(* ManifestRegistry, SchemaRelations and the composition checks of         *)
(* manifest/compatibility.py, as polypact.discover.check_composition and   *)
(* polypact.transfer.compose use them.                                     *)
(*                                                                         *)
(* A manifest is its I/O surface.  The lists of matches and of composite   *)
(* outputs are sets here: their order is layout.                           *)
(***************************************************************************)
EXTENDS Integers, Sequences

CONSTANTS
    Skills,       \* skill identifiers
    Names,        \* names of input and output slots
    MediaTypes,
    Schemas,      \* URIs a slot may reference
    Manifests,    \* the I/O surfaces that may be registered
    MaxSteps,     \* bound: steps of one pipeline
    None

Fields ==
    [name : Names, media : MediaTypes, schema : Schemas \cup {None}, required : BOOLEAN]

\* IOSpec: both lists have min_length=1.
IOSpecs == [inputs : Seq(Fields) \ {<<>>}, outputs : Seq(Fields) \ {<<>>}]

\* ComposeTerms and CheckCompositionRequest: steps and skill_ids have min_length=2.
Pipelines ==
    [kind : {"sequential", "parallel"},
     steps : UNION {[1 .. k -> Skills] : k \in 2 .. MaxSteps}]

ASSUME CompositionAssumption ==
    /\ Manifests \subseteq IOSpecs
    /\ MaxSteps \in Nat
    /\ None \notin IOSpecs /\ None \notin Pipelines /\ None \notin Schemas

VARIABLES
    registry,    \* ManifestRegistry._by_id
    relations,   \* SchemaRelations._edges
    approved,    \* the last pipeline discover.check_composition found compatible
    reply        \* what the last request answered

compositionVars == <<registry, relations, approved, reply>>

(***************************************************************************)
(* manifest/compatibility.py                                               *)
(***************************************************************************)
Slots(fields) == {fields[i] : i \in DOMAIN fields}

Related(source, target, edges) == source = target \/ <<source, target>> \in edges

FieldsCompatible(out, in, edges) ==
    /\ out.media = in.media
    /\ out.schema = None \/ in.schema = None \/ Related(out.schema, in.schema, edges)

\* Mutant: the registered relations are consulted before equality.
ViaRelationEager(out, in) == out.schema # None /\ in.schema # None

\* The second half of _fields_compatible's answer.
ViaRelation(out, in) ==
    out.schema # None /\ in.schema # None /\ out.schema # in.schema

\* The matches of check_sequential: compatible iff there is one.
Matches(a, b, edges) ==
    {[out |-> p[1], in |-> p[2], via |-> ViaRelation(p[1], p[2])] :
        p \in {w \in Slots(a.outputs) \X Slots(b.inputs) :
                 FieldsCompatible(w[1], w[2], edges)}}

\* {field.name: field for field in inputs}: of two slots of a name, the last.
ByName(inputs) ==
    {inputs[i] : i \in {j \in DOMAIN inputs :
        \A k \in DOMAIN inputs : k > j => inputs[k].name # inputs[j].name}}

\* Mutant: only the first skill's required inputs are looked up.
CheckParallelOneWay(a, b, edges) ==
    \A x \in ByName(a.inputs) : x.required =>
        \E y \in ByName(b.inputs) : y.name = x.name /\ FieldsCompatible(x, y, edges)

\* The shapes are compared for a's required inputs, the names alone for b's.
CheckParallel(a, b, edges) ==
    /\ \A x \in ByName(a.inputs) : x.required =>
          \E y \in ByName(b.inputs) : y.name = x.name /\ FieldsCompatible(x, y, edges)
    /\ \A y \in ByName(b.inputs) : y.required =>
          \E x \in ByName(a.inputs) : x.name = y.name

\* check_composition over the manifests of reg.
CheckComposition(q, reg, edges) ==
    LET io(i) == reg[q.steps[i]] IN
    IF q.kind = "sequential"
      THEN \A i \in 1 .. Len(q.steps) - 1 : Matches(io(i), io(i + 1), edges) # {}
      ELSE \A i, j \in DOMAIN q.steps : i < j => CheckParallel(io(i), io(j), edges)

AllMatches(q, reg, edges) ==
    UNION {Matches(reg[q.steps[i]], reg[q.steps[i + 1]], edges) :
              i \in 1 .. Len(q.steps) - 1}

(***************************************************************************)
(* transfer/compose.py                                                     *)
(***************************************************************************)
CompositeInputs(q, reg) == reg[q.steps[1]].inputs

\* Where the outputs of the steps stand, and in which order they are visited.
OutputSlots(q, reg) ==
    UNION {{<<i, k>> : k \in DOMAIN reg[q.steps[i]].outputs} : i \in DOMAIN q.steps}

Before(p, r) == p[1] < r[1] \/ (p[1] = r[1] /\ p[2] < r[2])

\* Mutant: an output is marked as seen before it is looked up.
CompositeOutputsSeenFirst(q, reg) ==
    LET at(p) == reg[q.steps[p[1]]].outputs[p[2]]
        slots == OutputSlots(q, reg)
    IN  IF q.kind = "sequential"
          THEN Slots(reg[q.steps[Len(q.steps)]].outputs)
          ELSE {at(p) : p \in {r \in slots :
                  \A e \in slots : Before(e, r) \/ e = r =>
                     <<at(e).name, at(e).media>> # <<at(r).name, at(r).media>>}}

\* Mutant: outputs are told apart by their names alone.
CompositeOutputsByName(q, reg) ==
    LET at(p) == reg[q.steps[p[1]]].outputs[p[2]]
        slots == OutputSlots(q, reg)
    IN  IF q.kind = "sequential"
          THEN Slots(reg[q.steps[Len(q.steps)]].outputs)
          ELSE {at(p) : p \in {r \in slots :
                  \A e \in slots : Before(e, r) => at(e).name # at(r).name}}

\* Of the outputs with one name and media type the first is kept.
CompositeOutputs(q, reg) ==
    LET at(p) == reg[q.steps[p[1]]].outputs[p[2]]
        slots == OutputSlots(q, reg)
    IN  IF q.kind = "sequential"
          THEN Slots(reg[q.steps[Len(q.steps)]].outputs)
          ELSE {at(p) : p \in {r \in slots :
                  \A e \in slots : Before(e, r) =>
                     <<at(e).name, at(e).media>> # <<at(r).name, at(r).media>>}}

(***************************************************************************)
(* Registration and requests                                               *)
(***************************************************************************)
\* Mutant: a second registration replaces the manifest.
RegisterManifestAgain(s, io) ==
    /\ registry' = [registry EXCEPT ![s] = io]
    /\ reply' = None
    /\ UNCHANGED <<relations, approved>>

\* A second registration of an identifier raises and changes nothing.
RegisterManifest(s, io) ==
    /\ registry[s] = None
    /\ registry' = [registry EXCEPT ![s] = io]
    /\ reply' = None
    /\ UNCHANGED <<relations, approved>>

RegisterRelations(edges) ==
    /\ relations' = relations \cup edges
    /\ reply' = None
    /\ UNCHANGED <<registry, approved>>

Register(source, target) == RegisterRelations({<<source, target>>})

RegisterBidirectional(a, b) == RegisterRelations({<<a, b>>, <<b, a>>})

Known(q) == \A i \in DOMAIN q.steps : registry[q.steps[i]] # None

Compatible(q) == Known(q) /\ CheckComposition(q, registry, relations)

\* polypact.discover.check_composition
DiscoverCheckComposition(q) ==
    /\ reply' = [op |-> "check", pipeline |-> q,
                 outcome |-> IF ~ Known(q) THEN "UnknownSkillError"
                             ELSE IF Compatible(q) THEN "compatible" ELSE "incompatible",
                 matches |-> IF q.kind = "sequential" /\ Compatible(q)
                               THEN AllMatches(q, registry, relations) ELSE {}]
    /\ approved' = IF Compatible(q) THEN q ELSE approved
    /\ UNCHANGED <<registry, relations>>

\* synthesize_composite, for an agreement whose compose block is q.
SynthesizeComposite(q) ==
    /\ reply' =
          IF Compatible(q)
            THEN [op |-> "compose", pipeline |-> q, outcome |-> "ok",
                  inputs |-> CompositeInputs(q, registry),
                  outputs |-> CompositeOutputs(q, registry)]
            ELSE [op |-> "compose", pipeline |-> q,
                  outcome |-> IF Known(q) THEN "CapabilityMismatchError"
                              ELSE "UnknownSkillError"]
    /\ UNCHANGED <<registry, relations, approved>>

CompositionInit ==
    /\ registry = [s \in Skills |-> None]
    /\ relations = {}
    /\ approved = None
    /\ reply = None

CompositionNext ==
    \/ \E s \in Skills, io \in Manifests : RegisterManifest(s, io)
    \/ \E a, b \in Schemas : Register(a, b) \/ RegisterBidirectional(a, b)
    \/ \E q \in Pipelines : DiscoverCheckComposition(q) \/ SynthesizeComposite(q)

CompositionSpec == CompositionInit /\ [][CompositionNext]_compositionVars

-----------------------------------------------------------------------------
(***************************************************************************)
(* Properties                                                              *)
(***************************************************************************)
Wires == [out : Fields, in : Fields, via : BOOLEAN]

CheckReplies ==
    [op : {"check"}, pipeline : Pipelines,
     outcome : {"UnknownSkillError", "compatible", "incompatible"},
     matches : SUBSET Wires]

Composites ==
    [op : {"compose"}, pipeline : Pipelines, outcome : {"ok"},
     inputs : Seq(Fields) \ {<<>>}, outputs : (SUBSET Fields) \ {{}}]

Refusals ==
    [op : {"compose"}, pipeline : Pipelines,
     outcome : {"UnknownSkillError", "CapabilityMismatchError"}]

\* The registry, the relations and the answers are ones the code can represent;
\* a composite has an input and an output, as every IOSpec must.
CompositionTypeOK ==
    /\ registry \in [Skills -> IOSpecs \cup {None}]
    /\ relations \subseteq Schemas \X Schemas
    /\ approved \in Pipelines \cup {None}
    /\ reply \in CheckReplies \cup Composites \cup Refusals \cup {None}

\* A pipeline that discovery once found compatible is synthesized whenever it is
\* asked for, however many skills and relations were registered since: nothing in
\* ManifestRegistry or SchemaRelations takes an answer back.
CheckedStaysCompatible == approved # None => Compatible(approved)

IsComposite == reply # None /\ reply.op = "compose" /\ reply.outcome = "ok"

\* An input can be filled from an output: the media types are equal, and so are
\* the schemas, unless one is absent or a relation was registered for the two.
Fits(o, i) ==
    /\ o.media = i.media
    /\ \/ None \in {o.schema, i.schema}
       \/ o.schema = i.schema
       \/ <<o.schema, i.schema>> \in relations

\* A parallel composite lists the inputs of its first step for all of them, and
\* that is enough in two senses: every slot that some step requires is listed,
\* under its name at least, and every listed slot that is required is taken by
\* every step in the shape the composite gives it.  A slot that only a later step
\* requires may be listed in another shape: see SameShape.
\* compatibility.check_parallel and compose._build_composite_manifest.
SharedInputs ==
    IsComposite /\ reply.pipeline.kind = "parallel" =>
        \A i \in DOMAIN reply.pipeline.steps :
            LET taken == ByName(registry[reply.pipeline.steps[i]].inputs) IN
            /\ \A x \in taken :
                  x.required => \E y \in Slots(reply.inputs) : y.name = x.name
            /\ \A y \in ByName(reply.inputs) :
                  y.required => \E x \in taken : x.name = y.name /\ Fits(y, x)

\* The outputs of a parallel composite are the union of its steps' up to name and
\* media type: each is represented by an output of the same or an earlier step, no
\* two kept ones stand for the same, and each kept one is an output of some step.
\* The "seen" set of _build_composite_manifest.
OutputsAreUnion ==
    IsComposite /\ reply.pipeline.kind = "parallel" =>
        /\ \A i \in DOMAIN reply.pipeline.steps :
              \A o \in Slots(registry[reply.pipeline.steps[i]].outputs) :
                 \E kept \in reply.outputs :
                    /\ kept.name = o.name /\ kept.media = o.media
                    /\ \E j \in 1 .. i :
                          kept \in Slots(registry[reply.pipeline.steps[j]].outputs)
        /\ \A o1, o2 \in reply.outputs :
              o1.name = o2.name /\ o1.media = o2.media => o1 = o2
        /\ \A kept \in reply.outputs : \E i \in DOMAIN reply.pipeline.steps :
              kept \in Slots(registry[reply.pipeline.steps[i]].outputs)

\* A match is reported to depend on a registered relation exactly when it would
\* not be one on a server without relations.  compatibility._fields_compatible.
ViaIsExact ==
    reply # None /\ reply.op = "check" =>
        \A m \in reply.matches : m.via <=> ~ FieldsCompatible(m.out, m.in, {})

(***************************************************************************)
(* What the repository says and the code does not do                       *)
(***************************************************************************)
\* "two skills as parallel-compatible when each required input of one has a
\* same-name, same-shape counterpart on the other" (compatibility.py:149-150).
SameShape ==
    reply # None /\ reply.op = "check" /\ reply.outcome = "compatible"
      /\ reply.pipeline.kind = "parallel" =>
        LET steps == reply.pipeline.steps IN
        \A i, j \in DOMAIN steps : \A x \in ByName(registry[steps[i]].inputs) :
            x.required =>
                \E y \in ByName(registry[steps[j]].inputs) :
                    y.name = x.name /\ (Fits(x, y) \/ Fits(y, x))
=============================================================================
