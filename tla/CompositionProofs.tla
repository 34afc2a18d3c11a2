--------------------------- MODULE CompositionProofs ---------------------------
(***************************************************************************)
(* Theorems about module Composition, for every set of skills, manifests   *)
(* and relations.  The argument for CheckedStaysCompatible is that the     *)
(* registry and the relations only grow and that every check is monotone   *)
(* in both.                                                                *)
(***************************************************************************)
EXTENDS Composition, TLAPS, WellFoundedInduction

\* A pipeline's steps are skills, and a surface's slots are fields.
LEMMA StepsAreSkills ==
    ASSUME NEW q \in Pipelines
    PROVE  /\ q.steps \in Seq(Skills) /\ Len(q.steps) >= 2
           /\ \A i \in DOMAIN q.steps : q.steps[i] \in Skills
           /\ DOMAIN q.steps = 1 .. Len(q.steps) /\ Len(q.steps) \in Nat
<1>1. PICK k \in 2 .. MaxSteps : q.steps \in [1 .. k -> Skills]
  BY DEF Pipelines
<1>2. k \in Nat /\ k >= 2
  BY <1>1, CompositionAssumption
<1>3. q.steps \in Seq(Skills) /\ Len(q.steps) = k
  BY <1>1, <1>2
<1> QED  BY <1>1, <1>2, <1>3

LEMMA SlotsAreFields ==
    ASSUME NEW fields \in Seq(Fields)
    PROVE  /\ Slots(fields) \subseteq Fields
           /\ ByName(fields) \subseteq Slots(fields)
           /\ fields # <<>> => Slots(fields) # {}
<1>1. \A i \in DOMAIN fields : fields[i] \in Fields
  OBVIOUS
<1>2. fields # <<>> => 1 \in DOMAIN fields
  OBVIOUS
<1> QED  BY <1>1, <1>2 DEF Slots, ByName

(***************************************************************************)
(* Every check is monotone in the relations.                               *)
(***************************************************************************)
LEMMA FieldsCompatibleGrows ==
    ASSUME NEW out, NEW in, NEW few, NEW more, few \subseteq more,
           FieldsCompatible(out, in, few)
    PROVE  FieldsCompatible(out, in, more)
BY DEF FieldsCompatible, Related

LEMMA MatchesGrow ==
    ASSUME NEW a, NEW b, NEW few, NEW more, few \subseteq more,
           Matches(a, b, few) # {}
    PROVE  Matches(a, b, more) # {}
<1>1. PICK w \in Slots(a.outputs) \X Slots(b.inputs) :
              FieldsCompatible(w[1], w[2], few)
  BY DEF Matches
<1>2. FieldsCompatible(w[1], w[2], more)
  BY <1>1, FieldsCompatibleGrows
<1>3. [out |-> w[1], in |-> w[2], via |-> ViaRelation(w[1], w[2])] \in Matches(a, b, more)
  BY <1>2 DEF Matches
<1> QED  BY <1>3

LEMMA ParallelGrows ==
    ASSUME NEW a, NEW b, NEW few, NEW more, few \subseteq more,
           CheckParallel(a, b, few)
    PROVE  CheckParallel(a, b, more)
<1>1. ASSUME NEW x \in ByName(a.inputs), x.required
      PROVE  \E y \in ByName(b.inputs) : y.name = x.name /\ FieldsCompatible(x, y, more)
  BY <1>1, FieldsCompatibleGrows DEF CheckParallel
<1> QED  BY <1>1 DEF CheckParallel

\* What is registered stays as it was, and no relation is withdrawn.
Grows ==
    /\ \A s \in Skills : registry[s] # None => registry'[s] = registry[s]
    /\ relations \subseteq relations'

LEMMA CompatibleGrows ==
    ASSUME NEW q \in Pipelines, Compatible(q), Grows
    PROVE  Compatible(q)'
<1>1. \A i \in DOMAIN q.steps : registry'[q.steps[i]] = registry[q.steps[i]]
                                  /\ registry[q.steps[i]] # None
  BY StepsAreSkills DEF Compatible, Known, Grows
<1>2. Known(q)'
  BY <1>1 DEF Known
<1>3. DOMAIN q.steps = 1 .. Len(q.steps) /\ Len(q.steps) \in Nat
  BY StepsAreSkills
<1>4. CASE q.kind = "sequential"
  <2>1. ASSUME NEW i \in 1 .. Len(q.steps) - 1
        PROVE  Matches(registry'[q.steps[i]], registry'[q.steps[i + 1]], relations') # {}
    <3>1. i \in DOMAIN q.steps /\ i + 1 \in DOMAIN q.steps
      BY <1>3
    <3>2. Matches(registry[q.steps[i]], registry[q.steps[i + 1]], relations) # {}
      BY <1>4 DEF Compatible, CheckComposition
    <3>3. Matches(registry[q.steps[i]], registry[q.steps[i + 1]], relations') # {}
      BY <3>2, MatchesGrow DEF Grows
    <3> QED  BY <3>1, <3>3, <1>1
  <2> QED  BY <1>2, <1>4, <2>1 DEF Compatible, CheckComposition
<1>5. CASE q.kind # "sequential"
  <2>1. ASSUME NEW i \in DOMAIN q.steps, NEW j \in DOMAIN q.steps, i < j
        PROVE  CheckParallel(registry'[q.steps[i]], registry'[q.steps[j]], relations')
    <3>1. CheckParallel(registry[q.steps[i]], registry[q.steps[j]], relations)
      BY <1>5, <2>1 DEF Compatible, CheckComposition
    <3>2. CheckParallel(registry[q.steps[i]], registry[q.steps[j]], relations')
      BY <3>1, ParallelGrows DEF Grows
    <3> QED  BY <3>2, <1>1
  <2> QED  BY <1>2, <1>5, <2>1 DEF Compatible, CheckComposition
<1> QED  BY <1>4, <1>5

\* Every step of the specification only adds.
LEMMA StepsGrow ==
    ASSUME CompositionTypeOK, [CompositionNext]_compositionVars
    PROVE  Grows
<1>1. CASE \E s \in Skills, io \in Manifests : RegisterManifest(s, io)
  BY <1>1 DEF RegisterManifest, Grows, CompositionTypeOK
<1>2. CASE \E a, b \in Schemas : Register(a, b) \/ RegisterBidirectional(a, b)
  BY <1>2 DEF Register, RegisterBidirectional, RegisterRelations, Grows
<1>3. CASE \E q \in Pipelines : DiscoverCheckComposition(q) \/ SynthesizeComposite(q)
  BY <1>3 DEF DiscoverCheckComposition, SynthesizeComposite, Grows
<1>4. CASE UNCHANGED compositionVars
  BY <1>4 DEF compositionVars, Grows
<1> QED  BY <1>1, <1>2, <1>3, <1>4 DEF CompositionNext

(***************************************************************************)
(* Types                                                                   *)
(***************************************************************************)
LEMMA MatchesAreWires ==
    ASSUME NEW a \in IOSpecs, NEW b \in IOSpecs, NEW edges
    PROVE  Matches(a, b, edges) \subseteq Wires
<1>1. Slots(a.outputs) \subseteq Fields /\ Slots(b.inputs) \subseteq Fields
  BY SlotsAreFields DEF IOSpecs
<1>2. \A o, i : ViaRelation(o, i) \in BOOLEAN
  BY DEF ViaRelation
<1> QED  BY <1>1, <1>2 DEF Matches, Wires

LEMMA StepsAreKnown ==
    ASSUME CompositionTypeOK, NEW q \in Pipelines, Known(q)
    PROVE  /\ \A i \in DOMAIN q.steps : registry[q.steps[i]] \in IOSpecs
           /\ DOMAIN q.steps = 1 .. Len(q.steps) /\ Len(q.steps) \in Nat
           /\ 1 \in DOMAIN q.steps /\ Len(q.steps) \in DOMAIN q.steps
BY StepsAreSkills DEF CompositionTypeOK, Known

LEMMA AllMatchesAreWires ==
    ASSUME CompositionTypeOK, NEW q \in Pipelines, Known(q), NEW edges
    PROVE  AllMatches(q, registry, edges) \subseteq Wires
<1>1. ASSUME NEW i \in 1 .. Len(q.steps) - 1
      PROVE  Matches(registry[q.steps[i]], registry[q.steps[i + 1]], edges) \subseteq Wires
  <2>1. i \in DOMAIN q.steps /\ i + 1 \in DOMAIN q.steps
    BY StepsAreKnown
  <2> QED  BY <2>1, StepsAreKnown, MatchesAreWires
<1> QED  BY <1>1 DEF AllMatches

\* Of the outputs of a parallel composite the very first is always kept.
LEMMA OutputsAreFields ==
    ASSUME CompositionTypeOK, NEW q \in Pipelines, Known(q)
    PROVE  CompositeOutputs(q, registry) \in (SUBSET Fields) \ {{}}
<1>1. \A i \in DOMAIN q.steps : registry[q.steps[i]] \in IOSpecs
  BY StepsAreKnown
<1>2. CASE q.kind = "sequential"
  <2>1. registry[q.steps[Len(q.steps)]].outputs \in Seq(Fields) \ {<<>>}
    BY <1>1, StepsAreKnown DEF IOSpecs
  <2>2. CompositeOutputs(q, registry) = Slots(registry[q.steps[Len(q.steps)]].outputs)
    BY <1>2 DEF CompositeOutputs
  <2> QED  BY <2>1, <2>2, SlotsAreFields
<1>3. CASE q.kind # "sequential"
  <2> DEFINE at(p) == registry[q.steps[p[1]]].outputs[p[2]]
             slots == OutputSlots(q, registry)
             kept == {r \in slots : \A e \in slots : Before(e, r) =>
                         <<at(e).name, at(e).media>> # <<at(r).name, at(r).media>>}
  <2>1. CompositeOutputs(q, registry) = {at(p) : p \in kept}
    BY <1>3 DEF CompositeOutputs
  <2>2. ASSUME NEW p \in slots
        PROVE  at(p) \in Fields /\ p[1] \in Nat \ {0} /\ p[2] \in Nat \ {0}
    <3>1. PICK i \in DOMAIN q.steps : \E k \in DOMAIN registry[q.steps[i]].outputs : p = <<i, k>>
      BY DEF OutputSlots
    <3>2. PICK k \in DOMAIN registry[q.steps[i]].outputs : p = <<i, k>>
      BY <3>1
    <3>3. registry[q.steps[i]].outputs \in Seq(Fields)
      BY <1>1 DEF IOSpecs
    <3>4. i \in Nat \ {0}
      BY StepsAreKnown
    <3> QED  BY <3>2, <3>3, <3>4
  <2>3. <<1, 1>> \in kept
    <3>1. 1 \in DOMAIN q.steps /\ registry[q.steps[1]].outputs \in Seq(Fields) \ {<<>>}
      BY <1>1, StepsAreKnown DEF IOSpecs
    <3>2. 1 \in DOMAIN registry[q.steps[1]].outputs
      BY <3>1
    <3>3. <<1, 1>> \in slots
      BY <3>1, <3>2 DEF OutputSlots
    <3>4. ASSUME NEW e \in slots
          PROVE  ~ Before(e, <<1, 1>>)
      <4> HIDE DEF at, slots, kept
      <4>1. e[1] \in Nat \ {0} /\ e[2] \in Nat \ {0}
        BY <2>2
      <4> QED  BY <4>1 DEF Before
    <3> HIDE DEF at, slots
    <3> QED  BY <3>3, <3>4
  <2>4. \A p \in kept : at(p) \in Fields
    BY <2>2
  <2> HIDE DEF at, slots, kept
  <2>5. {at(p) : p \in kept} \subseteq Fields
    BY <2>4
  <2>6. at(<<1, 1>>) \in {at(p) : p \in kept}
    BY <2>3
  <2> QED  BY <2>1, <2>5, <2>6
<1> QED  BY <1>2, <1>3

LEMMA InputsAreFields ==
    ASSUME CompositionTypeOK, NEW q \in Pipelines, Known(q)
    PROVE  CompositeInputs(q, registry) \in Seq(Fields) \ {<<>>}
BY StepsAreKnown DEF CompositeInputs, IOSpecs

LEMMA CheckIsTyped ==
    ASSUME CompositionTypeOK, NEW q \in Pipelines, DiscoverCheckComposition(q)
    PROVE  CompositionTypeOK'
<1> DEFINE found == IF q.kind = "sequential" /\ Compatible(q)
                      THEN AllMatches(q, registry, relations) ELSE {}
           verdict == IF ~ Known(q) THEN "UnknownSkillError"
                      ELSE IF Compatible(q) THEN "compatible" ELSE "incompatible"
<1>1. found \in SUBSET Wires
  BY AllMatchesAreWires DEF Compatible
<1>2. verdict \in {"UnknownSkillError", "compatible", "incompatible"}
  OBVIOUS
<1>3. reply' = [op |-> "check", pipeline |-> q, outcome |-> verdict, matches |-> found]
  BY DEF DiscoverCheckComposition
<1>4. reply' \in CheckReplies
  <2> HIDE DEF found, verdict
  <2> QED  BY <1>1, <1>2, <1>3 DEF CheckReplies
<1>5. approved' \in Pipelines \cup {None} /\ UNCHANGED <<registry, relations>>
  BY DEF DiscoverCheckComposition, CompositionTypeOK
<1> QED  BY <1>4, <1>5 DEF CompositionTypeOK

LEMMA SynthesisIsTyped ==
    ASSUME CompositionTypeOK, NEW q \in Pipelines, SynthesizeComposite(q)
    PROVE  CompositionTypeOK'
<1>1. CASE Compatible(q)
  <2>1. reply' = [op |-> "compose", pipeline |-> q, outcome |-> "ok",
                  inputs |-> CompositeInputs(q, registry),
                  outputs |-> CompositeOutputs(q, registry)]
    BY <1>1 DEF SynthesizeComposite
  <2>2. reply' \in Composites
    BY <1>1, <2>1, InputsAreFields, OutputsAreFields DEF Compatible, Composites
  <2> QED  BY <2>2 DEF SynthesizeComposite, CompositionTypeOK
<1>2. CASE ~ Compatible(q)
  <2>1. reply' \in Refusals
    BY <1>2 DEF SynthesizeComposite, Refusals
  <2> QED  BY <2>1 DEF SynthesizeComposite, CompositionTypeOK
<1> QED  BY <1>1, <1>2

LEMMA CompositionTypeStep ==
    CompositionTypeOK /\ [CompositionNext]_compositionVars => CompositionTypeOK'
<1> SUFFICES ASSUME CompositionTypeOK, [CompositionNext]_compositionVars
             PROVE  CompositionTypeOK'
  OBVIOUS
<1>1. ASSUME NEW s \in Skills, NEW io \in Manifests, RegisterManifest(s, io)
      PROVE  CompositionTypeOK'
  BY <1>1, CompositionAssumption DEF RegisterManifest, CompositionTypeOK
<1>2. ASSUME NEW a \in Schemas, NEW b \in Schemas,
             Register(a, b) \/ RegisterBidirectional(a, b)
      PROVE  CompositionTypeOK'
  BY <1>2 DEF Register, RegisterBidirectional, RegisterRelations, CompositionTypeOK
<1>3. CASE UNCHANGED compositionVars
  BY <1>3 DEF compositionVars, CompositionTypeOK
<1> QED  BY <1>1, <1>2, <1>3, CheckIsTyped, SynthesisIsTyped DEF CompositionNext

\* Whatever is registered and asked for, the answers are well formed: a composite
\* has an input and an output although equal outputs are dropped.
THEOREM CompositionTypeCorrect == CompositionSpec => []CompositionTypeOK
<1>1. CompositionInit => CompositionTypeOK
  BY DEF CompositionInit, CompositionTypeOK
<1> QED  BY <1>1, CompositionTypeStep, PTL DEF CompositionSpec

(***************************************************************************)
(* Safety                                                                  *)
(***************************************************************************)
\* discover.check_composition before transfer.compose: the registry and the
\* relations only grow, so a pipeline once found compatible stays so.
THEOREM ChecksAreNotTakenBack == CompositionSpec => []CheckedStaysCompatible
<1>1. CompositionInit => CheckedStaysCompatible
  BY DEF CompositionInit, CheckedStaysCompatible
<1>2. ASSUME CompositionTypeOK, CheckedStaysCompatible, [CompositionNext]_compositionVars
      PROVE  CheckedStaysCompatible'
  <2>1. approved' # None => approved' \in Pipelines
    BY <1>2, CompositionTypeStep DEF CompositionTypeOK
  <2>2. ASSUME NEW q \in Pipelines, approved' = q
        PROVE  Compatible(q)
    <3>1. \/ approved' = approved
          \/ \E p \in Pipelines : approved' = p /\ Compatible(p)
      BY <1>2 DEF CompositionNext, compositionVars, RegisterManifest, Register,
                  RegisterBidirectional, RegisterRelations,
                  DiscoverCheckComposition, SynthesizeComposite
    <3>2. CASE approved = q
      BY <1>2, <3>2, CompositionAssumption DEF CheckedStaysCompatible
    <3> QED  BY <2>2, <3>1, <3>2
  <2>3. ASSUME NEW q \in Pipelines, approved' = q
        PROVE  Compatible(approved)'
    <3>1. Compatible(q)'
      BY <1>2, <2>2, <2>3, StepsGrow, CompatibleGrows
    <3> QED  BY <2>3, <3>1 DEF Compatible, Known, CheckComposition
  <2> QED  BY <2>1, <2>3 DEF CheckedStaysCompatible
<1> QED  BY <1>1, <1>2, CompositionTypeCorrect, PTL DEF CompositionSpec

\* A match either stands without relations or is marked.
LEMMA MatchesAreMarked ==
    ASSUME NEW a, NEW b, NEW edges, NEW m \in Matches(a, b, edges)
    PROVE  m.via <=> ~ FieldsCompatible(m.out, m.in, {})
<1>1. PICK w \in Slots(a.outputs) \X Slots(b.inputs) :
              /\ FieldsCompatible(w[1], w[2], edges)
              /\ m = [out |-> w[1], in |-> w[2], via |-> ViaRelation(w[1], w[2])]
  BY DEF Matches
<1>2. m.out = w[1] /\ m.in = w[2] /\ (m.via <=> ViaRelation(w[1], w[2]))
  BY <1>1
<1> QED  BY <1>1, <1>2 DEF ViaRelation, FieldsCompatible, Related

\* _fields_compatible says "via a relation" of the matches that need one and of no
\* others, whatever relations are registered.
THEOREM RelationsAreReported == CompositionSpec => []ViaIsExact
<1>1. CompositionInit => ViaIsExact
  BY DEF CompositionInit, ViaIsExact
<1>2. ASSUME ViaIsExact, [CompositionNext]_compositionVars
      PROVE  ViaIsExact'
  <2>1. ASSUME NEW q \in Pipelines, DiscoverCheckComposition(q)
        PROVE  ViaIsExact'
    <3>1. reply'.matches = {} \/ reply'.matches = AllMatches(q, registry, relations)
      BY <2>1 DEF DiscoverCheckComposition
    <3>2. ASSUME NEW m \in AllMatches(q, registry, relations)
          PROVE  m.via <=> ~ FieldsCompatible(m.out, m.in, {})
      BY MatchesAreMarked DEF AllMatches
    <3> QED  BY <3>1, <3>2 DEF ViaIsExact
  <2>2. ASSUME NEW q \in Pipelines, SynthesizeComposite(q)
        PROVE  ViaIsExact'
    BY <2>2 DEF SynthesizeComposite, ViaIsExact
  <2>3. CASE UNCHANGED compositionVars
    BY <1>2, <2>3 DEF compositionVars, ViaIsExact
  <2>4. CASE reply' = None
    BY <2>4 DEF ViaIsExact
  <2> QED  BY <1>2, <2>1, <2>2, <2>3, <2>4
           DEF CompositionNext, RegisterManifest, Register, RegisterBidirectional,
               RegisterRelations
<1> QED  BY <1>1, <1>2, PTL DEF CompositionSpec

\* The first step's inputs against those of any step: itself, or one that was
\* compared with it.
LEMMA FirstStepsInputs ==
    ASSUME CompositionTypeOK, NEW q \in Pipelines, Compatible(q), q.kind # "sequential",
           NEW i \in DOMAIN q.steps
    PROVE  LET listed == CompositeInputs(q, registry)
               taken == ByName(registry[q.steps[i]].inputs)
           IN  /\ \A x \in taken : x.required => \E y \in Slots(listed) : y.name = x.name
               /\ \A y \in ByName(listed) :
                     y.required => \E x \in taken : x.name = y.name /\ Fits(y, x)
<1>1. /\ 1 \in DOMAIN q.steps /\ i \in Nat \ {0}
      /\ registry[q.steps[1]].inputs \in Seq(Fields)
  BY StepsAreKnown DEF Compatible, IOSpecs
<1>2. CASE i = 1
  BY <1>1, <1>2, SlotsAreFields DEF CompositeInputs, Fits
<1>3. CASE 1 < i
  <2>1. CheckParallel(registry[q.steps[1]], registry[q.steps[i]], relations)
    BY <1>1, <1>3 DEF Compatible, CheckComposition
  <2>2. \A x, y : FieldsCompatible(y, x, relations) => Fits(y, x)
    BY DEF FieldsCompatible, Related, Fits
  <2> QED  BY <1>1, <2>1, <2>2, SlotsAreFields DEF CheckParallel, CompositeInputs
<1> QED  BY <1>1, <1>2, <1>3

\* transfer.compose of a parallel pipeline: the first step's inputs, which the
\* composite lists, name every slot a step requires, and those it lists as required
\* fit every step.
THEOREM CompositesShareInputs == CompositionSpec => []SharedInputs
<1>1. CompositionInit => SharedInputs
  BY DEF CompositionInit, SharedInputs, IsComposite
<1>2. ASSUME CompositionTypeOK, SharedInputs, [CompositionNext]_compositionVars
      PROVE  SharedInputs'
  <2>1. ASSUME NEW q \in Pipelines, DiscoverCheckComposition(q)
        PROVE  SharedInputs'
    BY <2>1 DEF DiscoverCheckComposition, SharedInputs, IsComposite
  <2>2. ASSUME NEW q \in Pipelines, SynthesizeComposite(q), ~ Compatible(q)
        PROVE  SharedInputs'
    BY <2>2 DEF SynthesizeComposite, SharedInputs, IsComposite
  <2>3. ASSUME NEW q \in Pipelines, SynthesizeComposite(q), Compatible(q)
        PROVE  SharedInputs'
    <3>1. /\ reply'.pipeline = q /\ reply'.inputs = CompositeInputs(q, registry)
          /\ registry' = registry /\ relations' = relations
      BY <2>3 DEF SynthesizeComposite
    <3>2. CASE q.kind # "parallel"
      BY <3>1, <3>2 DEF SharedInputs
    <3>3. CASE q.kind = "parallel"
      BY <1>2, <2>3, <3>1, <3>3, FirstStepsInputs DEF SharedInputs, Fits
    <3> QED  BY <3>2, <3>3
  <2>4. CASE UNCHANGED compositionVars
    BY <1>2, <2>4 DEF compositionVars, SharedInputs, IsComposite, Fits
  <2>5. CASE reply' = None
    BY <2>5 DEF SharedInputs, IsComposite
  <2> QED  BY <1>2, <2>1, <2>2, <2>3, <2>4, <2>5
           DEF CompositionNext, RegisterManifest, Register, RegisterBidirectional,
               RegisterRelations
<1> QED  BY <1>1, <1>2, CompositionTypeCorrect, PTL DEF CompositionSpec

(***************************************************************************)
(* The outputs of a parallel composite                                     *)
(***************************************************************************)
\* The loops over steps and outputs visit some slot of a set of slots first.
LEMMA LeastNumber ==
    ASSUME NEW T, T \subseteq Nat, T # {}
    PROVE  \E x \in T : \A y \in T : x =< y
<1>1. ASSUME NEW R, IsWellFoundedOn(R, Nat), \A x, y \in Nat : <<y, x>> \in R <=> y < x
      PROVE  \E x \in T : \A y \in T : x =< y
  <2>1. PICK x \in T : \A y \in T : ~ (<<y, x>> \in R)
    BY <1>1, WFMin
  <2>2. ASSUME NEW y \in T
        PROVE  x =< y
    <3>1. x \in Nat /\ y \in Nat /\ ~ (y < x)
      BY <1>1, <2>1
    <3> QED  BY <3>1
  <2> QED  BY <2>2
<1>2. \A x, y \in Nat : <<y, x>> \in OpToRel(<, Nat) <=> y < x
  BY DEF OpToRel
<1> QED  BY <1>1, <1>2, NatLessThanWellFounded

LEMMA FirstOfSlots ==
    ASSUME NEW T, T \subseteq (Nat \ {0}) \X (Nat \ {0}), T # {}
    PROVE  \E p \in T : \A e \in T : ~ Before(e, p)
<1> DEFINE steps == {p[1] : p \in T}
<1>1. steps \subseteq Nat /\ steps # {}
  OBVIOUS
<1>2. PICK i \in steps : \A j \in steps : i =< j
  BY <1>1, LeastNumber
<1> DEFINE here == {p \in T : p[1] = i}
           places == {p[2] : p \in here}
<1>3. places \subseteq Nat /\ places # {}
  OBVIOUS
<1>4. PICK k \in places : \A l \in places : k =< l
  BY <1>3, LeastNumber
<1>5. PICK p \in here : p[2] = k
  OBVIOUS
<1>6. ASSUME NEW e \in T, Before(e, p)
      PROVE  FALSE
  <2>1. e[1] \in steps /\ i =< e[1] /\ e[1] \in Nat /\ i \in Nat /\ p[1] = i
    BY <1>1, <1>2, <1>5
  <2>2. e[1] = i /\ e[2] < p[2]
    BY <1>6, <2>1 DEF Before
  <2>3. e[2] \in places /\ k \in Nat /\ e[2] \in Nat
    BY <1>3, <2>2
  <2> QED  BY <1>4, <1>5, <2>2, <2>3
<1> QED  BY <1>5, <1>6

\* Of the slots with one key the first stands for all of them, and no other does.
Firsts(S, key) == {r \in S : \A e \in S : Before(e, r) => key[e] # key[r]}

LEMMA FirstsStandForAll ==
    ASSUME NEW S, S \subseteq (Nat \ {0}) \X (Nat \ {0}), NEW key
    PROVE  /\ \A p \in S : \E r \in Firsts(S, key) : key[r] = key[p] /\ r[1] =< p[1]
           /\ \A p, r \in Firsts(S, key) : key[p] = key[r] => p = r
<1> DEFINE F == Firsts(S, key)
<1>1. ASSUME NEW p \in S
      PROVE  /\ p = <<p[1], p[2]>>
             /\ p[1] \in Nat /\ p[2] \in Nat
  OBVIOUS
<1>2. ASSUME NEW p \in S
      PROVE  \E r \in F : key[r] = key[p] /\ r[1] =< p[1]
  <2> DEFINE same == {e \in S : key[e] = key[p]}
  <2>1. same \subseteq (Nat \ {0}) \X (Nat \ {0}) /\ same # {}
    OBVIOUS
  <2>2. PICK r \in same : \A e \in same : ~ Before(e, r)
    <3> HIDE DEF same
    <3> QED  BY <2>1, FirstOfSlots
  <2>3. r \in F /\ key[r] = key[p]
    BY <2>2 DEF Firsts
  <2>4. r[1] =< p[1]
    <3>1. ~ Before(p, r) /\ r \in S
      BY <2>2
    <3> QED  BY <1>1, <3>1 DEF Before
  <2> QED  BY <2>3, <2>4
<1>3. ASSUME NEW p \in F, NEW r \in F, key[p] = key[r]
      PROVE  p = r
  <2>1. p \in S /\ r \in S /\ ~ Before(p, r) /\ ~ Before(r, p)
    BY <1>3 DEF Firsts
  <2>2. p[1] = r[1] /\ p[2] = r[2]
    BY <1>1, <2>1 DEF Before
  <2> QED  BY <1>1, <2>1, <2>2
<1> QED  BY <1>2, <1>3

LEMMA OutputSlotsAreNumbered ==
    ASSUME CompositionTypeOK, NEW q \in Pipelines, Known(q),
           NEW p \in OutputSlots(q, registry)
    PROVE  /\ p[1] \in DOMAIN q.steps /\ p[2] \in DOMAIN registry[q.steps[p[1]]].outputs
           /\ p \in (Nat \ {0}) \X (Nat \ {0})
<1>1. PICK i \in DOMAIN q.steps : \E k \in DOMAIN registry[q.steps[i]].outputs : p = <<i, k>>
  BY DEF OutputSlots
<1>2. PICK k \in DOMAIN registry[q.steps[i]].outputs : p = <<i, k>>
  BY <1>1
<1>3. registry[q.steps[i]].outputs \in Seq(Fields) /\ i \in Nat \ {0}
  BY StepsAreKnown DEF IOSpecs
<1>4. k \in Nat \ {0}
  BY <1>3
<1> QED  BY <1>2, <1>3, <1>4

\* The "seen" set keeps the first slot of each name and media type, and no other.
LEMMA UnionOfOutputs ==
    ASSUME CompositionTypeOK, NEW q \in Pipelines, Known(q), q.kind = "parallel"
    PROVE  /\ \A i \in DOMAIN q.steps :
                 \A o \in Slots(registry[q.steps[i]].outputs) :
                    \E kept \in CompositeOutputs(q, registry) :
                       /\ kept.name = o.name /\ kept.media = o.media
                       /\ \E j \in 1 .. i : kept \in Slots(registry[q.steps[j]].outputs)
           /\ \A o1, o2 \in CompositeOutputs(q, registry) :
                 o1.name = o2.name /\ o1.media = o2.media => o1 = o2
           /\ \A kept \in CompositeOutputs(q, registry) : \E i \in DOMAIN q.steps :
                 kept \in Slots(registry[q.steps[i]].outputs)
<1> DEFINE at(p) == registry[q.steps[p[1]]].outputs[p[2]]
           slots == OutputSlots(q, registry)
           key == [p \in slots |-> <<at(p).name, at(p).media>>]
           firsts == {r \in slots : \A e \in slots : Before(e, r) =>
                         <<at(e).name, at(e).media>> # <<at(r).name, at(r).media>>}
<1>1. CompositeOutputs(q, registry) = {at(p) : p \in firsts}
  BY DEF CompositeOutputs
<1>2. ASSUME NEW p \in slots
      PROVE  /\ p[1] \in Nat \ {0} /\ p[1] \in DOMAIN q.steps
             /\ at(p) \in Slots(registry[q.steps[p[1]]].outputs)
  BY OutputSlotsAreNumbered DEF Slots
<1>3. ASSUME NEW i \in DOMAIN q.steps, NEW o \in Slots(registry[q.steps[i]].outputs)
      PROVE  \E p \in slots : at(p) = o /\ p[1] = i
  <2>1. PICK k \in DOMAIN registry[q.steps[i]].outputs : o = registry[q.steps[i]].outputs[k]
    BY DEF Slots
  <2>2. <<i, k>> \in slots
    BY DEF OutputSlots
  <2> QED  BY <2>1, <2>2
<1>4. slots \subseteq (Nat \ {0}) \X (Nat \ {0})
  BY OutputSlotsAreNumbered
<1> HIDE DEF slots, at
<1>5. \A p \in slots : key[p] = <<at(p).name, at(p).media>>
  OBVIOUS
<1>6. firsts = Firsts(slots, key)
  BY <1>5 DEF Firsts
<1> HIDE DEF key, firsts
<1>7. /\ \A p \in slots : \E r \in firsts : key[r] = key[p] /\ r[1] =< p[1]
      /\ \A p, r \in firsts : key[p] = key[r] => p = r
  BY <1>4, <1>6, FirstsStandForAll
<1>8. ASSUME NEW i \in DOMAIN q.steps, NEW o \in Slots(registry[q.steps[i]].outputs)
      PROVE  \E kept \in CompositeOutputs(q, registry) :
                /\ kept.name = o.name /\ kept.media = o.media
                /\ \E j \in 1 .. i : kept \in Slots(registry[q.steps[j]].outputs)
  <2>1. PICK p \in slots : at(p) = o /\ p[1] = i
    BY <1>3
  <2>2. PICK r \in firsts : key[r] = key[p] /\ r[1] =< p[1]
    BY <1>7
  <2>3. r \in slots /\ at(r) \in CompositeOutputs(q, registry)
    BY <1>1, <1>6 DEF Firsts
  <2>4. at(r).name = o.name /\ at(r).media = o.media
    BY <1>5, <2>1, <2>2, <2>3
  <2>5. r[1] \in 1 .. i /\ at(r) \in Slots(registry[q.steps[r[1]]].outputs)
    BY <1>2, <2>1, <2>2, <2>3
  <2> QED  BY <2>3, <2>4, <2>5
<1>9. ASSUME NEW o1 \in CompositeOutputs(q, registry),
             NEW o2 \in CompositeOutputs(q, registry),
             o1.name = o2.name, o1.media = o2.media
      PROVE  o1 = o2
  <2>1. PICK p \in firsts : o1 = at(p)
    BY <1>1
  <2>2. PICK r \in firsts : o2 = at(r)
    BY <1>1
  <2>3. key[p] = key[r]
    BY <1>5, <1>6, <1>9, <2>1, <2>2 DEF Firsts
  <2> QED  BY <1>7, <2>1, <2>2, <2>3
<1>10. ASSUME NEW kept \in CompositeOutputs(q, registry)
       PROVE  \E i \in DOMAIN q.steps : kept \in Slots(registry[q.steps[i]].outputs)
  <2>1. PICK p \in firsts : kept = at(p)
    BY <1>1
  <2>2. p \in slots
    BY <1>6 DEF Firsts
  <2> QED  BY <1>2, <2>1, <2>2
<1> QED  BY <1>8, <1>9, <1>10

\* transfer.compose of a parallel pipeline: the set of the composite's outputs is
\* the union of its steps' outputs up to name and media type, each kept one from a
\* step no later than those it stands for.  Nothing is said of the order in which
\* they are listed.
THEOREM OutputsAreTheUnion == CompositionSpec => []OutputsAreUnion
<1>1. CompositionInit => OutputsAreUnion
  BY DEF CompositionInit, OutputsAreUnion, IsComposite
<1>2. ASSUME CompositionTypeOK, OutputsAreUnion, [CompositionNext]_compositionVars
      PROVE  OutputsAreUnion'
  <2>1. ASSUME NEW q \in Pipelines, DiscoverCheckComposition(q)
        PROVE  OutputsAreUnion'
    BY <2>1 DEF DiscoverCheckComposition, OutputsAreUnion, IsComposite
  <2>2. ASSUME NEW q \in Pipelines, SynthesizeComposite(q), ~ Compatible(q)
        PROVE  OutputsAreUnion'
    BY <2>2 DEF SynthesizeComposite, OutputsAreUnion, IsComposite
  <2>3. ASSUME NEW q \in Pipelines, SynthesizeComposite(q), Compatible(q)
        PROVE  OutputsAreUnion'
    <3>1. /\ reply'.pipeline = q /\ reply'.outputs = CompositeOutputs(q, registry)
          /\ registry' = registry
      BY <2>3 DEF SynthesizeComposite
    <3>2. CASE q.kind = "parallel"
      <4>1. Known(q)
        BY <2>3 DEF Compatible
      <4> QED  BY <1>2, <3>1, <3>2, <4>1, UnionOfOutputs DEF OutputsAreUnion
    <3>3. CASE q.kind # "parallel"
      BY <3>1, <3>3 DEF OutputsAreUnion
    <3> QED  BY <3>2, <3>3
  <2>4. CASE UNCHANGED compositionVars
    BY <1>2, <2>4 DEF compositionVars, OutputsAreUnion, IsComposite
  <2>5. CASE reply' = None
    BY <2>5 DEF OutputsAreUnion, IsComposite
  <2> QED  BY <1>2, <2>1, <2>2, <2>3, <2>4, <2>5
           DEF CompositionNext, RegisterManifest, Register, RegisterBidirectional,
               RegisterRelations
<1> QED  BY <1>1, <1>2, CompositionTypeCorrect, PTL DEF CompositionSpec
===============================================================================
