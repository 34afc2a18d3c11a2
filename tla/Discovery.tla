------------------------------ MODULE Discovery ------------------------------
(***************************************************************************)
(* What an agent publishes and what a client learns from it: the manifest  *)
(* registry with its validation, the agent card, the manifest endpoints,   *)
(* and the client calls that read them and then propose.                   *)
(*                                                                         *)
(* The program may register manifests while the app serves; the card is    *)
(* made when the app is.  A handler answers from the state it finds, and   *)
(* its answer arrives later, after others, or never.  One life of the      *)
(* process.                                                                *)
(***************************************************************************)
EXTENDS Integers, Sequences, Functions

CONSTANTS
    SkillIds,     \* ids of manifests
    Modes,        \* delegate, lease, teach, compose
    Compose,      \* the last of them
    Manifests,    \* the SkillManifests the program may register
    Gets,         \* HTTP requests of the client that can be open at a time
    None

\* The fields that validation and discovery look at.
ManifestRecords == [id : SkillIds, modes : SUBSET Modes, composes : BOOLEAN]

\* An AgentCard, by what it announces.
Cards == [modes : SUBSET Modes]

\* What is asked for, and with which card in hand.
Asks ==
    [op : {"card", "list", "manifest", "propose"}, card : Cards \cup {None},
     id : SkillIds \cup {None}, mode : Modes \cup {None}]

Responses ==
    [card : Cards \cup {None}, listing : Seq(Manifests),
     manifest : Manifests \cup {None}]

ASSUME DiscoveryAssumption ==
    /\ Manifests \subseteq ManifestRecords /\ Compose \in Modes
    /\ None \notin Manifests /\ None \notin Cards /\ None \notin SkillIds
    /\ None \notin Responses /\ None \notin [ask : Asks, response : Responses \cup {None}]

VARIABLES
    registry,    \* ManifestRegistry._by_id, in the order of registration
    card,        \* the AgentCard of the app; None until there is one
    gets,        \* the open requests
    cards,       \* the cards the client has received
    listings,    \* the listings it has received, each with the card it came by
    known,       \* the manifests it has received, one by one or in a listing
    refused      \* the proposals it made from them that were refused

clientVars == <<cards, listings, known, refused>>

discoveryVars == <<registry, card, gets, cards, listings, known, refused>>

(***************************************************************************)
(* The registry                                                            *)
(***************************************************************************)
\* validate_manifest: what it lets pass.  "composes" says that compose_modes is
\* not empty.
Valid(m) == m.modes # {} /\ (Compose \in m.modes => m.composes)

Registered(s) == \E m \in Range(registry) : m.id = s

\* Mutant: the manifest is validated after it was put.
RegisterUnvalidated(m) ==
    /\ ~ Registered(m.id)
    /\ registry' = Append(registry, m)
    /\ UNCHANGED <<card, gets, clientVars>>

\* Mutant: the newest manifest is listed first.
RegisterInFront(m) ==
    /\ Valid(m) /\ ~ Registered(m.id)
    /\ registry' = <<m>> \o registry
    /\ UNCHANGED <<card, gets, clientVars>>

\* Mutant: a manifest of the same id is replaced.
RegisterReplacing(m) ==
    /\ Valid(m)
    /\ registry' = IF Registered(m.id)
                     THEN [k \in DOMAIN registry |-> IF registry[k].id = m.id THEN m ELSE registry[k]]
                     ELSE Append(registry, m)
    /\ UNCHANGED <<card, gets, clientVars>>

\* register: an invalid manifest or one whose id is taken raises, and changes
\* nothing.
RegisterManifest(m) ==
    /\ Valid(m) /\ ~ Registered(m.id)
    /\ registry' = Append(registry, m)
    /\ UNCHANGED <<card, gets, clientVars>>

ModesOf(ms) == UNION {m.modes : m \in ms}

\* Mutant: the card announces what this implementation can do.
BuildAppFixed ==
    /\ card' = [modes |-> Modes]
    /\ UNCHANGED <<registry, gets, clientVars>>

\* app(): the card announces the modes of what is registered by now.
BuildApp ==
    /\ card' = [modes |-> ModesOf(Range(registry))]
    /\ UNCHANGED <<registry, gets, clientVars>>

(***************************************************************************)
(* The client's requests                                                   *)
(***************************************************************************)
Ask(g, op, c, s, m) ==
    /\ gets[g] = None
    /\ gets' = [gets EXCEPT ![g] =
          [ask |-> [op |-> op, card |-> c, id |-> s, mode |-> m], response |-> None]]
    /\ UNCHANGED <<registry, card, clientVars>>

FetchAgentCard(g) == Ask(g, "card", None, None, None)

\* list_manifests and fetch_manifest find the endpoint in a card.
ListManifests(g, c) == c \in cards /\ Ask(g, "list", c, None, None)

FetchManifest(g, c, s) == c \in cards /\ Ask(g, "manifest", c, s, None)

\* propose, for a skill the client has the manifest of and a mode it offers.
ProposeKnown(g, c, m, mode) ==
    c \in cards /\ m \in known /\ mode \in m.modes /\ Ask(g, "propose", c, m.id, mode)

(***************************************************************************)
(* The endpoints                                                           *)
(***************************************************************************)
\* registry.get, and propose's check of the mode; None for the error.
Lookup(s, mode) ==
    IF \E m \in Range(registry) : m.id = s /\ (mode = None \/ mode \in m.modes)
      THEN CHOOSE m \in Range(registry) : m.id = s /\ (mode = None \/ mode \in m.modes)
      ELSE None

Respond(ask) ==
    [card |-> IF ask.op = "card" THEN card ELSE None,
     listing |-> IF ask.op = "list" THEN registry ELSE <<>>,
     manifest |-> IF ask.op \in {"manifest", "propose"} THEN Lookup(ask.id, ask.mode) ELSE None]

\* Mutant: the proposal is checked against the card's modes when it was built.
ServeFromCard(g) ==
    /\ card # None
    /\ gets[g] # None /\ gets[g].response = None
    /\ gets' = [gets EXCEPT ![g].response =
          IF gets[g].ask.op = "propose" /\ gets[g].ask.mode \notin card.modes
            THEN [Respond(gets[g].ask) EXCEPT !.manifest = None]
            ELSE Respond(gets[g].ask)]
    /\ UNCHANGED <<registry, card, clientVars>>

\* A request is answered only once there is an app.
Serve(g) ==
    /\ card # None
    /\ gets[g] # None /\ gets[g].response = None
    /\ gets' = [gets EXCEPT ![g].response = Respond(gets[g].ask)]
    /\ UNCHANGED <<registry, card, clientVars>>

(***************************************************************************)
(* What the client makes of the responses                                  *)
(***************************************************************************)
Arrives(g, op) ==
    /\ gets[g] # None /\ gets[g].response # None /\ gets[g].ask.op = op
    /\ gets' = [gets EXCEPT ![g] = None]
    /\ UNCHANGED <<registry, card>>

CardArrives(g) ==
    /\ Arrives(g, "card")
    /\ cards' = cards \cup {gets[g].response.card}
    /\ UNCHANGED <<listings, known, refused>>

ListingArrives(g) ==
    /\ Arrives(g, "list")
    /\ listings' = listings \cup
          {[card |-> gets[g].ask.card, manifests |-> gets[g].response.listing]}
    /\ known' = known \cup Range(gets[g].response.listing)
    /\ UNCHANGED <<cards, refused>>

\* A 404 raises; nothing is learnt from it.
ManifestArrives(g) ==
    /\ Arrives(g, "manifest")
    /\ known' = known \cup ({gets[g].response.manifest} \ {None})
    /\ UNCHANGED <<cards, listings, refused>>

\* propose answers a status, or UnknownSkillError.
ProposalAnswered(g) ==
    /\ Arrives(g, "propose")
    /\ refused' = IF gets[g].response.manifest # None THEN refused
                  ELSE refused \cup {[id |-> gets[g].ask.id, mode |-> gets[g].ask.mode]}
    /\ UNCHANGED <<cards, listings, known>>

\* A timeout or a network error raises; the client does not ask again.
GetFails(g) ==
    /\ gets[g] # None
    /\ gets' = [gets EXCEPT ![g] = None]
    /\ UNCHANGED <<registry, card, clientVars>>

DiscoveryInit ==
    /\ registry = <<>> /\ card = None
    /\ gets = [g \in Gets |-> None]
    /\ cards = {} /\ listings = {} /\ known = {} /\ refused = {}

DiscoveryNext ==
    \/ \E m \in Manifests : RegisterManifest(m)
    \/ BuildApp
    \/ \E g \in Gets :
          \/ FetchAgentCard(g)
          \/ \E c \in cards :
                \/ ListManifests(g, c)
                \/ \E s \in SkillIds : FetchManifest(g, c, s)
                \/ \E m \in known, mode \in Modes : ProposeKnown(g, c, m, mode)
          \/ Serve(g)
          \/ CardArrives(g) \/ ListingArrives(g) \/ ManifestArrives(g) \/ ProposalAnswered(g)
          \/ GetFails(g)

DiscoverySpec == DiscoveryInit /\ [][DiscoveryNext]_discoveryVars

-----------------------------------------------------------------------------
(***************************************************************************)
(* Properties                                                              *)
(***************************************************************************)
\* "an invalid manifest never enters the registry" (registry.py:36-37), the app's
\* card and the responses under way have their types.
DiscoveryTypeOK ==
    /\ registry \in Seq({m \in Manifests : Valid(m)})
    /\ card \in Cards \cup {None}
    /\ gets \in [Gets -> [ask : Asks, response : Responses \cup {None}] \cup {None}]
    /\ cards \subseteq Cards
    /\ listings \subseteq [card : Cards, manifests : Seq(Manifests)]
    /\ known \subseteq Manifests
    /\ refused \subseteq [id : SkillIds, mode : Modes]

Prefix(s, t) == Len(s) =< Len(t) /\ \A k \in DOMAIN s : s[k] = t[k]

\* Of any two listings a client has received one continues the other, in whatever
\* order they arrived and whatever was registered in between: what was once
\* listed keeps its place.
ListingsNest ==
    \A l1, l2 \in listings :
        Prefix(l1.manifests, l2.manifests) \/ Prefix(l2.manifests, l1.manifests)

\* A skill has one manifest for ever: listings and single reads never disagree,
\* nor does either show a manifest that registration should have refused.
KnownIsConsistent ==
    /\ \A m1, m2 \in known : m1.id = m2.id => m1 = m2
    /\ \A m \in known : Valid(m)

\* The card lags behind the registry, but never ahead of it: each mode it
\* announces is offered by a skill of every listing one gets by it.
CardIsCovered == \A l \in listings : l.card.modes \subseteq ModesOf(Range(l.manifests))

\* A proposal for a skill and a mode that the client read in a manifest is not
\* refused as unknown, however late it comes and whatever the card says.
DiscoveredCanBeProposed == refused = {}
=============================================================================
