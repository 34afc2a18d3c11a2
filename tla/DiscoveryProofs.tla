--------------------------- MODULE DiscoveryProofs ---------------------------
(***************************************************************************)
(* Theorems about Discovery, for every set of manifests, every number of   *)
(* requests and every delay of their answers.                              *)
(*                                                                         *)
(* The registry only grows, at its end: what an answer shows of it stays a *)
(* part of it, and whatever the client holds can be looked up in it.       *)
(***************************************************************************)
EXTENDS Discovery, SequenceTheorems, TLAPS

(***************************************************************************)
(* The inductive invariant                                                 *)
(***************************************************************************)
\* No two manifests of one id.
Unique(r) == \A j, k \in DOMAIN r : r[j].id = r[k].id => j = k

\* Every mode of the card is offered by a manifest of ms.
Offered(c, ms) == c.modes \subseteq ModesOf(ms)

\* A request is one the client may send, and its answer is drawn from r.
AskSound(ask, r) ==
    /\ ask.op = "list" => ask.card \in cards
    /\ ask.op = "propose" => \E m \in Range(r) : m.id = ask.id /\ ask.mode \in m.modes

ResponseSound(ask, response, r) ==
    /\ ask.op = "card" => response.card \in Cards /\ Offered(response.card, Range(r))
    /\ Prefix(response.listing, r)
    /\ ask.op = "list" => Offered(ask.card, Range(response.listing))
    /\ response.manifest # None => response.manifest \in Range(r)
    /\ ask.op = "propose" => response.manifest # None

GetsSound ==
    \A g \in Gets : gets[g] # None =>
        /\ AskSound(gets[g].ask, registry)
        /\ gets[g].response # None => ResponseSound(gets[g].ask, gets[g].response, registry)

ClientSound ==
    /\ \A c \in cards : Offered(c, Range(registry))
    /\ \A l \in listings : Prefix(l.manifests, registry) /\ Offered(l.card, Range(l.manifests))
    /\ known \subseteq Range(registry)
    /\ refused = {}

DiscoveryInv ==
    /\ DiscoveryTypeOK /\ Unique(registry)
    /\ card # None => Offered(card, Range(registry))
    /\ GetsSound /\ ClientSound

(***************************************************************************)
(* A registry that grows                                                   *)
(***************************************************************************)
LEMMA PrefixRefl ==
    ASSUME NEW S, NEW s \in Seq(S)
    PROVE  Prefix(s, s)
BY DEF Prefix

LEMMA PrefixAppend ==
    ASSUME NEW S, NEW s \in Seq(S), NEW r \in Seq(S), NEW m \in S, Prefix(s, r)
    PROVE  Prefix(s, Append(r, m))
<1>1. Len(s) =< Len(r) /\ Len(Append(r, m)) = Len(r) + 1
  BY DEF Prefix
<1>2. \A k \in DOMAIN s : k \in 1 .. Len(r) /\ s[k] = r[k]
  BY <1>1 DEF Prefix
<1>3. \A k \in 1 .. Len(r) : Append(r, m)[k] = r[k]
  OBVIOUS
<1> QED  BY <1>1, <1>2, <1>3 DEF Prefix

LEMMA RangeAppend ==
    ASSUME NEW S, NEW r \in Seq(S), NEW m \in S
    PROVE  Range(Append(r, m)) = Range(r) \cup {m}
<1>1. /\ DOMAIN Append(r, m) = DOMAIN r \cup {Len(r) + 1}
      /\ \A k \in DOMAIN r : Append(r, m)[k] = r[k]
      /\ Append(r, m)[Len(r) + 1] = m
  OBVIOUS
<1>2. ASSUME NEW x \in Range(Append(r, m)) PROVE x \in Range(r) \cup {m}
  BY <1>1, <1>2 DEF Range
<1>3. ASSUME NEW x \in Range(r) PROVE x \in Range(Append(r, m))
  BY <1>1, <1>3 DEF Range
<1>4. m \in Range(Append(r, m))
  BY <1>1 DEF Range
<1> QED  BY <1>2, <1>3, <1>4

\* Of two parts of one sequence one continues the other.
LEMMA PrefixesNest ==
    ASSUME NEW S, NEW s \in Seq(S), NEW t \in Seq(S), NEW r \in Seq(S),
           Prefix(s, r), Prefix(t, r)
    PROVE  Prefix(s, t) \/ Prefix(t, s)
<1>1. DOMAIN s = 1 .. Len(s) /\ DOMAIN t = 1 .. Len(t) /\ Len(s) \in Nat /\ Len(t) \in Nat
  BY LenProperties
<1>2. CASE Len(s) =< Len(t)
  <2>1. \A k \in DOMAIN s : k \in DOMAIN t
    BY <1>1, <1>2
  <2> QED  BY <1>2, <2>1 DEF Prefix
<1>3. CASE Len(t) =< Len(s)
  <2>1. \A k \in DOMAIN t : k \in DOMAIN s
    BY <1>1, <1>3
  <2> QED  BY <1>3, <2>1 DEF Prefix
<1> QED  BY <1>1, <1>2, <1>3

\* What is offered, asked or answered from r is so from a longer one.
LEMMA SoundGrows ==
    ASSUME NEW r \in Seq(Manifests), NEW m \in Manifests
    PROVE  /\ \A c : Offered(c, Range(r)) => Offered(c, Range(Append(r, m)))
           /\ \A ask : AskSound(ask, r) => AskSound(ask, Append(r, m))
           /\ \A ask, response :
                 response.listing \in Seq(Manifests) /\ ResponseSound(ask, response, r) =>
                    ResponseSound(ask, response, Append(r, m))
<1>1. Range(r) \subseteq Range(Append(r, m))
  BY RangeAppend
<1>2. \A c : Offered(c, Range(r)) => Offered(c, Range(Append(r, m)))
  BY <1>1 DEF Offered, ModesOf
<1>3. \A ask : AskSound(ask, r) => AskSound(ask, Append(r, m))
  BY <1>1 DEF AskSound
<1>4. \A s \in Seq(Manifests) : Prefix(s, r) => Prefix(s, Append(r, m))
  BY PrefixAppend
<1> QED  BY <1>1, <1>2, <1>3, <1>4 DEF ResponseSound

(***************************************************************************)
(* The steps                                                               *)
(***************************************************************************)

\* The types of an open request.
LEMMA OpenRequest ==
    ASSUME DiscoveryTypeOK, NEW g \in Gets, gets[g] # None
    PROVE  /\ gets[g] \in [ask : Asks, response : Responses \cup {None}]
           /\ gets[g].ask \in Asks /\ gets[g].response \in Responses \cup {None}
           /\ gets[g].response # None => gets[g].response.listing \in Seq(Manifests)
<1>1. gets[g] \in [ask : Asks, response : Responses \cup {None}]
  BY DEF DiscoveryTypeOK
<1> QED  BY <1>1 DEF Responses

\* register: whatever was learnt, announced or asked for is still there.
LEMMA RegisterManifestStep ==
    ASSUME DiscoveryInv, NEW m \in Manifests, RegisterManifest(m)
    PROVE  DiscoveryInv'
<1>1. /\ DiscoveryTypeOK /\ Valid(m) /\ ~ Registered(m.id) /\ registry' = Append(registry, m)
      /\ UNCHANGED <<card, gets, cards, listings, known, refused>>
  BY DEF RegisterManifest, DiscoveryInv, clientVars
<1>2. /\ registry \in Seq(Manifests) /\ registry \in Seq({x \in Manifests : Valid(x)})
      /\ m \in {x \in Manifests : Valid(x)}
  BY <1>1, SeqMonotonic DEF DiscoveryTypeOK
<1>3. registry' \in Seq({x \in Manifests : Valid(x)})
  BY <1>1, <1>2, AppendProperties
<1>4. DiscoveryTypeOK'
  BY <1>1, <1>3 DEF DiscoveryTypeOK
<1>5. Unique(registry')
  <2>1. /\ DOMAIN registry' = DOMAIN registry \cup {Len(registry) + 1}
        /\ \A k \in DOMAIN registry : registry'[k] = registry[k]
        /\ registry'[Len(registry) + 1] = m
    BY <1>1, <1>2
  <2>2. \A k \in DOMAIN registry : registry[k].id # m.id
    BY <1>1 DEF Registered, Range
  <2> QED  BY <2>1, <2>2 DEF Unique, DiscoveryInv
<1>6. /\ \A c : Offered(c, Range(registry)) => Offered(c, Range(registry'))
      /\ \A ask : AskSound(ask, registry) => AskSound(ask, registry')
      /\ \A ask, response :
            response.listing \in Seq(Manifests) /\ ResponseSound(ask, response, registry) =>
               ResponseSound(ask, response, registry')
  BY <1>1, <1>2, SoundGrows
<1>7. GetsSound'
  <2>1. \A ask : AskSound(ask, registry) => AskSound(ask, registry)'
    BY <1>1, <1>6 DEF AskSound
  <2> SUFFICES ASSUME NEW g \in Gets, gets[g] # None
               PROVE  /\ AskSound(gets[g].ask, registry)'
                      /\ gets[g].response # None =>
                            ResponseSound(gets[g].ask, gets[g].response, registry')
    BY <1>1 DEF GetsSound
  <2>2. /\ AskSound(gets[g].ask, registry)
        /\ gets[g].response # None => /\ ResponseSound(gets[g].ask, gets[g].response, registry)
                                      /\ gets[g].response.listing \in Seq(Manifests)
    BY <1>1, OpenRequest DEF DiscoveryInv, GetsSound
  <2> QED  BY <1>1, <1>6, <2>1, <2>2
<1>8. ClientSound'
  <2>1. \A l \in listings : Prefix(l.manifests, registry')
    <3>1. \A l \in listings : l.manifests \in Seq(Manifests) /\ Prefix(l.manifests, registry)
      BY <1>1 DEF DiscoveryInv, ClientSound, DiscoveryTypeOK
    <3> QED  BY <1>1, <1>2, <3>1, PrefixAppend
  <2>2. known \subseteq Range(registry')
    BY <1>1, <1>2, RangeAppend DEF DiscoveryInv, ClientSound
  <2> QED  BY <1>1, <1>6, <2>1, <2>2 DEF DiscoveryInv, ClientSound
<1>9. card' # None => Offered(card', Range(registry'))
  BY <1>1, <1>6 DEF DiscoveryInv
<1> QED  BY <1>4, <1>5, <1>7, <1>8, <1>9 DEF DiscoveryInv

\* app(): the card announces what is registered.
LEMMA BuildAppStep ==
    ASSUME DiscoveryInv, BuildApp
    PROVE  DiscoveryInv'
<1>1. /\ DiscoveryTypeOK /\ card' = [modes |-> ModesOf(Range(registry))]
      /\ UNCHANGED <<registry, gets, cards, listings, known, refused>>
  BY DEF BuildApp, DiscoveryInv, clientVars
<1>2. Offered(card', Range(registry)) /\ card' \in Cards
  <2>1. ModesOf(Range(registry)) \subseteq Modes
    <3>1. \A m \in Range(registry) : m \in Manifests
      BY <1>1, LenProperties DEF DiscoveryTypeOK, Range
    <3>2. \A m \in Manifests : m.modes \subseteq Modes
      BY DiscoveryAssumption DEF ManifestRecords
    <3> QED  BY <3>1, <3>2 DEF ModesOf
  <2> QED  BY <1>1, <2>1 DEF Offered, Cards
<1>3. DiscoveryTypeOK'
  BY <1>1, <1>2 DEF DiscoveryTypeOK
<1> QED
  BY <1>1, <1>2, <1>3 DEF DiscoveryInv, GetsSound, ClientSound, AskSound

\* A request that is open, one that changes, and the others.
LEMMA OneRequestChanges ==
    ASSUME DiscoveryInv, UNCHANGED <<registry, card, cards>>, NEW g \in Gets,
           NEW q \in [ask : Asks, response : Responses \cup {None}] \cup {None},
           gets' = [gets EXCEPT ![g] = q],
           q # None => /\ AskSound(q.ask, registry)
                       /\ q.response # None => ResponseSound(q.ask, q.response, registry)
    PROVE  /\ gets' \in [Gets -> [ask : Asks, response : Responses \cup {None}] \cup {None}]
           /\ GetsSound'
<1>1. gets \in [Gets -> [ask : Asks, response : Responses \cup {None}] \cup {None}]
  BY DEF DiscoveryInv, DiscoveryTypeOK
<1>2. \A h \in Gets : gets'[h] = IF h = g THEN q ELSE gets[h]
  BY <1>1
<1>3. \A ask : AskSound(ask, registry)' = AskSound(ask, registry)
  BY DEF AskSound
<1>4. ASSUME NEW h \in Gets, gets'[h] # None
      PROVE  /\ AskSound(gets'[h].ask, registry)
             /\ gets'[h].response # None =>
                   ResponseSound(gets'[h].ask, gets'[h].response, registry)
  <2>1. CASE h = g
    BY <1>2, <1>4, <2>1
  <2>2. CASE h # g
    BY <1>2, <1>4, <2>2 DEF DiscoveryInv, GetsSound
  <2> QED  BY <2>1, <2>2
<1>5. GetsSound'
  BY <1>4 DEF GetsSound, AskSound
<1> QED  BY <1>1, <1>5

LEMMA RequestStep ==
    ASSUME DiscoveryInv, NEW g \in Gets,
           NEW q \in [ask : Asks, response : Responses \cup {None}] \cup {None},
           gets' = [gets EXCEPT ![g] = q],
           q # None => /\ AskSound(q.ask, registry)
                       /\ q.response # None => ResponseSound(q.ask, q.response, registry),
           UNCHANGED <<registry, card, cards, listings, known, refused>>
    PROVE  DiscoveryInv'
<1>1. /\ gets' \in [Gets -> [ask : Asks, response : Responses \cup {None}] \cup {None}]
      /\ GetsSound'
  BY OneRequestChanges
<1>2. DiscoveryTypeOK' /\ ClientSound'
  BY <1>1 DEF DiscoveryInv, DiscoveryTypeOK, ClientSound
<1> QED  BY <1>1, <1>2 DEF DiscoveryInv

\* Requests are sent with what the client holds.
LEMMA AskStep ==
    ASSUME DiscoveryInv, NEW g \in Gets, NEW op \in {"card", "list", "manifest", "propose"},
           NEW c \in Cards \cup {None}, NEW s \in SkillIds \cup {None},
           NEW mode \in Modes \cup {None}, Ask(g, op, c, s, mode),
           op = "list" => c \in cards,
           op = "propose" => \E m \in known : m.id = s /\ mode \in m.modes
    PROVE  DiscoveryInv'
<1> DEFINE ask == [op |-> op, card |-> c, id |-> s, mode |-> mode]
           q == [ask |-> ask, response |-> None]
<1>1. ask \in Asks /\ ask.op = op /\ ask.card = c /\ ask.id = s /\ ask.mode = mode
  BY DEF Asks
<1>2. gets' = [gets EXCEPT ![g] = q] /\ UNCHANGED <<registry, card, cards, listings, known, refused>>
  BY DEF Ask, clientVars
<1> HIDE DEF ask
<1>3. q.ask = ask /\ q.response = None /\ q \in [ask : Asks, response : Responses \cup {None}]
  BY <1>1
<1>4. AskSound(ask, registry)
  BY <1>1 DEF AskSound, DiscoveryInv, ClientSound
<1> HIDE DEF q
<1> QED  BY <1>2, <1>3, <1>4, RequestStep

\* get and get_for_mode: what is there to be found is found.
LEMMA LookupFinds ==
    ASSUME NEW s, NEW mode
    PROVE  /\ Lookup(s, mode) # None => Lookup(s, mode) \in Range(registry)
           /\ (\E m \in Range(registry) : m.id = s /\ mode \in m.modes) =>
                 Lookup(s, mode) \in Range(registry)
BY DEF Lookup

\* An answer is drawn from the registry as it is.
LEMMA ServeStep ==
    ASSUME DiscoveryInv, NEW g \in Gets, Serve(g)
    PROVE  DiscoveryInv'
<1> DEFINE ask == gets[g].ask
           response == Respond(ask)
           q == [gets[g] EXCEPT !.response = response]
<1>1. /\ DiscoveryTypeOK /\ card # None /\ gets[g] # None /\ card \in Cards
      /\ gets[g] \in [ask : Asks, response : Responses \cup {None}] /\ ask \in Asks
      /\ AskSound(ask, registry) /\ registry \in Seq(Manifests)
      /\ Range(registry) \subseteq Manifests
  <2>1. DiscoveryTypeOK /\ card # None /\ gets[g] # None
    BY DEF Serve, DiscoveryInv
  <2>2. registry \in Seq(Manifests)
    BY <2>1, SeqMonotonic DEF DiscoveryTypeOK
  <2>3. Range(registry) \subseteq Manifests
    BY <2>2, LenProperties DEF Range
  <2>4. AskSound(ask, registry)
    BY <2>1 DEF DiscoveryInv, GetsSound
  <2> QED  BY <2>1, <2>2, <2>3, <2>4, OpenRequest DEF DiscoveryTypeOK
<1>2. /\ response.card = IF ask.op = "card" THEN card ELSE None
      /\ response.listing = IF ask.op = "list" THEN registry ELSE <<>>
      /\ response.manifest = IF ask.op \in {"manifest", "propose"} THEN Lookup(ask.id, ask.mode)
                             ELSE None
  BY DEF Respond
<1>3. response.manifest # None => response.manifest \in Range(registry)
  BY <1>2, LookupFinds
<1>4. response \in Responses
  <2>1. response = [card |-> response.card, listing |-> response.listing,
                    manifest |-> response.manifest]
    BY DEF Respond
  <2>2. /\ response.card \in Cards \cup {None} /\ response.listing \in Seq(Manifests)
        /\ response.manifest \in Manifests \cup {None}
    BY <1>1, <1>2, <1>3
  <2> QED  BY <2>1, <2>2 DEF Responses
<1>5. /\ UNCHANGED <<registry, card, cards, listings, known, refused>>
      /\ gets' = [gets EXCEPT ![g] = q]
  BY <1>1 DEF Serve, clientVars, DiscoveryTypeOK
<1> HIDE DEF response
<1>6. q \in [ask : Asks, response : Responses \cup {None}] /\ q.ask = ask /\ q.response = response
  BY <1>1, <1>4
<1>7. ResponseSound(ask, response, registry)
  <2>1. ask.op = "card" => response.card \in Cards /\ Offered(response.card, Range(registry))
    BY <1>1, <1>2 DEF DiscoveryInv
  <2>2. Prefix(response.listing, registry)
    BY <1>1, <1>2, PrefixRefl, LenProperties DEF Prefix
  <2>3. ask.op = "list" => Offered(ask.card, Range(response.listing))
    BY <1>1, <1>2 DEF AskSound, DiscoveryInv, ClientSound
  <2>4. ask.op = "propose" => response.manifest # None
    <3>1. ask.op = "propose" => response.manifest = Lookup(ask.id, ask.mode)
      BY <1>2
    <3>2. ask.op = "propose" => Lookup(ask.id, ask.mode) \in Range(registry)
      BY <1>1, LookupFinds DEF AskSound
    <3> QED  BY <1>1, <3>1, <3>2, DiscoveryAssumption
  <2> QED  BY <1>3, <2>1, <2>2, <2>3, <2>4 DEF ResponseSound
<1> HIDE DEF q, ask
<1> QED  BY <1>1, <1>5, <1>6, <1>7, RequestStep DEF ask

\* What arrives was sound when it was sent, and still is.
LEMMA ArrivedIsSound ==
    ASSUME DiscoveryInv, NEW g \in Gets, NEW op, Arrives(g, op)
    PROVE  /\ gets[g] # None /\ gets[g].ask.op = op /\ gets[g].response \in Responses
           /\ gets[g].ask \in Asks /\ AskSound(gets[g].ask, registry)
           /\ gets[g].response.listing \in Seq(Manifests)
           /\ ResponseSound(gets[g].ask, gets[g].response, registry)
           /\ gets' = [gets EXCEPT ![g] = None] /\ UNCHANGED <<registry, card>>
<1>1. /\ gets[g] # None /\ gets[g].response # None /\ gets[g].ask.op = op
      /\ gets' = [gets EXCEPT ![g] = None] /\ UNCHANGED <<registry, card>>
  BY DEF Arrives
<1> QED  BY <1>1, OpenRequest DEF DiscoveryInv, GetsSound

LEMMA CardArrivesStep ==
    ASSUME DiscoveryInv, NEW g \in Gets, CardArrives(g)
    PROVE  DiscoveryInv'
<1> DEFINE c == gets[g].response.card
<1>1. /\ c \in Cards /\ Offered(c, Range(registry)) /\ DiscoveryTypeOK
      /\ gets' = [gets EXCEPT ![g] = None] /\ cards' = cards \cup {c}
      /\ UNCHANGED <<registry, card, listings, known, refused>>
  BY ArrivedIsSound DEF CardArrives, ResponseSound, DiscoveryInv
<1>2. \A h \in Gets : gets'[h] = IF h = g THEN None ELSE gets[h]
  BY <1>1 DEF DiscoveryTypeOK
<1>3. DiscoveryTypeOK'
  BY <1>1 DEF DiscoveryTypeOK
<1>4. ClientSound'
  BY <1>1 DEF DiscoveryInv, ClientSound
<1>5. GetsSound'
  BY <1>1, <1>2 DEF DiscoveryInv, GetsSound, AskSound
<1> QED  BY <1>1, <1>3, <1>4, <1>5 DEF DiscoveryInv

\* The other answers change what the client knows.
LEMMA AnswerStep ==
    ASSUME DiscoveryInv, NEW g \in Gets, gets' = [gets EXCEPT ![g] = None],
           UNCHANGED <<registry, card, cards>>, ClientSound',
           listings' \subseteq [card : Cards, manifests : Seq(Manifests)]
    PROVE  DiscoveryInv'
<1>1. GetsSound' /\ gets' \in [Gets -> [ask : Asks, response : Responses \cup {None}] \cup {None}]
  BY OneRequestChanges
<1>2. registry \in Seq(Manifests) /\ Range(registry) \subseteq Manifests
  <2>1. registry \in Seq(Manifests)
    BY SeqMonotonic DEF DiscoveryInv, DiscoveryTypeOK
  <2> QED  BY <2>1, LenProperties DEF Range
<1>3. DiscoveryTypeOK'
  BY <1>1, <1>2 DEF DiscoveryInv, DiscoveryTypeOK, ClientSound
<1> QED  BY <1>1, <1>3 DEF DiscoveryInv

LEMMA ListingArrivesStep ==
    ASSUME DiscoveryInv, NEW g \in Gets, ListingArrives(g)
    PROVE  DiscoveryInv'
<1> DEFINE ask == gets[g].ask
           listing == gets[g].response.listing
           l == [card |-> ask.card, manifests |-> listing]
<1>1. /\ ask.card \in cards /\ cards \subseteq Cards /\ listing \in Seq(Manifests)
      /\ Prefix(listing, registry) /\ Offered(ask.card, Range(listing))
      /\ gets' = [gets EXCEPT ![g] = None] /\ listings' = listings \cup {l}
      /\ known' = known \cup Range(listing)
      /\ UNCHANGED <<registry, card, cards, refused>>
  BY ArrivedIsSound
     DEF ListingArrives, ResponseSound, AskSound, DiscoveryInv, DiscoveryTypeOK
<1>2. l.card = ask.card /\ l.manifests = listing /\ l \in [card : Cards, manifests : Seq(Manifests)]
  BY <1>1
<1>3. Range(listing) \subseteq Range(registry)
  <2>1. registry \in Seq(Manifests)
    BY SeqMonotonic DEF DiscoveryInv, DiscoveryTypeOK
  <2>2. \A k \in DOMAIN listing : k \in DOMAIN registry /\ listing[k] = registry[k]
    BY <1>1, <2>1, LenProperties DEF Prefix
  <2> QED  BY <2>2 DEF Range
<1> HIDE DEF l, ask, listing
<1>4. ClientSound'
  BY <1>1, <1>2, <1>3 DEF DiscoveryInv, ClientSound
<1>5. listings' \subseteq [card : Cards, manifests : Seq(Manifests)]
  BY <1>1, <1>2 DEF DiscoveryInv, DiscoveryTypeOK
<1> QED  BY <1>1, <1>4, <1>5, AnswerStep

LEMMA ManifestArrivesStep ==
    ASSUME DiscoveryInv, NEW g \in Gets, ManifestArrives(g)
    PROVE  DiscoveryInv'
<1>1. /\ gets[g].response.manifest # None => gets[g].response.manifest \in Range(registry)
      /\ gets' = [gets EXCEPT ![g] = None]
      /\ known' = known \cup ({gets[g].response.manifest} \ {None})
      /\ UNCHANGED <<registry, card, cards, listings, refused>>
  BY ArrivedIsSound DEF ManifestArrives, ResponseSound
<1>2. ClientSound'
  BY <1>1 DEF DiscoveryInv, ClientSound
<1> QED  BY <1>1, <1>2, AnswerStep DEF DiscoveryInv, DiscoveryTypeOK

LEMMA ProposalAnsweredStep ==
    ASSUME DiscoveryInv, NEW g \in Gets, ProposalAnswered(g)
    PROVE  DiscoveryInv'
<1>1. /\ gets[g].response.manifest # None /\ gets' = [gets EXCEPT ![g] = None]
      /\ UNCHANGED <<registry, card, cards, listings, known>>
  BY ArrivedIsSound DEF ProposalAnswered, ResponseSound
<1>2. refused' = refused
  BY <1>1 DEF ProposalAnswered
<1>3. ClientSound'
  BY <1>1, <1>2 DEF DiscoveryInv, ClientSound
<1> QED  BY <1>1, <1>3, AnswerStep DEF DiscoveryInv, DiscoveryTypeOK

LEMMA GetFailsStep ==
    ASSUME DiscoveryInv, NEW g \in Gets, GetFails(g)
    PROVE  DiscoveryInv'
BY RequestStep DEF GetFails, clientVars

(***************************************************************************)
(* The theorems                                                            *)
(***************************************************************************)
LEMMA DiscoveryStep ==
    DiscoveryInv /\ [DiscoveryNext]_discoveryVars => DiscoveryInv'
<1> SUFFICES ASSUME DiscoveryInv, [DiscoveryNext]_discoveryVars PROVE DiscoveryInv'
  OBVIOUS
<1>1. CASE UNCHANGED discoveryVars
  BY <1>1 DEF discoveryVars, DiscoveryInv, DiscoveryTypeOK, GetsSound, ClientSound, AskSound
<1>2. /\ cards \subseteq Cards /\ known \subseteq Manifests
      /\ \A m \in Manifests : m.id \in SkillIds
  BY DiscoveryAssumption DEF DiscoveryInv, DiscoveryTypeOK, ManifestRecords
<1>3. ASSUME NEW g \in Gets,
             FetchAgentCard(g) \/ \E c \in cards :
                \/ ListManifests(g, c)
                \/ \E s \in SkillIds : FetchManifest(g, c, s)
                \/ \E m \in known, mode \in Modes : ProposeKnown(g, c, m, mode)
      PROVE  DiscoveryInv'
  BY <1>2, <1>3, AskStep DEF FetchAgentCard, ListManifests, FetchManifest, ProposeKnown
<1>4. CASE DiscoveryNext
  BY <1>3, <1>4, RegisterManifestStep, BuildAppStep, ServeStep, CardArrivesStep,
     ListingArrivesStep, ManifestArrivesStep, ProposalAnsweredStep, GetFailsStep
     DEF DiscoveryNext
<1> QED  BY <1>1, <1>4

LEMMA DiscoveryInvariant == DiscoverySpec => []DiscoveryInv
<1>1. DiscoveryInit => DiscoveryInv
  <2> SUFFICES ASSUME DiscoveryInit PROVE DiscoveryInv
    OBVIOUS
  <2>1. DiscoveryTypeOK
    BY DEF DiscoveryInit, DiscoveryTypeOK
  <2>2. Unique(registry) /\ GetsSound /\ ClientSound
    BY DEF DiscoveryInit, Unique, GetsSound, ClientSound
  <2> QED  BY <2>1, <2>2 DEF DiscoveryInit, DiscoveryInv
<1> QED  BY <1>1, DiscoveryStep, PTL DEF DiscoverySpec

\* ManifestRegistry.register: what is in the registry has passed validation.
THEOREM DiscoveryTypeCorrect == DiscoverySpec => []DiscoveryTypeOK
<1>1. DiscoveryInv => DiscoveryTypeOK
  BY DEF DiscoveryInv
<1> QED  BY <1>1, DiscoveryInvariant, PTL

\* list_manifests: of two listings one continues the other.
THEOREM ListingsAreNested == DiscoverySpec => []ListingsNest
<1>1. DiscoveryInv => ListingsNest
  <2> SUFFICES ASSUME DiscoveryInv, NEW l1 \in listings, NEW l2 \in listings
               PROVE  Prefix(l1.manifests, l2.manifests) \/ Prefix(l2.manifests, l1.manifests)
    BY DEF ListingsNest
  <2>1. registry \in Seq(Manifests)
    BY SeqMonotonic DEF DiscoveryInv, DiscoveryTypeOK
  <2>2. /\ l1.manifests \in Seq(Manifests) /\ Prefix(l1.manifests, registry)
        /\ l2.manifests \in Seq(Manifests) /\ Prefix(l2.manifests, registry)
    BY DEF DiscoveryInv, DiscoveryTypeOK, ClientSound
  <2> QED  BY <2>1, <2>2, PrefixesNest
<1> QED  BY <1>1, DiscoveryInvariant, PTL

\* A skill has one manifest, wherever the client read it.
THEOREM KnowledgeIsConsistent == DiscoverySpec => []KnownIsConsistent
<1>1. DiscoveryInv => KnownIsConsistent
  <2> SUFFICES ASSUME DiscoveryInv PROVE KnownIsConsistent
    OBVIOUS
  <2>1. known \subseteq Range(registry) /\ registry \in Seq({m \in Manifests : Valid(m)})
    BY DEF DiscoveryInv, ClientSound, DiscoveryTypeOK
  <2>2. \A m \in Range(registry) : Valid(m)
    BY <2>1, LenProperties DEF Range
  <2>3. \A m1, m2 \in Range(registry) : m1.id = m2.id => m1 = m2
    BY DEF DiscoveryInv, Unique, Range
  <2> QED  BY <2>1, <2>2, <2>3 DEF KnownIsConsistent
<1> QED  BY <1>1, DiscoveryInvariant, PTL

\* agent_card: what the card announces is in every listing got by it.
THEOREM CardsAreCovered == DiscoverySpec => []CardIsCovered
<1>1. DiscoveryInv => CardIsCovered
  BY DEF DiscoveryInv, ClientSound, CardIsCovered, Offered
<1> QED  BY <1>1, DiscoveryInvariant, PTL

\* propose: what was read in a manifest is not unknown.
THEOREM ProposalsAreKnown == DiscoverySpec => []DiscoveredCanBeProposed
<1>1. DiscoveryInv => DiscoveredCanBeProposed
  BY DEF DiscoveryInv, ClientSound, DiscoveredCanBeProposed
<1> QED  BY <1>1, DiscoveryInvariant, PTL
=============================================================================
