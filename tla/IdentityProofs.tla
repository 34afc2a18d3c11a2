---------------------------- MODULE IdentityProofs ----------------------------
(***************************************************************************)
(* Theorems about module Identity, for every set of keypairs, agreements   *)
(* and coroutines.                                                         *)
(*                                                                         *)
(* Besides the types the argument needs three facts of the system:         *)
(* a signature that was struck is of a published keypair and over its own  *)
(* content; a document in the cache or on its way is of a published        *)
(* keypair; what a coroutine verifies is something it was handed.          *)
(***************************************************************************)
EXTENDS Identity, TLAPS

IsSignature(g, p) == g.jws = [kid |-> p.kid, key |-> p.key, payload |-> g.content]

StruckIsSigned ==
    \A g \in struck : g.jws = None \/ \E p \in published : IsSignature(g, p)

DocumentsArePublished ==
    /\ keypair \in published \cup {None}
    /\ cache \in published \cup {None}
    /\ \A t \in Tasks : Fetching(t) => tasks[t].document \in published \cup {None}

SomeFailure(t) == \E outcome \in {"HTTPError", "ValueError"} : FetchFails(t, outcome)

HandedOver == \A t \in Tasks : Fetching(t) => tasks[t].agreement \in Received

IdentityInv == StruckIsSigned /\ DocumentsArePublished /\ HandedOver

(***************************************************************************)
(* Types                                                                   *)
(***************************************************************************)
LEMMA SignatureType ==
    ASSUME IdentityTypeOK, NEW x \in Contents
    PROVE  Signature(x) \in Jws \cup {None}
BY DEF Signature, Jws, Kids, IdentityTypeOK

LEMMA StruckType ==
    ASSUME IdentityTypeOK, NEW x \in Contents
    PROVE  [content |-> x, jws |-> Signature(x)] \in Agreements
BY SignatureType DEF Agreements

\* What is handed to a client was struck, or differs from it in one field, or was
\* signed by somebody else.
LEMMA ReceivedKinds ==
    ASSUME NEW g \in Received
    PROVE  \/ g \in struck
           \/ \E h \in struck, x \in Contents : g = [h EXCEPT !.content = x]
           \/ \E h \in struck, s \in {Unparsable, Misshapen, None} : g = [h EXCEPT !.jws = s]
           \/ \E x \in Contents, kid \in Kids : g = Remade(x, kid)
BY DEF Received

LEMMA ReceivedType ==
    ASSUME IdentityTypeOK
    PROVE  Received \subseteq Agreements
<1>1. struck \subseteq Agreements
  BY DEF IdentityTypeOK
<1>2. ASSUME NEW g \in Agreements, NEW x \in Contents
      PROVE  [g EXCEPT !.content = x] \in Agreements
  BY DEF Agreements
<1>3. ASSUME NEW g \in Agreements, NEW s \in {Unparsable, Misshapen, None}
      PROVE  [g EXCEPT !.jws = s] \in Agreements
  BY DEF Agreements
<1>4. ASSUME NEW g \in Received
      PROVE  g \in Agreements
  <2>1. CASE g \in struck
    BY <1>1, <2>1
  <2>2. CASE \E h \in struck, x \in Contents : g = [h EXCEPT !.content = x]
    BY <1>1, <1>2, <2>2
  <2>3. CASE \E h \in struck, s \in {Unparsable, Misshapen, None} : g = [h EXCEPT !.jws = s]
    BY <1>1, <1>3, <2>3
  <2>4. CASE \E x \in Contents, kid \in Kids : g = Remade(x, kid)
    BY <2>4 DEF Remade, Agreements, Jws
  <2> QED  BY <2>1, <2>2, <2>3, <2>4, ReceivedKinds
<1> QED  BY <1>4

LEMMA CheckType ==
    ASSUME NEW g, NEW d
    PROVE  Check(g, d) \in Outcomes
<1>1. CASE g.jws = Unparsable
  BY <1>1 DEF Check, Outcomes
<1>2. CASE g.jws # Unparsable /\ g.jws = Misshapen
  BY <1>2 DEF Check, Outcomes
<1>3. CASE g.jws # Unparsable /\ g.jws # Misshapen
  BY <1>3 DEF Check, Outcomes
<1> QED  BY <1>1, <1>2, <1>3

LEMMA EndType ==
    ASSUME IdentityTypeOK, NEW g \in Agreements, NEW outcome \in Outcomes, End(g, outcome)
    PROVE  verdict' \in Verdicts /\ accepted' \subseteq Agreements
BY DEF End, Verdicts, IdentityTypeOK

LEMMA SuspendType ==
    ASSUME IdentityTypeOK, NEW t \in Tasks, NEW g \in Signed, Suspend(t, g)
    PROVE  /\ tasks' \in [Tasks -> Fetches \cup {None}]
           /\ overlapped' \in BOOLEAN /\ verdict' = None
           /\ UNCHANGED <<cache, accepted>>
<1>1. [agreement |-> g, document |-> None] \in Fetches
  BY DEF Fetches
<1> QED  BY <1>1 DEF Suspend, IdentityTypeOK

LEMMA FetchType ==
    ASSUME IdentityTypeOK, NEW t \in Tasks, Fetching(t)
    PROVE  /\ tasks[t].agreement \in Agreements
           /\ tasks[t].document \in Documents \cup {None}
           /\ tasks[t] \in Fetches
BY DEF IdentityTypeOK, Fetching, Fetches, Signed

LEMMA VerifyType ==
    ASSUME IdentityTypeOK, NEW t \in Tasks, NEW g \in Received, Verify(t, g)
    PROVE  IdentityTypeOK'
<1>0. g \in Agreements /\ UNCHANGED providerVars
  BY ReceivedType DEF Verify
<1>1. CASE /\ End(g, "AuthorizationFailedError")
           /\ UNCHANGED <<cache, tasks, overlapped>>
  <2>1. verdict' \in Verdicts /\ accepted' \subseteq Agreements
    BY <1>0, <1>1, EndType DEF Outcomes
  <2> QED  BY <1>0, <1>1, <2>1 DEF IdentityTypeOK, providerVars
<1>2. CASE g.jws # None /\ Suspend(t, g)
  <2>1. g \in Signed
    BY <1>0, <1>2 DEF Signed
  <2> QED  BY <1>0, <1>2, <2>1, SuspendType DEF IdentityTypeOK, providerVars
<1>3. CASE End(g, Check(g, cache)) /\ UNCHANGED <<cache, tasks, overlapped>>
  <2>1. verdict' \in Verdicts /\ accepted' \subseteq Agreements
    BY <1>0, <1>3, EndType, CheckType
  <2> QED  BY <1>0, <1>3, <2>1 DEF IdentityTypeOK, providerVars
<1> QED  BY <1>1, <1>2, <1>3 DEF Verify

LEMMA FetchingType ==
    ASSUME IdentityTypeOK, NEW t \in Tasks, DidAnswers(t) \/ FetchArrives(t) \/ SomeFailure(t)
    PROVE  IdentityTypeOK'
<1>0. /\ Fetching(t) /\ tasks[t] \in Fetches /\ tasks[t].agreement \in Agreements
      /\ tasks \in [Tasks -> Fetches \cup {None}]
  BY FetchType DEF DidAnswers, FetchArrives, SomeFailure, FetchFails, IdentityTypeOK
<1>1. CASE DidAnswers(t)
  <2>1. [tasks[t] EXCEPT !.document = keypair] \in Fetches
    BY <1>0, <1>1 DEF Fetches, DidAnswers, IdentityTypeOK, Documents
  <2>2. tasks' \in [Tasks -> Fetches \cup {None}]
    BY <1>0, <1>1, <2>1 DEF DidAnswers
  <2> QED  BY <1>1, <2>2 DEF DidAnswers, IdentityTypeOK, providerVars
<1>2. CASE FetchArrives(t)
  <2>1. verdict' \in Verdicts /\ accepted' \subseteq Agreements
    BY <1>0, <1>2, EndType, CheckType DEF FetchArrives
  <2>2. tasks' \in [Tasks -> Fetches \cup {None}] /\ cache' \in Documents
    BY <1>0, <1>2, FetchType DEF FetchArrives
  <2> QED  BY <1>2, <2>1, <2>2 DEF FetchArrives, IdentityTypeOK, providerVars
<1>3. CASE SomeFailure(t)
  <2>1. verdict' \in Verdicts /\ accepted' \subseteq Agreements
    BY <1>0, <1>3, EndType DEF SomeFailure, FetchFails, Outcomes
  <2>2. tasks' \in [Tasks -> Fetches \cup {None}]
    BY <1>0, <1>3 DEF SomeFailure, FetchFails
  <2> QED  BY <1>3, <2>1, <2>2 DEF SomeFailure, FetchFails, IdentityTypeOK, providerVars
<1> QED  BY <1>1, <1>2, <1>3

LEMMA IdentityTypeStep ==
    IdentityTypeOK /\ [IdentityNext]_identityVars => IdentityTypeOK'
<1> SUFFICES ASSUME IdentityTypeOK, [IdentityNext]_identityVars
             PROVE  IdentityTypeOK'
  OBVIOUS
<1>1. ASSUME NEW p \in Keypairs \cup {None}, RestartWith(p)
      PROVE  IdentityTypeOK'
  BY <1>1 DEF RestartWith, IdentityTypeOK, clientVars
<1>2. ASSUME NEW x \in Contents, Strike(x)
      PROVE  IdentityTypeOK'
  BY <1>2, StruckType DEF Strike, IdentityTypeOK, clientVars
<1>3. CASE ClientRestart
  BY <1>3 DEF ClientRestart, IdentityTypeOK, providerVars
<1>4. CASE UNCHANGED identityVars
  BY <1>4 DEF identityVars, IdentityTypeOK
<1> QED
  BY <1>1, <1>2, <1>3, <1>4, VerifyType, FetchingType DEF IdentityNext, SomeFailure

\* Keys, agreements, the cache and the coroutines stay what the code can hold,
\* whatever is struck, rotated, fetched and lost.
THEOREM IdentityTypeCorrect == IdentitySpec => []IdentityTypeOK
<1>1. IdentityInit => IdentityTypeOK
  BY DEF IdentityInit, IdentityTypeOK
<1> QED  BY <1>1, IdentityTypeStep, PTL DEF IdentitySpec

(***************************************************************************)
(* The invariant                                                           *)
(***************************************************************************)
\* A signature made now is of the keypair in use, which has been published.
LEMMA StrikeIsSigned ==
    ASSUME IdentityTypeOK, IdentityInv, NEW x \in Contents, Strike(x)
    PROVE  StruckIsSigned'
<1> DEFINE new == [content |-> x, jws |-> Signature(x)]
<1>1. struck' = struck \cup {new} /\ published' = published
  BY DEF Strike
<1>2. new.jws = None \/ \E p \in published : IsSignature(new, p)
  <2>1. CASE keypair = None
    BY <2>1 DEF Signature
  <2>2. CASE keypair # None
    BY <2>2 DEF Signature, IsSignature, IdentityInv, DocumentsArePublished
  <2> QED  BY <2>1, <2>2
<1>3. ASSUME NEW g \in struck'
      PROVE  g.jws = None \/ \E p \in published : IsSignature(g, p)
  BY <1>1, <1>2 DEF IdentityInv, StruckIsSigned
<1> QED  BY <1>1, <1>3 DEF StruckIsSigned, IsSignature

\* The agreements that may be handed over only become more.
LEMMA ReceivedGrows ==
    ASSUME struck \subseteq struck'
    PROVE  Received \subseteq Received'
BY DEF Received

LEMMA IdentityInvStep ==
    IdentityTypeOK /\ IdentityInv /\ [IdentityNext]_identityVars => IdentityInv'
<1> SUFFICES ASSUME IdentityTypeOK, IdentityInv, [IdentityNext]_identityVars
             PROVE  IdentityInv'
  OBVIOUS
<1> USE DEF IdentityInv
<1>1. ASSUME NEW p \in Keypairs \cup {None}, RestartWith(p)
      PROVE  IdentityInv'
  <2>1. published \subseteq published' /\ UNCHANGED <<struck, cache, tasks>>
          /\ keypair' \in published' \cup {None}
    BY <1>1 DEF RestartWith, clientVars
  <2> QED  BY <2>1 DEF StruckIsSigned, IsSignature, DocumentsArePublished, HandedOver,
                       Fetching, Received
<1>2. ASSUME NEW x \in Contents, Strike(x)
      PROVE  IdentityInv'
  <2>1. struck \subseteq struck' /\ UNCHANGED <<keypair, published, cache, tasks>>
    BY <1>2 DEF Strike, clientVars
  <2>2. DocumentsArePublished'
    BY <2>1 DEF DocumentsArePublished, Fetching
  <2>3. HandedOver'
    BY <2>1, ReceivedGrows DEF HandedOver, Fetching
  <2> QED  BY <1>2, <2>2, <2>3, StrikeIsSigned
<1>3. ASSUME UNCHANGED <<keypair, published, struck>>,
             cache' \in published \cup {None},
             \A t \in Tasks : tasks'[t] # None =>
                /\ tasks'[t].agreement \in Received
                /\ tasks'[t].document \in published \cup {None}
      PROVE  IdentityInv'
  BY <1>3 DEF StruckIsSigned, IsSignature, DocumentsArePublished, HandedOver, Fetching,
              Received
<1>4. \A t \in Tasks : tasks[t] # None =>
         tasks[t].agreement \in Received /\ tasks[t].document \in published \cup {None}
  BY DEF DocumentsArePublished, HandedOver, Fetching
<1>5. tasks \in [Tasks -> Fetches \cup {None}] /\ cache \in published \cup {None}
  BY DEF IdentityTypeOK, DocumentsArePublished
<1>6. ASSUME NEW t \in Tasks, NEW g \in Received, Verify(t, g)
      PROVE  IdentityInv'
  <2>1. UNCHANGED <<keypair, published, struck, cache>>
    BY <1>6 DEF Verify, providerVars, Suspend
  <2>2. \/ tasks' = tasks
        \/ tasks' = [tasks EXCEPT ![t] = [agreement |-> g, document |-> None]]
    BY <1>6 DEF Verify, Suspend
  <2> QED  BY <1>3, <1>4, <1>5, <2>1, <2>2
<1>7. ASSUME NEW t \in Tasks, DidAnswers(t)
      PROVE  IdentityInv'
  <2>1. /\ UNCHANGED <<keypair, published, struck, cache>>
        /\ tasks' = [tasks EXCEPT ![t].document = keypair]
        /\ tasks[t] # None /\ keypair \in published
    BY <1>7 DEF DidAnswers, providerVars, Fetching, DocumentsArePublished
  <2>2. /\ tasks'[t].agreement = tasks[t].agreement /\ tasks'[t].document = keypair
        /\ \A u \in Tasks : u # t => tasks'[u] = tasks[u]
    BY <1>5, <2>1 DEF Fetches
  <2> QED  BY <1>3, <1>4, <1>5, <2>1, <2>2
<1>8. ASSUME NEW t \in Tasks, FetchArrives(t) \/ SomeFailure(t)
      PROVE  IdentityInv'
  <2>1. /\ UNCHANGED <<keypair, published, struck>>
        /\ tasks' = [tasks EXCEPT ![t] = None]
        /\ cache' \in published \cup {None}
    BY <1>4, <1>5, <1>8 DEF FetchArrives, SomeFailure, FetchFails, providerVars, Fetching
  <2> QED  BY <1>3, <1>4, <1>5, <2>1
<1>9. CASE ClientRestart
  <2>1. /\ UNCHANGED <<keypair, published, struck>> /\ cache' = None
        /\ tasks' = [t \in Tasks |-> None]
    BY <1>9 DEF ClientRestart, providerVars
  <2> QED  BY <1>3, <2>1
<1>10. CASE UNCHANGED identityVars
  BY <1>3, <1>4, <1>5, <1>10 DEF identityVars
<1> QED
  BY <1>1, <1>2, <1>6, <1>7, <1>8, <1>9, <1>10 DEF IdentityNext, SomeFailure

LEMMA IdentityInvariant == IdentitySpec => []IdentityInv
<1>1. IdentityInit => IdentityInv
  BY DEF IdentityInit, IdentityInv, StruckIsSigned, DocumentsArePublished, HandedOver, Fetching
<1> QED  BY <1>1, IdentityTypeCorrect, IdentityInvStep, PTL DEF IdentitySpec

(***************************************************************************)
(* Safety                                                                  *)
(***************************************************************************)
\* How a verification ends: without a document, or with the verdict of Check on
\* what was handed over and the document that was cached or has arrived.
LEMMA VerdictCases ==
    ASSUME IdentityTypeOK, IdentityInv, [IdentityNext]_identityVars
    PROVE  \/ verdict' = None
           \/ UNCHANGED <<verdict, struck, published>>
           \/ /\ UNCHANGED <<struck, published>>
              /\ \E g \in Received :
                    \/ \E e \in {"HTTPError", "ValueError"} :
                          verdict' = [agreement |-> g, outcome |-> e]
                    \/ /\ g.jws = None
                       /\ verdict' = [agreement |-> g, outcome |-> "AuthorizationFailedError"]
                    \/ /\ g.jws # None
                       /\ \E d \in published :
                             verdict' = [agreement |-> g, outcome |-> Check(g, d)]
<1>1. ASSUME NEW t \in Tasks, NEW g \in Received, Verify(t, g), verdict' # None
      PROVE  /\ UNCHANGED <<struck, published>>
             /\ \/ /\ g.jws = None
                   /\ verdict' = [agreement |-> g, outcome |-> "AuthorizationFailedError"]
                \/ /\ g.jws # None
                   /\ \E d \in published :
                         verdict' = [agreement |-> g, outcome |-> Check(g, d)]
  <2>1. cache # None => cache \in published
    BY DEF IdentityInv, DocumentsArePublished
  <2> QED  BY <1>1, <2>1 DEF Verify, End, Suspend, providerVars
<1>2. ASSUME NEW t \in Tasks, FetchArrives(t)
      PROVE  /\ UNCHANGED <<struck, published>>
             /\ \E g \in Received : g.jws # None /\
                   \E d \in published : verdict' = [agreement |-> g, outcome |-> Check(g, d)]
  <2>1. /\ tasks[t].agreement \in Received /\ tasks[t].document \in published
        /\ tasks[t].agreement \in Signed
    BY <1>2 DEF FetchArrives, Fetching, IdentityInv, DocumentsArePublished, HandedOver,
                IdentityTypeOK, Fetches
  <2> QED  BY <1>2, <2>1 DEF FetchArrives, End, providerVars, Signed
<1>3. ASSUME NEW t \in Tasks, NEW e \in {"HTTPError", "ValueError"}, FetchFails(t, e)
      PROVE  /\ UNCHANGED <<struck, published>>
             /\ \E g \in Received : verdict' = [agreement |-> g, outcome |-> e]
  BY <1>3 DEF SomeFailure, FetchFails, Fetching, IdentityInv, HandedOver, End, providerVars
<1>4. CASE \/ \E p \in Keypairs \cup {None} : RestartWith(p)
           \/ \E x \in Contents : Strike(x)
           \/ \E t \in Tasks : DidAnswers(t)
           \/ ClientRestart
  BY <1>4 DEF RestartWith, Strike, DidAnswers, ClientRestart
<1>5. CASE UNCHANGED identityVars
  BY <1>5 DEF identityVars
<1> QED  BY <1>1, <1>2, <1>3, <1>4, <1>5 DEF IdentityNext, SomeFailure

\* A signature that checks under a published document was struck over the very
\* agreement handed over: the key rules out what somebody else signed, the payload
\* what was altered.
LEMMA CheckedWasStruck ==
    ASSUME IdentityTypeOK, IdentityInv, NEW g \in Received, g.jws # None,
           NEW d \in published, Check(g, d) = "ok"
    PROVE  g \in struck
<1>1. /\ g.jws # Unparsable /\ g.jws # Misshapen
      /\ g.jws.payload = g.content
  BY DEF Check
<1>2. CASE \E h \in struck, x \in Contents : g = [h EXCEPT !.content = x]
  <2>1. PICK h \in struck, x \in Contents : g = [h EXCEPT !.content = x]
    BY <1>2
  <2>2. h \in Agreements /\ h = [content |-> h.content, jws |-> h.jws]
    BY DEF IdentityTypeOK, Agreements
  <2>3. g = [content |-> x, jws |-> h.jws]
    BY <2>1, <2>2
  <2>4. \E p \in published : IsSignature(h, p)
    BY <2>3 DEF IdentityInv, StruckIsSigned
  <2>5. h.content = x
    BY <1>1, <2>3, <2>4 DEF IsSignature
  <2> QED  BY <2>2, <2>3, <2>5
<1>3. CASE \E h \in struck, s \in {Unparsable, Misshapen, None} : g = [h EXCEPT !.jws = s]
  <2>1. PICK h \in struck, s \in {Unparsable, Misshapen, None} : g = [h EXCEPT !.jws = s]
    BY <1>3
  <2>2. h \in Agreements
    BY DEF IdentityTypeOK
  <2>3. g.jws = s
    BY <2>1, <2>2 DEF Agreements
  <2> QED  BY <1>1, <2>3
<1>4. CASE \E x \in Contents, kid \in Kids : g = Remade(x, kid)
  <2>1. g.jws.key = d.key /\ d.key # ForeignKey
    BY <1>1, IdentityAssumption DEF Check, IdentityTypeOK
  <2>2. g.jws.key = ForeignKey
    BY <1>4 DEF Remade
  <2> QED  BY <2>1, <2>2
<1> QED  BY <1>2, <1>3, <1>4, ReceivedKinds

\* verify_agreement never lets an agreement pass that the provider did not strike
\* with that content, whatever keys rotate and documents arrive late: not one that
\* was changed, nor one signed with a key the provider never had under its kid.
\* Taken for granted is that a signature fits no key but the one it was made with.
THEOREM VerifiedAreStruck == IdentitySpec => []VerifiedWasStruck
<1>1. IdentityInit => VerifiedWasStruck
  BY DEF IdentityInit, VerifiedWasStruck
<1>2. ASSUME IdentityTypeOK, IdentityInv, VerifiedWasStruck, [IdentityNext]_identityVars
      PROVE  VerifiedWasStruck'
  <2>1. CASE verdict' = None
    BY <2>1 DEF VerifiedWasStruck
  <2>2. CASE UNCHANGED <<verdict, struck, published>>
    BY <1>2, <2>2 DEF VerifiedWasStruck
  <2>3. ASSUME UNCHANGED struck, NEW g \in Received, g.jws # None,
               NEW d \in published, verdict' = [agreement |-> g, outcome |-> Check(g, d)]
        PROVE  VerifiedWasStruck'
    BY <1>2, <2>3, CheckedWasStruck DEF VerifiedWasStruck
  <2>4. ASSUME NEW g, NEW e \in {"HTTPError", "ValueError", "AuthorizationFailedError"},
               verdict' = [agreement |-> g, outcome |-> e]
        PROVE  VerifiedWasStruck'
    BY <2>4 DEF VerifiedWasStruck
  <2> QED  BY <1>2, <2>1, <2>2, <2>3, <2>4, VerdictCases
<1> QED  BY <1>1, <1>2, IdentityTypeCorrect, IdentityInvariant, PTL DEF IdentitySpec

\* What a sole keypair struck checks with its document.
LEMMA StruckChecks ==
    ASSUME IdentityTypeOK, IdentityInv, NEW g \in struck, g.jws # None,
           NEW d \in published, \A p, q \in published : p = q
    PROVE  Check(g, d) = "ok"
<1>1. IsSignature(g, d)
  BY DEF IdentityInv, StruckIsSigned
<1>2. g.jws \in Jws /\ g.jws # Unparsable /\ g.jws # Misshapen
  <2>1. d \in Keypairs /\ g.content \in Contents
    BY DEF IdentityTypeOK, Agreements
  <2>2. [kid |-> d.kid, key |-> d.key, payload |-> g.content] \in Jws
    BY <2>1 DEF Jws, Kids
  <2> QED  BY <1>1, <2>2, IdentityAssumption DEF IsSignature
<1> QED  BY <1>1, <1>2 DEF Check, IsSignature

\* As long as the provider has only ever had one keypair, no agreement it signed is
\* refused as not its own, from the cache or after a fetch.
THEOREM RefusalsAreJust == IdentitySpec => []NoFalseRefusal
<1>1. IdentityInit => NoFalseRefusal
  BY DEF IdentityInit, NoFalseRefusal
<1>2. ASSUME IdentityTypeOK, IdentityInv, NoFalseRefusal, [IdentityNext]_identityVars
      PROVE  NoFalseRefusal'
  <2>1. CASE verdict' = None
    BY <2>1 DEF NoFalseRefusal
  <2>2. CASE UNCHANGED <<verdict, struck, published>>
    BY <1>2, <2>2 DEF NoFalseRefusal
  <2>3. ASSUME UNCHANGED <<struck, published>>, NEW g \in Received, g.jws # None,
               NEW d \in published, verdict' = [agreement |-> g, outcome |-> Check(g, d)]
        PROVE  NoFalseRefusal'
    <3>1. SUFFICES ASSUME g \in struck, Check(g, d) = "AuthorizationFailedError",
                          \A p, q \in published : p = q
                   PROVE  FALSE
      BY <2>3 DEF NoFalseRefusal
    <3> QED  BY <1>2, <2>3, <3>1, StruckChecks
  <2>4. ASSUME NEW g, \/ verdict' = [agreement |-> g, outcome |-> "HTTPError"]
                      \/ verdict' = [agreement |-> g, outcome |-> "ValueError"]
                      \/ /\ g.jws = None
                         /\ verdict' = [agreement |-> g, outcome |-> "AuthorizationFailedError"]
        PROVE  NoFalseRefusal'
    BY <2>4 DEF NoFalseRefusal
  <2> QED  BY <1>2, <2>1, <2>2, <2>3, <2>4, VerdictCases
<1> QED  BY <1>1, <1>2, IdentityTypeCorrect, IdentityInvariant, PTL DEF IdentitySpec

(***************************************************************************)
(* What has verified verifies again                                        *)
(***************************************************************************)
\* Without overlap there is one fetch at a time, and none once the cache is filled.
AloneUntilCached ==
    ~ overlapped =>
        /\ cache # None => \A t \in Tasks : tasks[t] = None
        /\ \A t, u \in Tasks : tasks[t] # None /\ tasks[u] # None => t = u

LEMMA AloneStep ==
    IdentityTypeOK /\ AloneUntilCached /\ [IdentityNext]_identityVars => AloneUntilCached'
<1> SUFFICES ASSUME IdentityTypeOK, AloneUntilCached, [IdentityNext]_identityVars
             PROVE  AloneUntilCached'
  OBVIOUS
<1>0. tasks \in [Tasks -> Fetches \cup {None}]
  BY DEF IdentityTypeOK
<1>1. CASE UNCHANGED <<cache, tasks, overlapped>>
  BY <1>1 DEF AloneUntilCached
<1>2. ASSUME NEW t \in Tasks, NEW g, cache = None, Suspend(t, g)
      PROVE  AloneUntilCached'
  <2>1. SUFFICES ASSUME ~ overlapped'
                 PROVE  AloneUntilCached'
    BY DEF AloneUntilCached
  <2>2. \A u \in Tasks : tasks[u] = None
    BY <1>2, <2>1 DEF Suspend
  <2> QED  BY <1>0, <1>2, <2>2 DEF Suspend, AloneUntilCached
<1>3. ASSUME NEW t \in Tasks, DidAnswers(t)
      PROVE  AloneUntilCached'
  <2>1. /\ UNCHANGED <<cache, overlapped>> /\ tasks[t] # None
        /\ \A u \in Tasks : u # t => tasks'[u] = tasks[u]
    BY <1>0, <1>3 DEF DidAnswers, Fetching
  <2> QED  BY <2>1 DEF AloneUntilCached
<1>4. ASSUME NEW t \in Tasks, FetchArrives(t) \/ SomeFailure(t)
      PROVE  AloneUntilCached'
  <2>1. /\ UNCHANGED overlapped /\ tasks[t] # None /\ tasks'[t] = None
        /\ \A u \in Tasks : u # t => tasks'[u] = tasks[u]
    BY <1>0, <1>4 DEF FetchArrives, SomeFailure, FetchFails, Fetching
  <2> QED  BY <2>1 DEF AloneUntilCached
<1>5. CASE ClientRestart
  BY <1>5 DEF ClientRestart, AloneUntilCached
<1>6. ASSUME NEW t \in Tasks, NEW g \in Received, Verify(t, g)
      PROVE  AloneUntilCached'
  BY <1>1, <1>2, <1>6 DEF Verify
<1>7. CASE \/ \E p \in Keypairs \cup {None} : RestartWith(p)
           \/ \E x \in Contents : Strike(x)
           \/ UNCHANGED identityVars
  BY <1>1, <1>7 DEF RestartWith, Strike, clientVars, identityVars
<1> QED  BY <1>3, <1>4, <1>5, <1>6, <1>7 DEF IdentityNext, SomeFailure

LEMMA VerifiedStaysStep ==
    ASSUME IdentityTypeOK, AloneUntilCached, VerifiedStaysVerified,
           [IdentityNext]_identityVars
    PROVE  VerifiedStaysVerified'
<1>1. CASE UNCHANGED <<cache, accepted, overlapped>>
  BY <1>1 DEF VerifiedStaysVerified
<1>2. ASSUME NEW t \in Tasks, NEW g, Suspend(t, g)
      PROVE  VerifiedStaysVerified'
  <2>1. UNCHANGED <<cache, accepted>> /\ (overlapped => overlapped')
    BY <1>2 DEF Suspend
  <2> QED  BY <2>1 DEF VerifiedStaysVerified
<1>3. ASSUME NEW g, NEW outcome, UNCHANGED <<cache, overlapped>>, End(g, outcome),
             outcome = "ok" => cache # None /\ Check(g, cache) = "ok"
      PROVE  VerifiedStaysVerified'
  BY <1>3 DEF End, VerifiedStaysVerified
<1>4. ASSUME NEW t \in Tasks, FetchArrives(t)
      PROVE  VerifiedStaysVerified'
  <2>1. SUFFICES ASSUME ~ overlapped'
                 PROVE  VerifiedStaysVerified'
    BY DEF VerifiedStaysVerified
  <2> DEFINE g == tasks[t].agreement
             d == tasks[t].document
  <2>2. /\ ~ overlapped /\ cache' = d /\ d # None /\ End(g, Check(g, d))
        /\ tasks[t] # None
    BY <1>4, <2>1 DEF FetchArrives, Fetching
  <2>3. accepted = {}
    BY <2>2 DEF AloneUntilCached, VerifiedStaysVerified
  <2> QED  BY <2>2, <2>3 DEF End, VerifiedStaysVerified
<1>5. ASSUME NEW t \in Tasks, SomeFailure(t)
      PROVE  VerifiedStaysVerified'
  BY <1>3, <1>5 DEF SomeFailure, FetchFails
<1>6. ASSUME NEW t \in Tasks, NEW g \in Received, Verify(t, g)
      PROVE  VerifiedStaysVerified'
  BY <1>2, <1>3, <1>6 DEF Verify
<1>7. CASE ClientRestart
  BY <1>7 DEF ClientRestart, VerifiedStaysVerified
<1>8. CASE \/ \E p \in Keypairs \cup {None} : RestartWith(p)
           \/ \E x \in Contents : Strike(x)
           \/ \E t \in Tasks : DidAnswers(t)
           \/ UNCHANGED identityVars
  BY <1>1, <1>8 DEF RestartWith, Strike, DidAnswers, clientVars, identityVars
<1> QED  BY <1>4, <1>5, <1>6, <1>7, <1>8 DEF IdentityNext, SomeFailure

\* What has verified once verifies again while the client process runs, unless two
\* coroutines fetched at once: the resolver's cache is filled once and then kept.
THEOREM VerifiedAgain == IdentitySpec => []VerifiedStaysVerified
<1>1. IdentityInit => AloneUntilCached /\ VerifiedStaysVerified
  BY DEF IdentityInit, AloneUntilCached, VerifiedStaysVerified
<1> QED
  BY <1>1, AloneStep, VerifiedStaysStep, IdentityTypeCorrect, PTL DEF IdentitySpec
===============================================================================
