------------------------------ MODULE Identity ------------------------------
(***************************************************************************)
(* Who signed an agreement, and what a client can find out about it: the   *)
(* provider's keypair and DID document, DidResolver with its cache, and    *)
(* PolypactClient.verify_agreement.                                        *)
(*                                                                         *)
(* One provider with a did:web name, one client process with one resolver, *)
(* several coroutines that verify.  resolve() suspends only when it        *)
(* fetches; the rest of a verification runs in one piece.  A key is what   *)
(* it signs and verifies: a signature is good under the key it was made    *)
(* with and no other.                                                      *)
(***************************************************************************)
CONSTANTS
    Keypairs,    \* AgentKeypairs, as [kid, key]; a kid may be used again
    ForeignKey,  \* a key the provider never has, or what a damaged signature fits
    Contents,    \* what an agreement says, its signatures apart
    Tasks,       \* verify_agreement calls that can be under way at a time
    Unparsable,  \* a "signature" whose parts are no base64 or no JSON
    Misshapen,   \* one with other than three parts, no kid, or another alg
    None

Kids == {p.kid : p \in Keypairs}

\* The compact JWS of _signer: the header's kid, the key used, the payload.
Jws == [kid : Kids, key : {p.key : p \in Keypairs} \cup {ForeignKey}, payload : Contents]

\* An agreement as data, with the provider's entry of its signatures.
Agreements == [content : Contents, jws : Jws \cup {Unparsable, Misshapen, None}]

Signed == {g \in Agreements : g.jws # None}

\* A DID document lists one verification method: the public half of a keypair.
Documents == Keypairs

Outcomes == {"ok", "AuthorizationFailedError", "ValueError", "HTTPError"}

\* A coroutine in resolve(): what it verifies, and the response on its way.
Fetches == [agreement : Signed, document : Documents \cup {None}]

Verdicts == [agreement : Agreements, outcome : Outcomes]

ASSUME IdentityAssumption ==
    /\ \A p \in Keypairs : p = [kid |-> p.kid, key |-> p.key]
    /\ ForeignKey \notin {p.key : p \in Keypairs}
    /\ Unparsable \notin Jws /\ Misshapen \notin Jws /\ None \notin Jws
    /\ Unparsable # Misshapen /\ None \notin {Unparsable, Misshapen}
    /\ None \notin Keypairs /\ None \notin Fetches /\ None \notin Verdicts

VARIABLES
    keypair,     \* the provider's signing_key; None if it was given none
    published,   \* every keypair it ever ran with
    struck,      \* the agreements it made, as it made them
    cache,       \* DidResolver._cache, for the provider's DID
    tasks,       \* the coroutines that wait for a DID document
    accepted,    \* the agreements this client process found to verify
    overlapped,  \* two fetches of this client process were under way at once
    verdict      \* how a verify_agreement ended in the last step, if one did

providerVars == <<keypair, published, struck>>

clientVars == <<cache, tasks, accepted, overlapped>>

identityVars == <<keypair, published, struck, cache, tasks, accepted, overlapped, verdict>>

(***************************************************************************)
(* The provider                                                            *)
(***************************************************************************)
\* PolypactServer is constructed with another keypair, the same one, or none.
RestartWith(p) ==
    /\ keypair' = p
    /\ published' = published \cup ({p} \ {None})
    /\ verdict' = None
    /\ UNCHANGED <<struck, clientVars>>

Signature(x) ==
    IF keypair = None THEN None
    ELSE [kid |-> keypair.kid, key |-> keypair.key, payload |-> x]

\* _build_agreement signs the payload that the agreement then carries.
Strike(x) ==
    /\ \A g \in struck : g.content # x    \* a fresh agreement_id
    /\ struck' = struck \cup {[content |-> x, jws |-> Signature(x)]}
    /\ verdict' = None
    /\ UNCHANGED <<keypair, published, clientVars>>

(***************************************************************************)
(* verify_agreement                                                        *)
(***************************************************************************)
\* An agreement of that content, signed over it with a key the provider never had.
Remade(x, kid) ==
    [content |-> x, jws |-> [kid |-> kid, key |-> ForeignKey, payload |-> x]]

\* What a client may be handed: an agreement as it was struck, with another
\* content, with something else or nothing for a signature, or one signed anew.
Received ==
    struck \cup {[g EXCEPT !.content = x] : g \in struck, x \in Contents}
           \cup {[g EXCEPT !.jws = s] : g \in struck, s \in {Unparsable, Misshapen, None}}
           \cup {Remade(x, kid) : x \in Contents, kid \in Kids}

\* Mutant: the signature is not verified under the key found for its kid.
CheckKidOnly(g, document) ==
    CASE g.jws = Unparsable -> "ValueError"
      [] g.jws = Misshapen -> "AuthorizationFailedError"
      [] OTHER ->
           IF g.jws.kid = document.kid /\ g.jws.payload = g.content
             THEN "ok" ELSE "AuthorizationFailedError"

\* Mutant: the comparison includes the signatures, which are not signed.
CheckWithSignatures(g, document) ==
    IF g.jws = Unparsable THEN "ValueError" ELSE "AuthorizationFailedError"

\* split_jws, find_key, verify and the comparison of the payloads, in this order.
Check(g, document) ==
    CASE g.jws = Unparsable -> "ValueError"
      [] g.jws = Misshapen -> "AuthorizationFailedError"
      [] OTHER ->
           IF /\ g.jws.kid = document.kid
              /\ g.jws.key = document.key
              /\ g.jws.payload = g.content
             THEN "ok" ELSE "AuthorizationFailedError"

\* The coroutine returns or raises.
End(g, outcome) ==
    /\ verdict' = [agreement |-> g, outcome |-> outcome]
    /\ accepted' = IF outcome = "ok" THEN accepted \cup {g} ELSE accepted

Suspend(t, g) ==
    /\ tasks' = [tasks EXCEPT ![t] = [agreement |-> g, document |-> None]]
    /\ overlapped' = (overlapped \/ \E u \in Tasks : tasks[u] # None)
    /\ verdict' = None
    /\ UNCHANGED <<cache, accepted>>

\* Mutant: the document is fetched before the signature is looked for.
VerifyUnsigned(t, g) ==
    /\ tasks[t] = None
    /\ \/ cache = None /\ Suspend(t, g)
       \/ /\ g.jws # None /\ cache # None
          /\ End(g, Check(g, cache))
          /\ UNCHANGED <<cache, tasks, overlapped>>
    /\ UNCHANGED providerVars

\* Mutant: the cache is not looked up.
VerifyFetching(t, g) ==
    /\ tasks[t] = None
    /\ g.jws # None /\ Suspend(t, g)
    /\ UNCHANGED providerVars

\* verify_agreement up to its first suspension, or to its end.
Verify(t, g) ==
    /\ tasks[t] = None
    /\ \/ /\ g.jws = None
          /\ End(g, "AuthorizationFailedError")
          /\ UNCHANGED <<cache, tasks, overlapped>>
       \/ g.jws # None /\ cache = None /\ Suspend(t, g)
       \/ /\ g.jws # None /\ cache # None
          /\ End(g, Check(g, cache))
          /\ UNCHANGED <<cache, tasks, overlapped>>
    /\ UNCHANGED providerVars

Fetching(t) == tasks[t] # None

\* GET /.well-known/did.json: the running process serves its own key's document.
DidAnswers(t) ==
    /\ Fetching(t) /\ tasks[t].document = None
    /\ keypair # None
    /\ tasks' = [tasks EXCEPT ![t].document = keypair]
    /\ verdict' = None
    /\ UNCHANGED <<providerVars, cache, accepted, overlapped>>

\* The response arrives: it is cached whatever is there by now, and the
\* verification runs to its end.
FetchArrives(t) ==
    /\ Fetching(t) /\ tasks[t].document # None
    /\ cache' = tasks[t].document
    /\ tasks' = [tasks EXCEPT ![t] = None]
    /\ End(tasks[t].agreement, Check(tasks[t].agreement, tasks[t].document))
    /\ UNCHANGED <<providerVars, overlapped>>

\* A timeout, a lost connection or the 404 of a provider without a key; or a
\* response that is no JSON or no DID document, whose errors are ValueErrors.
FetchFails(t, outcome) ==
    /\ Fetching(t)
    /\ tasks' = [tasks EXCEPT ![t] = None]
    /\ End(tasks[t].agreement, outcome)
    /\ UNCHANGED <<providerVars, cache, overlapped>>

\* The client process ends; the agreements it holds are data and remain.
ClientRestart ==
    /\ cache' = None
    /\ tasks' = [t \in Tasks |-> None]
    /\ accepted' = {} /\ overlapped' = FALSE /\ verdict' = None
    /\ UNCHANGED providerVars

IdentityInit ==
    /\ keypair = None /\ published = {} /\ struck = {}
    /\ cache = None
    /\ tasks = [t \in Tasks |-> None]
    /\ accepted = {} /\ overlapped = FALSE /\ verdict = None

IdentityNext ==
    \/ \E p \in Keypairs \cup {None} : RestartWith(p)
    \/ \E x \in Contents : Strike(x)
    \/ \E t \in Tasks :
          \/ \E g \in Received : Verify(t, g)
          \/ DidAnswers(t) \/ FetchArrives(t)
          \/ \E outcome \in {"HTTPError", "ValueError"} : FetchFails(t, outcome)
    \/ ClientRestart

IdentitySpec == IdentityInit /\ [][IdentityNext]_identityVars

-----------------------------------------------------------------------------
(***************************************************************************)
(* Properties                                                              *)
(***************************************************************************)
\* Keys, agreements, cache and coroutines are what the code can hold: only signed
\* agreements wait for a document.
IdentityTypeOK ==
    /\ keypair \in Keypairs \cup {None} /\ published \subseteq Keypairs
    /\ struck \subseteq Agreements /\ accepted \subseteq Agreements
    /\ cache \in Documents \cup {None}
    /\ tasks \in [Tasks -> Fetches \cup {None}]
    /\ overlapped \in BOOLEAN
    /\ verdict \in Verdicts \cup {None}

\* An agreement verifies only if the provider struck it, with that content: no
\* rotation, late response or cached document lets pass a changed one, or one that
\* somebody else signed under the provider's key identifier.
VerifiedWasStruck ==
    verdict # None /\ verdict.outcome = "ok" => verdict.agreement \in struck

\* As long as the provider has only ever had one keypair, what it signed is never
\* refused as not its own; the document may be cached or fetched, before or after.
NoFalseRefusal ==
    verdict # None /\ verdict.outcome = "AuthorizationFailedError"
      /\ verdict.agreement \in struck /\ verdict.agreement.jws # None =>
        \E p, q \in published : p # q

\* What has verified once verifies again for as long as the client process runs,
\* whatever keys the provider changes to, unless two coroutines fetched at once:
\* the one that comes last may then put an older or newer document in the cache.
VerifiedStaysVerified ==
    ~ overlapped => \A g \in accepted : cache # None /\ Check(g, cache) = "ok"
=============================================================================
