# Polypact: specifications, model checking and proofs

TLA+ modules for Polypact (the package under `src/polypact`): the negotiation
state machine and its coordinator, the transfer primitives that honour its
agreements, the composition checks, the JSON-RPC dispatcher, the client behind an
unreliable network, signatures and `did:web`, and discovery. File names below are
relative to the package.

## 1. The system

| Part | State it keeps | Operations | Works with |
|---|---|---|---|
| State machine `negotiation/fsm.py` | none (pure) | `initial`, `step` (lazy expiry, terminal check, one helper per event), `_build_agreement` | called by the coordinator |
| Coordinator `negotiation/coordinator.py` | none | `propose`, `counter_propose`, `accept`, `reject`; locally `get`, `expire` | reads the manifest registry, reads and puts records, logs transitions, signs |
| Negotiation store `negotiation/store.py` | records by id | `put`, `get`, `list` | shared by coordinator and agreement index; injectable |
| Agreement index, invoker `transfer/agreement_index.py`, `invoker.py` | none | `find`, party check, window check, routing by mode | reads the store |
| Delegate `transfer/delegate.py` | skill handlers | `register`, `invoke` (awaits user code) | called by server, invoker, lease |
| Lease `transfer/lease.py` | used invocations by agreement | `invoke` | wraps delegate |
| Teach `transfer/teach.py` | artifacts by skill | `register`, `transfer` | |
| Compose `transfer/compose.py` | none | `synthesize_composite` | registry, relations |
| Compatibility `manifest/compatibility.py` | relations between schemas | `register*`, `check_*` | |
| Registry `manifest/registry.py` | manifests by id | `register`, `get`, `list` | |
| Server `server.py` | owns all of the above | the RPC handlers, registration, construction | dispatcher |
| Dispatcher `transport/jsonrpc.py` | methods | `dispatch` (single, notification, batch) | HTTP router |
| HTTP endpoint `transport/http_server.py` | none | `rpc_endpoint` | dispatcher |
| Client `client.py`, `transport/http_client.py` | none (no retries, no session) | one method per RPC, three reads, `verify_agreement` | server over HTTP, resolver |
| Identity `identity/` | resolver cache, key files | sign, verify, resolve `did:web` | client, coordinator |
| Discovery `discovery/` | the agent card, fixed when the app is built | two GET routes | registry |

Everything runs on one asyncio loop. The negotiation handlers and every check
before a skill handler are synchronous, so they are atomic; the only suspension
points on the server are `await handler(payload)` in the delegate primitive and,
around it, the dispatcher's loop over a batch. On the client every call suspends
while the HTTP exchange is open, and `DidResolver.resolve` between its look-up and
its write.

What is hard here:

* **Lazy expiry.** Nothing schedules it. A record says PROPOSED long after its
  deadline, until a read or a request stores the expiry; the clock is the wall
  clock and may be set back; the deadline is exclusive for an offer and inclusive
  for the agreement.
* **Interleaving.** Requests of two parties and of strangers in any order; any
  number of invocations suspended in user code while requests, janitor calls and
  registrations go on.
* **Partial failure and restart.** A handler that is missing or raises after a
  lease unit is spent; counts that live in memory beside records that may not; a
  batch of which some elements have run when another raises out of it.
* **Late answers.** A client gives up, and its request is executed all the same,
  perhaps by the next process; a reply tells of a state that has changed since; a
  DID document or a listing arrives after a newer one.
* **Composition.** A pairwise check, done at discovery and again at transfer,
  over a registry and relations that change in between.

What makes each part correct, in short: an agreement binds what was last offered
while the offer lived, and is never altered; only parties move a negotiation; a
final state once told is the stored one; the log is a chain; a lease is not
overdrawn while its counts live; what runs or is released is covered by an agreement in force; what the
server told a client stays true; each answer in a batch is its element's; only what the
provider struck verifies; what discovery has shown can be proposed; a parallel
composite asks for all that its steps require, and an answer about one is not taken back. PROJECT.json lists
the hazards line by line with the properties aimed at them.

## 2. The modules

| Module | Models |
|---|---|
| `NegotiationLifecycle` | abstract: what a negotiation promises, without clock, store or callers; a restart either forgets all of them or none |
| `LeaseLedger` | abstract: what the lease primitive promises, as accounts of units |
| `Negotiation` | `fsm.py`, `coordinator.py`, `store.py` and the negotiate handlers |
| `PolypactServer` (extends `Negotiation`) | index, invoker, delegate, lease, teach, the compose request, registration, restart |
| `Session` (extends `PolypactServer`) | the client's negotiate, invoke and transfer calls over connections that lose messages |
| `Dispatcher` | `transport/jsonrpc.py`, `transport/http_server.py` |
| `Composition` | registry, relations, compatibility checks, composite manifest |
| `Identity` | keypair and DID document, signing, `DidResolver`, `verify_agreement` |
| `Discovery` | registry and validation, agent card, manifest endpoints, the client's reads and the proposals made from them |
| `NegotiationProofs`, `ServerProofs`, `SessionProofs`, `SessionUnitsProofs`, `DispatcherProofs`, `CompositionProofs`, `IdentityProofs`, `DiscoveryProofs` | theorems |
| `MC*` | instances for TLC |

The composition is `Negotiation`, `PolypactServer`, `Session`, each with the one
before inside: the server's `Negotiate` is the negotiation's `Request`, `Local` and
clock, and a session's step is a server's step or leaves the server alone. The
other four stand by themselves and meet the server at a constant or at an outcome:
`ComposeCheck` (from `Composition`), `Supports` (from `Discovery`), the set of signers
(from `Identity`), how a handler ends (in `Dispatcher`).

### Negotiation

`store` is the dict of records (`None`: no record), `now` the wall clock, `audit`
the `negotiation.transition` log lines and `answer` the last return value or
exception; no guard reads the last two. A handler is one action with all it does:
`_authorized_record` checks the caller, then refreshes (and stores) a lapsed
offer, then `step` decides. So a request has an admitted form
(`CounterPropose`, `Accept`, `Reject`) and a failing one (`RequestFails`), which
still stores the expiry if the caller is a party. Times to live have no upper
bound in the schema; a sum that is no instant of `Dates` raises `OverflowError`,
which is answered as an internal error (`ProposeOverflows`, `DeadlineOverflows`)
and stores nothing. `Expire` differs: it neither
authorizes nor refreshes, and when `step` raises nothing is stored. `Tick` moves
the clock on; `StepBack` sets it back where `ClockStepsBack` allows it. Terms are
model values, of which only the lease block matters; a signature is the set of
its signers. EXECUTING, DONE and ABORTED are in the type, as in the enum; no
handler reaches them.

### PolypactServer

A `task.invoke` is two actions: the checks, the lease unit and the start of the
skill handler (`InvokeAgreement` or `InvokeSkill`), then its end (`Complete`):
a result, or any error of `HandlerErrors`, since a `PolypactError` that user code
raises is answered with its own code like one of the server; `calls` holds the
suspended ones. `lease`,
`handlers` and `artifacts` are the primitives' dicts. `ran` counts handler starts
for ever, which no variable of the program does: the cap is stated with it.
`Restart` is the end of the process and its new start: all dicts are empty,
suspended calls are gone, and the records too, unless the embedding program
injected a store that outlives the process (`DurableStore`) and that
`negotiation_store or InMemoryNegotiationStore()` does not discard for being
empty (`SizedStore`). An identifier that was lost is never drawn again (`lost`).
An agreement is named by its negotiation; `uuid4` makes the relation one to one.
The verdict of the composition check on agreed terms is the constant
`ComposeCheck`; how it comes about is module `Composition`. The published
manifests are the constant `Supports`: they are given to the constructor.

The module has two abstractions. `ServerLifecycle` maps a negotiation that a
restart took to the phase `lost`, everything else as the coordinator alone is
mapped. `Ledger` maps a lease to an account: the limit is the agreed budget
(`Granted`), `spent` what the primitive has counted in this life of the process
(`UnitsSpent`), `runs` the handlers started under the agreement (`Runs`), and `lost`
the accounts that are closed. A start for an agreement that is not a lease, and a
`task.invoke` by skill id, are stuttering steps of it.

### Session

`conns` holds the open HTTP exchanges; one is `sent` (on its way, perhaps to a
process that has gone), `running` (the server awaits its skill handler), `replied`
or `lost`. `GiveUp` is httpx's timeout or network error: the caller stops waiting
and the request goes on. `Lose` drops a request or a reply. No method of
`PolypactClient` repeats a call, and no action here does. `ServeNegotiate`,
`ServeTransfer` and `Finish` are the server's own actions, joined with the reply.
`learnt`, `held` and `heard` are what callers know: names of negotiations,
agreements, and the exceptions that `_call` raised and that say something lasting
(`Lasting`). An `AgreementViolatedError` that a skill handler let through is on the
wire the same as one of the server; `byHandler` marks it here, because it says
nothing of the agreement of the call, and callers cannot tell. `asked` and `delivered` count invocations. None of these is a variable of the
program; the properties need them, and `Send` needs what is nameable.

### Dispatcher

One connection has the parsed body, the element it is at (`next`), whether its
handler is being awaited, and the responses so far; `ran` lists the handlers that
ended, with the place of their element, which is not on the wire. The ways out of
`_dispatch_one` are `Refuse` (bad envelope, unknown method, params that are a
list), `RefuseUnfit` (the error response itself is refused by its model) and
`StartHandler` with `EndHandler`. `Conclude` is what becomes of the handler's end:
a response, none for a notification, or an exception where the response model
cannot take the result or the error's data. `SendResponses` has the 204, and the 500
of a body that `json.dumps` cannot write, for a result or for the `data` of a
`PolypactError`. A body is `garbage` if `json.loads` raises the one exception that the
endpoint catches, `unreadable` if it raises another (bytes that are no text, nesting
or integers beyond its limits).

### Composition

A manifest is its inputs and outputs. `Matches` is `check_sequential`,
`CheckParallel` is `check_parallel` with its two unequal halves, `CheckComposition`
the walk over the pipeline. `ByName` is the dict keyed by field name, in which
the last of two equal names stays. `CompositeOutputs` is the loop over steps and
outputs with its set of seen keys: each slot is kept unless an earlier one has its
key. `approved` remembers what discovery last found compatible, `reply` the last
answer. The module covers one life of the process: the constructor builds registry
and relations anew.

### Identity

A keypair is a key identifier and a key; an identifier may be used again. A DID
document is the keypair that the process running now publishes: `build_did_document`
lists one method. A JWS is what it was made of (header kid, key, payload). A client
may be handed an agreement as struck, with another content, with something else or
nothing in place of the signature, or one signed anew, under any key identifier,
with a key the provider never had (`ForeignKey`; `Received`). `FetchFails` is a failed
exchange or a response that is no DID document. A provider whose name is no `did:web`
is left out: `resolve` raises on it before anything else. `Verify` runs up to `resolve`'s suspension or to
the end; `DidAnswers` is the document leaving the server; `FetchArrives` writes the
cache, whatever is in it by now, and finishes the verification. `published`,
`struck`, `accepted` and `overlapped` are history.

### Discovery

`registry` is the dict in insertion order, `card` the snapshot that `app()` takes.
A request reads them when it is served (`Serve`), and the response arrives in any
later order or never. The client finds the endpoints in a card it has, proposes
for a skill it has a manifest of, and keeps `cards`, `listings`, `known` and
`refused`, which are history.

## 3. What is checked

| Run | Shows | Distinct states |
|---|---|---|
| `handlers` | one negotiation of up to 3 proposals, two parties and a stranger, a published and an unpublished skill, clock 0..3 that may be set back: agreement soundness, told is stored, unbroken log, settled is final, only parties move it | 242 432 |
| `lifecycle` | two negotiations, clock forward only: the coordinator refines `NegotiationLifecycle`, and each offer lapses | 56 227 |
| `invoke` | two parties and a stranger, two concurrent calls on an agreement of any of the four modes (a lease of budget 2, up to 3 starts), handlers that end well or with a domain or an internal error, restarts, janitor, late registration: the server implements the lifecycle with restarts, and the lease primitive its ledger; the cap, running calls covered, starts and releases covered | 171 506 |
| `session` | one client and a provider, two connections, lost requests and replies, timeouts, restarts: agreements held are enforced, errors heard stay true, no call is executed twice, a violation is final | 1 271 948 |
| `dispatcher` | bodies of every kind, batches of up to 3 elements, every end of a handler, a method registered meanwhile: answers match, each element runs once, server errors have a reason of their own element's making, every request ends | 80 031 |
| `composition` | all orders of registration, relation, check and synthesis over two skills, five I/O surfaces, pipelines of 2 and 3 steps | 114 375 |
| `identity` | three keypairs over two key ids and a foreign key, two agreements, two coroutines: only what was struck verifies, one keypair means no false refusal, what verified verifies again | 1 582 370 |
| `discovery` | five manifests for three skills (two of them refused), two open requests: listings nest, reads agree, the card is covered, what was discovered can be proposed | 715 909 |
| `doc_*` | one documented statement each that the code does not keep (section 5) | |

**Bounds.** `MaxTime` caps the clock and the deadlines: 3 leaves an instant
before, at and after a deadline with another round in between, 2 is enough for
the server. `MaxRounds` caps proposals: with 3 the first, a middle and the last
differ. In the coordinator's runs times to live include 0, an offer born lapsed;
the server's offers live for 2, and its leases for 1, so a window may end before
the clock does and one may not. `MaxRuns` is one more than the budget of 2, so
that an overdraft would show. The server has one skill, offered in all modes,
with a handler and an artifact that may be there or not. `Dates` are the clock's
instants `0 .. MaxTime`: the last one stands for the year 9999, and a time to
live or a lease that leads beyond it overflows. Two calls are the fewest that can
race. `MaxAsked` is 2 with a lease of one unit, so that a call can find it spent.
`MaxItems` is 3: an element has one before and one behind it. One connection is
enough for the dispatcher: two share only the set of registered methods, which
`RegisterMethod` changes at any moment anyway (the theorems hold for any number).
Three steps are the fewest where a pipeline's ends are not neighbours. Of the
three keypairs two share an identifier and two a key. Two open requests are the
fewest that can be reordered. Deadlock is checked everywhere and does not occur.

**VIEW and SYMMETRY.** `MCNegotiation!MCView` drops `audit` and `answer`: no guard
reads them, `Tick` always changes `now`, and the run that uses it (`lifecycle`) checks
only properties of `now` and `store`. `MCServer!MCView` does the same; of the
server's properties only `ServerTypeOK` mentions the two, in `TypeOK`, which
`handlers` checks in full. `MCSession!MCView` drops `rpc` too: the replies hold copies of
what it and `answer` said. The call slots, the connections, the open requests of
`Discovery` and the skill identifiers of `Composition` are interchangeable; symmetry is
used in no run with a liveness property.

**Fairness.** `FairSpec` has weak fairness of `Tick` alone: the host's clock does
not stop. Nobody owes a request, a read or a janitor call, and user handlers may
hang. `OffersLapse` is therefore about what a reader would find, not about the
stored state, and speaks of one proposal at a time: counter-proposals may keep a
negotiation open for ever, as the protocol intends. `FairDispatcherSpec` has weak
fairness of each connection's `Serve`: the event loop resumes what can run, and
the handlers that were called return. `RequestsEnd` is no more than that allows: a
handler that hangs holds up its whole batch.

Each property has a mutant in its module, a small change of one definition
(marked `Mutant`) under which it fails.

## 4. What is proved

For every value of the constants, under the assumptions named in the modules
(types of the constants, `None` different from every value, numbers included):

* `NegotiationProofs`. The key lemma is `StoreSteps`: every step leaves the store
  alone or puts one `Successor` at an unchanged instant (new record, lazily
  expired record, or the successor of an offer that has not lapsed). Type
  correctness and `AgreementSound` are inductive from it (`TypeOK` is needed to
  know that deadlines are numbers and that a record has a last proposal).
  `SettledIsFinal` follows because a settled record has no successor but itself.
  `OnlyPartiesMoveIt` and `ToldIsStored` look at each handler's answer.
  `AuditTrail` is inductive through `ChainGrows`: a log is only extended
  from the stored state, and a lazily expired record is never extended.
  `JanitorsClose` is about `expire()`, which stores nothing when it finds a lapsed
  offer: the record may stay PROPOSED, but until the clock is set back no read finds
  the offer open. `OffersLapseInTime` takes from the liveness property the part that is
  about this code: if time comes to the end again and again, every offer lapses or
  is replaced. Its invariant is that no deadline lies beyond `MaxTime`
  (`DeadlinesInTime`); it needs no fairness and holds for any clock.
  Every admitted step is an abstract one (`LifecycleStep`), a lemma of its own
  because the server uses it too. `NegotiationImplementsLifecycle` assumes `~ ClockStepsBack` and uses
  `RefreshIsInvisible` and `TimeOnlyCloses`; with a clock that goes back a lapsed,
  unread offer reopens and the refinement is false.
* `ServerProofs`. Types; agreements stay sound; `RunningIsCovered` and
  `AccessIsCovered` for every configuration. `SettledIsFinal` across restarts assumes
  `StoreSurvives`, a durable store that is not discarded for being empty.
  `UnsizedStoreIsUsed` is the converse of `doc_sized_store`: without a `__len__` no
  injected store is discarded, so that method is the only cause.
  `LeasesImplementLedger` assumes `~ StoreSurvives`. Its invariant is `LeaseInv`: no record
  under a lost name, no count and no run for what has no agreement yet, and for
  every agreement an account whose limit is the budget and whose units do not
  exceed it. The second part is what makes an `accept` the opening of an
  empty account. From there on the ledger's own steps are enough: each of them
  preserves `Paid`, no run without a unit (`PaidStep`), hence `LedgerIsSolvent`,
  and `LeaseCapHolds`. Without the assumption all
  three are false: where records outlive the process the counts do not, and a
  restart gives the whole budget again (`doc_lease`). `ServerKeepsTheLifecycle` assumes
  `~ ClockStepsBack`; the coordinator is shown the negotiations that are not lost,
  where `LifecycleStep` applies, and a lost name is never drawn again.
  `ServerOffersLapseInTime` is the coordinator's theorem, restarts included.
* `SessionProofs`. `SessionImplementsServer`: under the mapping that forgets the
  connections a session is a server, so all theorems about the server hold behind
  the network; `SessionKeepsThePromises` draws it for the two refinements, with
  their assumptions. `HeldIsEnforced` and `HeardIsFinal` are not inductive: what a
  client hears was true when the reply was written. The invariant (`SessionInv`) says the
  same of every reply on its way, and `FactsStay` that each such fact, once true
  of a negotiation, is preserved by every server step, a restart included, because
  `lost` only grows. `ViolationIsFinal` assumes `~ ClockStepsBack` and
  `~ StoreSurvives`: the server refuses an invocation for one of four reasons (the agreement
  is gone, its window is over, its mode is none that can be invoked, its lease has
  no terms or no units left), and under these assumptions each of them lasts
  (`ClosedStays`) and none lets a handler start (`ClosedIsIdle`).
* `SessionUnitsProofs`. `UnitsAreAskedFor` counts, and is not inductive either: a call
  that was sent and not yet served may still run, one that was started may still
  deliver. The invariant (`UnitsInv`) adds those calls to the smaller count of each pair,
  and every step moves one connection on (`OneConnection`), so that one count grows
  by what the other loses; only a restart ends several at once, and takes from them.
  `LeasesHoldForClients` joins it with the cap: the results that clients hold under
  a lease are no more than the lease allows (`~ StoreSurvives`).
* `DispatcherProofs`. A loop invariant over the elements before and after `next`:
  those before it are answered exactly if they want an answer, have run if they
  could, and no run or response is of one behind it. Every property is about the
  moment the answer goes out, where `next` is past the end. `ServingIsBounded` is the
  safety half of `RequestsEnd`: each step of a connection ends its request or takes
  one from `TurnsLeft`, at most twice the length of the batch and one, and no other
  connection's step adds to it.
* `CompositionProofs`. Checks are monotone in relations and registry
  (`CompatibleGrows`), and every step only adds (`StepsGrow`): hence
  `CheckedStaysCompatible`. `SharedInputs` and `ViaIsExact` from the checks'
  definitions, and well-formed answers. `SharedInputs` is what the pairwise check with
  its two unequal halves gives a parallel composite that lists its first step's
  inputs: the required ones fit every step, and no other step requires a slot that is
  not listed, though it may be listed in another shape. `OutputsAreUnion`: slots are numbered in
  the order of the two loops, so of all slots with one key there is a least
  (`LeastNumber`, from the well-foundedness of the naturals), and it is the one kept.
* `IdentityProofs`. The invariant ties the good signatures to what was struck:
  whatever is received carries a struck agreement's JWS, or none that parses, or one
  made with a foreign key; a JWS that the provider made carries the content it
  signed; a document is of a keypair it published. So the key check refuses what
  somebody else signed, and the comparison of payload and content what was altered.
  `NoFalseRefusal` adds that cache, responses on their way and signatures all are of
  published keypairs; `VerifiedStaysVerified` that alone, a fetch is made only
  while the cache is empty, so the cache is written once.
* `DiscoveryProofs`. The registry only grows, at its end. The invariant says of
  every listing, manifest, card and response, wherever it is by now, that it is a
  prefix or a part of the registry and that a card's modes were there before
  anything got by it was read; all five properties follow from that.

Only model-checked: that the weakly fair clock of `OffersLapse` comes to `MaxTime`,
the hypothesis of `OffersLapseInTime`, and `RequestsEnd`, for which a fair `Serve` has
to be enabled and the turns counted down. Both steps need ENABLED and an induction
that the provers cannot do. All other properties of the passing runs are theorems.

## 5. Where the repository says otherwise

Each has a run that finds the counterexample:

* `doc_sized_store`: an injected store with a `__len__` is discarded while empty.
* `doc_lease`: with a durable store a restart forgets the counts, and a lease of two
  runs its handler a third time.
* `doc_audit`: the lazy expiry is a transition without an audit event.
* `doc_same_shape`: `check_parallel` misses a type mismatch on what only its
  second argument requires.

Met while reading, and left without a run:

* `expire()`, there to force a negotiation through its timeout, raises on a lapsed offer
  and leaves it stored as PROPOSED; whoever reads it sees EXPIRED all the same.
* A lease is agreed without a lease block, which the schema says the state
  machine prevents; the
  table in `fsm.py` lists a timeout of AGREED, which `_timeout` refuses and a test
  pins; the state diagram enters EXECUTING at the first invoke, which the invoker
  never does.
* Only the provider signs; the side that made an offer may accept it;
  `task.invoke` by skill id is not restricted to skills offered for delegation;
  equal-named outputs of a parallel composite that differ in schema alone are
  dropped.
* No RPC reads a negotiation and `NegotiationStatus` has no terms: an agreement
  whose reply was lost cannot be had again, and an accept binds terms that its
  sender may not have seen.
* An element of a batch with an `id` of another JSON type makes the error response
  itself invalid (`transport/jsonrpc.py:134-136`): the batch is answered with HTTP
  500 after handlers have run. So is one with a result, or an error's data, that is no
  JSON.
* A time to live that is too large is answered as an internal error, not as bad
  parameters.
* A caller cannot tell an `AgreementViolatedError` about its own agreement from one that
  the skill handler was given by somebody it called in turn.
* A JWS that does not parse raises `ValueError` out of `verify_agreement`
  (`client.py:279-282`), not `AuthorizationFailedError`.
* `identity/keys.py:37-38` speaks of an agent with multiple keys; the document
  lists one. The resolver never refreshes its cache, so agreements signed after a
  rotation are refused for as long as the client process lives.
* The agent card is a snapshot of the registry at the time of `app()`.

## 6. Not modelled, and what is left

Not modelled for good: Ed25519, base64 and canonical JSON (a signature is good
under the key it was made with); the field constraints of pydantic, which decide
what a manifest or a request is; key files; HTTP routing; wording of errors and
reports; opening and closing of httpx clients; the empty `adapters` package; the
`examples` directory; the cancellation of a request by its disconnecting caller, and
whatever else is raised outside `Exception`.

Left:

1. Several clients in `session`: the theorems hold for any number, a run of a few
   minutes is too short for two.
2. A dispatcher in front of `PolypactServer`, with the negotiate handlers as the
   elements of a batch; nothing the two share suggests a property that neither has.
