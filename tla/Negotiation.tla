----------------------------- MODULE Negotiation -----------------------------
(***************************************************************************)
(* The provider's side of polypact.negotiate.*: NegotiationCoordinator,    *)
(* the state machine of negotiation/fsm.py and the NegotiationStore.       *)
(*                                                                         *)
(* Each handler is synchronous Python on one event loop: it runs from the  *)
(* request to the answer without suspending, so it is one action here.     *)
(* Time is the integer "now" (datetime.now(UTC)); a deadline is a number.  *)
(* "audit" is what the negotiation.transition log lines say and "answer"   *)
(* is what the last handler returned or raised; neither is read by a guard.*)
(***************************************************************************)
EXTENDS Integers, Sequences

CONSTANTS
    Agents,          \* every DID that may send a request
    Provider,        \* the agent this server is
    Negotiations,    \* the identifiers uuid4() can still draw
    Skills,          \* skill identifiers, published or not
    Supports,        \* Supports[s]: the modes s's manifest offers; {} if unpublished
    Terms,           \* ProposedTerms blocks
    Lease,           \* Lease[t]: the lease block of t, or None
    Ttls,            \* values sent as negotiation_ttl_seconds (any integer)
    Dates,           \* the instants a datetime can hold; others overflow
    HasSigningKey,   \* the server was given a keypair
    ClockStepsBack,  \* the wall clock may be set back between two requests
    MaxTime,         \* bound: the clock, and the deadlines asked for
    MaxRounds,       \* bound: proposals in one negotiation
    None

TransferModes == {"delegate", "lease", "teach", "compose"}

States ==
    {"PROPOSED", "AGREED", "REJECTED", "EXECUTING", "DONE", "ABORTED", "EXPIRED"}

TerminalStates == {"REJECTED", "DONE", "ABORTED", "EXPIRED"}

LeaseTerms == [maxInvocations : Nat \ {0}, ttl : Nat \ {0}]

Proposals == [terms : Terms, by : Agents]

Transitions == [from : States \cup {None}, to : States]

Agreements ==
    [terms : Terms, validFrom : Dates, validUntil : Dates, signers : SUBSET Agents]

Records ==
    [skill : Skills, mode : TransferModes, initiator : Agents, state : States,
     proposals : Seq(Proposals) \ {<<>>}, expiresAt : Dates,
     agreement : Agreements \cup {None}]

Errors ==
    {"UnknownSkillError", "UnknownNegotiationError", "AuthorizationFailedError",
     "NegotiationStateError", "InternalError"}

\* op, who asked, about which negotiation, the outcome, and the state the
\* answer (or the error's message) names.
Answers ==
    [op : {"propose", "counter_propose", "accept", "reject", "get", "expire"},
     by : Agents \cup {None}, neg : Negotiations \cup {None},
     outcome : Errors \cup {"ok"}, state : States \cup {None}]

ASSUME ConstantsAssumption ==
    /\ Provider \in Agents
    /\ Supports \in [Skills -> SUBSET TransferModes]
    /\ Lease \in [Terms -> LeaseTerms \cup {None}]
    /\ Ttls \subseteq Int
    /\ HasSigningKey \in BOOLEAN /\ ClockStepsBack \in BOOLEAN
    /\ MaxTime \in Nat /\ MaxRounds \in Nat
    /\ Dates \subseteq Int /\ 0 .. MaxTime \subseteq Dates

ASSUME NoneAssumption ==
    /\ None \notin LeaseTerms /\ None \notin Agreements /\ None \notin Records
    /\ None \notin Answers /\ None \notin Agents /\ None \notin Negotiations
    /\ None \notin States

VARIABLES
    now,      \* the wall clock
    store,    \* InMemoryNegotiationStore._records; None where no record was put
    audit,    \* for each negotiation, the (from_state, to_state) pairs logged
    answer    \* the last handler's return value or exception

vars == <<now, store, audit, answer>>

(***************************************************************************)
(* The state machine (negotiation/fsm.py)                                  *)
(***************************************************************************)
\* Mutant: expiry is left to the janitor.
NeverExpire(r, t) == r

MaybeExpire(r, t) ==
    IF r.state = "PROPOSED" /\ t >= r.expiresAt
      THEN [r EXCEPT !.state = "EXPIRED"]
      ELSE r

LatestTerms(r) == r.proposals[Len(r.proposals)].terms

\* Mutant: the opening offer is not recorded.
InitialWithoutOffer(a, s, m, t, ttl) ==
    [skill |-> s, mode |-> m, initiator |-> a, state |-> "PROPOSED",
     proposals |-> <<>>, expiresAt |-> now + ttl, agreement |-> None]

Initial(a, s, m, t, ttl) ==
    [skill |-> s, mode |-> m, initiator |-> a, state |-> "PROPOSED",
     proposals |-> <<[terms |-> t, by |-> a]>>,
     expiresAt |-> now + ttl, agreement |-> None]

\* Mutant: an agreement can time out, as the module's transition table has it.
AcceptedInTable(event) ==
    IF event = "expire" THEN {"PROPOSED", "AGREED"} ELSE {"PROPOSED"}

\* The states an event is accepted in, by the guards of the _<event> helpers.
AcceptedIn(event) ==
    IF event = "expire" THEN {"PROPOSED", "EXECUTING"} ELSE {"PROPOSED"}

\* Mutant: step() relies on its caller for the lazy expiry.
PermitsUnrefreshed(r, event, t) ==
    r.state \notin TerminalStates /\ r.state \in AcceptedIn(event)

\* step() gets past the lazy expiry, the terminal check and the helper's guard.
Permits(r, event, t) ==
    LET seen == MaybeExpire(r, t).state
    IN  seen \notin TerminalStates /\ seen \in AcceptedIn(event)

Countered(r, a, t, ttl) ==
    [r EXCEPT !.proposals = Append(@, [terms |-> t, by |-> a]),
              !.expiresAt = now + ttl]

\* NegotiationCoordinator._signer: the provider's signature, or none.
Signer == IF HasSigningKey THEN {Provider} ELSE {}

\* The end of a lease counts from its acceptance; other agreements end with the
\* offer.
ValidUntil(r, at) ==
    LET lease == Lease[LatestTerms(r)]
    IN  IF r.mode = "lease" /\ lease # None THEN at + lease.ttl ELSE r.expiresAt

\* Mutant: the agreement is built from the opening offer.
BuildAgreementFromFirst(r, at) ==
    [terms |-> r.proposals[1].terms, validFrom |-> at,
     validUntil |-> ValidUntil(r, at), signers |-> Signer]

BuildAgreement(r, at) ==
    [terms |-> LatestTerms(r), validFrom |-> at,
     validUntil |-> ValidUntil(r, at), signers |-> Signer]

Accepted(r, at) ==
    [r EXCEPT !.state = "AGREED", !.agreement = BuildAgreement(r, at)]

(***************************************************************************)
(* What a handler leaves behind (negotiation/coordinator.py)               *)
(***************************************************************************)
Answer(op, a, n, outcome, state) ==
    [op |-> op, by |-> a, neg |-> n, outcome |-> outcome, state |-> state]

Put(n, r) == store' = [store EXCEPT ![n] = r]

Log(n, from, to) ==
    audit' = [audit EXCEPT ![n] = Append(@, [from |-> from, to |-> to])]

IsParty(a, r) == a \in {r.initiator, Provider}

\* Mutant: the lazily expired record is returned and not stored.
RefreshWithoutPut(n) == UNCHANGED store

\* _refresh: the lazily expired record is stored, and nothing is logged.
Refresh(n) == Put(n, MaybeExpire(store[n], now))

\* _fetch and _authorized_record raise: no record, or a caller who is no party.
Refused(n, a, op) ==
    /\ \/ /\ store[n] = None
          /\ answer' = Answer(op, a, n, "UnknownSkillError", None)
       \/ /\ store[n] # None /\ ~ IsParty(a, store[n])
          /\ answer' = Answer(op, a, n, "AuthorizationFailedError", None)
    /\ UNCHANGED <<now, store, audit>>

\* Mutant: the record is refreshed before the caller is checked.
TooLateUnchecked(n, a, op) ==
    /\ store[n] # None
    /\ ~ Permits(store[n], op, now)
    /\ Refresh(n)
    /\ answer' = Answer(op, a, n, "NegotiationStateError",
                        MaybeExpire(store[n], now).state)
    /\ UNCHANGED <<now, audit>>

\* step() raises on a record that _authorized_record has already refreshed.
TooLate(n, a, op) ==
    /\ store[n] # None /\ IsParty(a, store[n])
    /\ ~ Permits(store[n], op, now)
    /\ Refresh(n)
    /\ answer' = Answer(op, a, n, "NegotiationStateError",
                        MaybeExpire(store[n], now).state)
    /\ UNCHANGED <<now, audit>>

\* Mutant: the previous state is read from the new record.
ApplyLogsNew(n, a, op, new) ==
    /\ Put(n, new)
    /\ Log(n, new.state, new.state)
    /\ answer' = Answer(op, a, n, "ok", new.state)
    /\ UNCHANGED now

\* _apply_and_store: put the new record, log the transition, return it.
Apply(n, a, op, new) ==
    /\ Put(n, new)
    /\ Log(n, store[n].state, new.state)
    /\ answer' = Answer(op, a, n, "ok", new.state)
    /\ UNCHANGED now

Admits(n, a, op) ==
    /\ store[n] # None /\ IsParty(a, store[n])
    /\ Permits(store[n], op, now)

(***************************************************************************)
(* The handlers                                                            *)
(***************************************************************************)
Propose(n, a, s, m, t, ttl) ==
    /\ store[n] = None              \* uuid4() does not repeat
    /\ now + ttl <= MaxTime         \* bound
    /\ m \in Supports[s] /\ now + ttl \in Dates
    /\ Put(n, Initial(a, s, m, t, ttl))
    /\ Log(n, None, "PROPOSED")
    /\ answer' = Answer("propose", a, n, "ok", "PROPOSED")
    /\ UNCHANGED now

ProposeRefused(a, s, m) ==
    /\ m \notin Supports[s]
    /\ answer' = Answer("propose", a, None, "UnknownSkillError", None)
    /\ UNCHANGED <<now, store, audit>>

\* fsm.initial: the sum of the time and the time to live raises OverflowError.
ProposeOverflows(a, s, m, ttl) ==
    /\ m \in Supports[s] /\ now + ttl \notin Dates
    /\ answer' = Answer("propose", a, None, "InternalError", None)
    /\ UNCHANGED <<now, store, audit>>

ProposeFails(a, s, m) ==
    ProposeRefused(a, s, m) \/ \E ttl \in Ttls : ProposeOverflows(a, s, m, ttl)

CounterPropose(n, a, t, ttl) ==
    /\ Admits(n, a, "counter_propose") /\ now + ttl \in Dates
    /\ Len(store[n].proposals) < MaxRounds /\ now + ttl <= MaxTime  \* bounds
    /\ Apply(n, a, "counter_propose", Countered(store[n], a, t, ttl))

Accept(n, a) ==
    /\ Admits(n, a, "accept") /\ ValidUntil(store[n], now) \in Dates
    /\ Apply(n, a, "accept", Accepted(store[n], now))

Reject(n, a) ==
    /\ Admits(n, a, "reject")
    /\ Apply(n, a, "reject", [store[n] EXCEPT !.state = "REJECTED"])

\* fsm._counter_propose or _build_agreement adds beyond what a datetime holds.
DeadlineOverflows(n, a, op) ==
    /\ Admits(n, a, op)
    /\ \/ op = "counter_propose" /\ \E ttl \in Ttls : now + ttl \notin Dates
       \/ op = "accept" /\ ValidUntil(store[n], now) \notin Dates
    /\ answer' = Answer(op, a, n, "InternalError", None)
    /\ UNCHANGED <<now, store, audit>>

\* A negotiate.* request on an existing negotiation that raises.
RequestFails(n, a, op) ==
    Refused(n, a, op) \/ TooLate(n, a, op) \/ DeadlineOverflows(n, a, op)

Get(n) ==
    IF store[n] = None
      THEN /\ answer' = Answer("get", None, n, "UnknownNegotiationError", None)
           /\ UNCHANGED <<now, store, audit>>
      ELSE /\ Refresh(n)
           /\ answer' = Answer("get", None, n, "ok", MaybeExpire(store[n], now).state)
           /\ UNCHANGED <<now, audit>>

\* expire() skips both the party check and the refresh: when step() raises,
\* the record stays as it was.
Expire(n) ==
    \/ /\ store[n] # None /\ Permits(store[n], "expire", now)
       /\ Apply(n, Provider, "expire", [store[n] EXCEPT !.state = "EXPIRED"])
    \/ /\ store[n] # None /\ ~ Permits(store[n], "expire", now)
       /\ answer' = Answer("expire", Provider, n, "NegotiationStateError",
                           MaybeExpire(store[n], now).state)
       /\ UNCHANGED <<now, store, audit>>
    \/ /\ store[n] = None
       /\ answer' = Answer("expire", Provider, n, "UnknownSkillError", None)
       /\ UNCHANGED <<now, store, audit>>

\* Time passes between two requests.
Tick ==
    /\ now < MaxTime
    /\ now' = now + 1
    /\ answer' = None
    /\ UNCHANGED <<store, audit>>

\* The operator or NTP sets the clock back.
StepBack ==
    /\ ClockStepsBack
    /\ now' \in {t \in 0 .. MaxTime : t < now}
    /\ answer' = None
    /\ UNCHANGED <<store, audit>>

Init ==
    /\ now = 0
    /\ store = [n \in Negotiations |-> None]
    /\ audit = [n \in Negotiations |-> <<>>]
    /\ answer = None

Request ==
    \/ \E a \in Agents, s \in Skills, m \in TransferModes :
          \/ ProposeFails(a, s, m)
          \/ \E n \in Negotiations, t \in Terms, ttl \in Ttls :
                Propose(n, a, s, m, t, ttl)
    \/ \E n \in Negotiations, a \in Agents :
          \/ \E t \in Terms, ttl \in Ttls : CounterPropose(n, a, t, ttl)
          \/ Accept(n, a)
          \/ Reject(n, a)
          \/ \E op \in {"counter_propose", "accept", "reject"} : RequestFails(n, a, op)

Local == \E n \in Negotiations : Get(n) \/ Expire(n)

Next == Request \/ Local \/ Tick \/ StepBack

Spec == Init /\ [][Next]_vars

\* The clock of a running host does not stop; no handler is owed a call.
FairSpec == Spec /\ WF_vars(Tick)

-----------------------------------------------------------------------------
(***************************************************************************)
(* Properties                                                              *)
(***************************************************************************)
\* The state of every variable is one the code can represent.
TypeOK ==
    /\ now \in 0 .. MaxTime
    /\ store \in [Negotiations -> Records \cup {None}]
    /\ audit \in [Negotiations -> Seq(Transitions)]
    /\ answer \in Answers \cup {None}

\* An agreed or terminal negotiation has had its last transition.
Settled == TerminalStates \cup {"AGREED"}

Exists(n) == store[n] # None

\* An agreement exists exactly in AGREED, carries the terms of the last proposal,
\* was struck before that proposal's deadline, and can be used for some time.
SoundRecord(r) ==
    /\ r.agreement # None <=> r.state = "AGREED"
    /\ r.agreement # None =>
          /\ r.agreement.terms = LatestTerms(r)
          /\ r.agreement.validFrom < r.expiresAt
          /\ r.agreement.validFrom < r.agreement.validUntil

\* Every agreement is about the offer that was on the table: the terms proposed
\* last, and not yet lapsed, wherever the clock goes and whoever asks in which
\* order.  fsm._accept, _build_agreement and the lazy expiry before them.
AgreementSound == \A n \in Negotiations : Exists(n) => SoundRecord(store[n])

\* No request, read, janitor call or clock change alters a settled record: the
\* agreement a party holds is the one the server enforces, and a refusal or a
\* stored expiry is never taken back.  fsm.step's terminal check and guards.
SettledIsFinal ==
    [][\A n \in Negotiations :
          Exists(n) /\ store[n].state \in Settled => store'[n] = store[n]]_vars

\* Only its two parties move a negotiation by request; a stranger's request does
\* not even store the lazy expiry.  coordinator._authorized_record checks the
\* caller before it refreshes.
OnlyPartiesMoveIt ==
    [][\A n \in Negotiations :
          Exists(n) /\ store'[n] # store[n] =>
             \/ answer'.by \in {store[n].initiator, Provider}
             \/ answer'.op = "get" /\ store'[n].state = "EXPIRED"]_vars

\* Whatever final state a party has been told is the stored one, so that setting
\* the clock back cannot revive an offer somebody has seen expire: _refresh
\* puts the expired record before the error is raised or the record returned.
ToldIsStored ==
    answer # None /\ answer.op # "expire" /\ answer.state \in Settled =>
        store[answer.neg].state = answer.state

\* A log that starts with the creation, has each transition start where the last
\* one ended, and ends in r's state or in the offer that r, expired by a read or a
\* refused request, no longer shows.
Chain(log, r) ==
    /\ log # <<>> /\ log[1].from = None
    /\ \A i \in 2 .. Len(log) : log[i].from = log[i - 1].to
    /\ \/ log[Len(log)].to = r.state
       \/ log[Len(log)].to = "PROPOSED" /\ r.state = "EXPIRED"

\* The audit log of a negotiation is one unbroken chain of what the handlers did to
\* it: none logs a transition it did not make, out of order, or from a state read
\* before the refresh.  The lazy expiry is the one transition that is missing at its
\* end (EveryTransitionIsLogged below).  coordinator._apply_and_store.
AuditTrail ==
    \A n \in Negotiations :
        IF Exists(n) THEN Chain(audit[n], store[n]) ELSE audit[n] = <<>>

\* While time passes no offer stays on the table for ever: it is answered,
\* replaced by a counter-proposal, or seen expired by whoever asks next.
Live(n) == Exists(n) /\ MaybeExpire(store[n], now).state = "PROPOSED"

OffersLapse ==
    \A n \in Negotiations : \A k \in 1 .. MaxRounds :
        Live(n) /\ Len(store[n].proposals) = k
            ~> ~ Live(n) \/ Len(store[n].proposals) > k

(***************************************************************************)
(* The promise: NegotiationLifecycle, under a clock that never goes back.  *)
(* A record counts as closed as soon as a read would find it expired.      *)
(***************************************************************************)
PhaseOf(r, t) ==
    IF r = None THEN "none"
    ELSE CASE MaybeExpire(r, t).state = "PROPOSED" -> "open"
           [] r.state = "AGREED" -> "agreed"
           [] OTHER -> "closed"

OfferOf(r) == IF r = None THEN None ELSE LatestTerms(r)

BoundOf(r) ==
    IF r = None THEN None
    ELSE IF r.agreement = None THEN None ELSE r.agreement.terms

Lifecycle ==
    INSTANCE NegotiationLifecycle WITH
        Durable <- TRUE,
        phase <- [n \in Negotiations |-> PhaseOf(store[n], now)],
        offer <- [n \in Negotiations |-> OfferOf(store[n])],
        bound <- [n \in Negotiations |-> BoundOf(store[n])]

\* The coordinator, its store and the lazy expiry implement the lifecycle.
ImplementsLifecycle == Lifecycle!Spec

(***************************************************************************)
(* What the repository says and the code does not do                       *)
(***************************************************************************)
\* "Each transition emits a structured event for audit" (README.md:64): the last
\* event logged of a negotiation is the one that brought it to its stored state.
EveryTransitionIsLogged ==
    \A n \in Negotiations :
        Exists(n) => audit[n][Len(audit[n])].to = store[n].state
=============================================================================
