--------------------------- MODULE PolypactServer ---------------------------
(***************************************************************************)
(* One PolypactServer: the negotiations of module Negotiation, and the     *)
(* transfer primitives that honour their agreements: task.invoke through   *)
(* the Invoker, DelegatePrimitive and LeasePrimitive, transfer.teach and   *)
(* transfer.compose.                                                       *)
(*                                                                         *)
(* A request runs without suspending up to "await handler(payload)": the   *)
(* checks, the lease's budget and the start of the skill handler are one   *)
(* action, the handler's end another, and anything may happen in between.  *)
(* uuid4() names an agreement once; here it has its negotiation's name.    *)
(***************************************************************************)
EXTENDS Negotiation

CONSTANTS
    Calls,          \* handler invocations that can be in flight at a time
    ComposeCheck,   \* ComposeCheck[t]: what type-checking t's compose block finds
    Teachable,      \* skills the embedding program has an artifact for
    HandlerErrors,  \* what skill handlers may raise, by the code it is answered with
    DurableStore,   \* an injected NegotiationStore outlives the process ...
    SizedStore,     \* ... and has a __len__, as InMemoryNegotiationStore has
    MaxRuns         \* bound: handler runs under one agreement

Verdicts == {"no terms", "unknown skill", "incompatible", "compatible"}

Outcomes ==
    Errors \cup {"ok", "started", "AgreementViolatedError", "CapabilityMismatchError"}

CallRecords == [neg : Negotiations \cup {None}, skill : Skills, by : Agents]

Replies ==
    [op : {"invoke", "complete", "teach", "compose"}, by : Agents,
     neg : Negotiations \cup {None}, outcome : Outcomes]

LeaseStates == [max : Nat, used : Nat]

ASSUME ServerAssumption ==
    /\ ComposeCheck \in [Terms -> Verdicts]
    /\ Teachable \subseteq Skills
    /\ HandlerErrors \subseteq Outcomes \ {"ok", "started"}
    /\ DurableStore \in BOOLEAN /\ SizedStore \in BOOLEAN /\ MaxRuns \in Nat
    /\ None \notin LeaseStates /\ None \notin Outcomes /\ None \notin Nat
    /\ None \notin CallRecords /\ None \notin Replies

VARIABLES
    handlers,    \* DelegatePrimitive._handlers: skills with a handler
    artifacts,   \* TeachPrimitive._artifacts: skills with an artifact
    lease,       \* LeasePrimitive._states, by agreement; None before first use
    calls,       \* the suspended task.invoke requests
    ran,         \* how often a handler was started under each agreement, ever
    lost,        \* negotiations that went with a process; uuid4() skips them
    rpc          \* what the last transfer request answered

transferVars == <<handlers, artifacts, lease, calls, ran, lost, rpc>>

serverVars == <<vars, transferVars>>

(***************************************************************************)
(* AgreementIndex                                                          *)
(***************************************************************************)
\* find(): only these agreements are honoured.
Honoured(n) ==
    /\ store[n] # None /\ store[n].agreement # None
    /\ store[n].state \in {"AGREED", "EXECUTING"}

\* Mutant: the window opens after the instant the agreement was struck.
InWindowLater(g) == g.validFrom < now /\ now =< g.validUntil

\* assert_within_validity_window: both ends belong to the window.
InWindow(g) == g.validFrom =< now /\ now =< g.validUntil

\* Mutant: the validity window is left to the primitives.
AgreementErrorAnyTime(n, a) ==
    IF ~ Honoured(n) THEN "AgreementViolatedError"
    ELSE IF ~ IsParty(a, store[n]) THEN "AuthorizationFailedError"
    ELSE None

\* find, assert_caller_is_party, assert_within_validity_window, in this order.
AgreementError(n, a) ==
    IF ~ Honoured(n) THEN "AgreementViolatedError"
    ELSE IF ~ IsParty(a, store[n]) THEN "AuthorizationFailedError"
    ELSE IF ~ InWindow(store[n].agreement) THEN "AgreementViolatedError"
    ELSE None

Reply(op, a, n, outcome) ==
    rpc' = [op |-> op, by |-> a, neg |-> n, outcome |-> outcome]

(***************************************************************************)
(* DelegatePrimitive and LeasePrimitive                                    *)
(***************************************************************************)
Published(s) == Supports[s] # {}

\* delegate.invoke: start the handler and wait, or raise UnknownSkillError.
Start(c, a, n, s) ==
    \/ /\ Published(s) /\ s \in handlers
       /\ calls' = [calls EXCEPT ![c] = [neg |-> n, skill |-> s, by |-> a]]
       /\ ran' = IF n = None THEN ran ELSE [ran EXCEPT ![n] = @ + 1]
       /\ Reply("invoke", a, n, "started")
    \/ /\ ~ (Published(s) /\ s \in handlers)
       /\ Reply("invoke", a, n, "UnknownSkillError")
       /\ UNCHANGED <<calls, ran>>

\* setdefault: the state of the first use stays.
LeaseState(n) ==
    IF lease[n] # None THEN lease[n]
    ELSE [max |-> Lease[store[n].agreement.terms].maxInvocations, used |-> 0]

\* Mutant: one invocation too many.
ExhaustedLate(n) == LeaseState(n).used > LeaseState(n).max

Exhausted(n) == LeaseState(n).used >= LeaseState(n).max

\* lease.invoke: one unit of the budget is spent before the handler is looked up.
LeaseInvoke(c, a, n) ==
    LET hasTerms == Lease[store[n].agreement.terms] # None IN
    \/ /\ hasTerms /\ ~ Exhausted(n)
       /\ lease' = [lease EXCEPT ![n] = [LeaseState(n) EXCEPT !.used = @ + 1]]
       /\ Start(c, a, n, store[n].skill)
    \/ /\ hasTerms => Exhausted(n)
       /\ lease' = IF hasTerms THEN [lease EXCEPT ![n] = LeaseState(n)] ELSE lease
       /\ Reply("invoke", a, n, "AgreementViolatedError")
       /\ UNCHANGED <<calls, ran>>

(***************************************************************************)
(* The transfer RPCs                                                       *)
(***************************************************************************)
Idle(c) == calls[c] = None

\* task.invoke with an agreement_id, through the Invoker.
InvokeAgreement(c, a, n) ==
    /\ Idle(c) /\ ran[n] < MaxRuns   \* bounds
    /\ \/ /\ AgreementError(n, a) # None
          /\ Reply("invoke", a, n, AgreementError(n, a))
          /\ UNCHANGED <<lease, calls, ran>>
       \/ /\ AgreementError(n, a) = None /\ store[n].mode = "delegate"
          /\ Start(c, a, n, store[n].skill)
          /\ UNCHANGED lease
       \/ /\ AgreementError(n, a) = None /\ store[n].mode = "lease"
          /\ LeaseInvoke(c, a, n)
       \/ /\ AgreementError(n, a) = None /\ store[n].mode \in {"teach", "compose"}
          /\ Reply("invoke", a, n, "AgreementViolatedError")
          /\ UNCHANGED <<lease, calls, ran>>
    /\ UNCHANGED <<vars, handlers, artifacts, lost>>

\* task.invoke with a skill_id: no agreement is asked for.
InvokeSkill(c, a, s) ==
    /\ Idle(c)
    /\ Start(c, a, None, s)
    /\ UNCHANGED <<vars, handlers, artifacts, lease, lost>>

\* Mutant: a failed handler gives its unit back.
CompleteRefunding(c) ==
    /\ ~ Idle(c)
    /\ calls' = [calls EXCEPT ![c] = None]
    /\ \E outcome \in {"ok"} \cup HandlerErrors :
          /\ Reply("complete", calls[c].by, calls[c].neg, outcome)
          /\ lease' = [n \in Negotiations |->
                IF n = calls[c].neg /\ lease[n] # None /\ outcome # "ok"
                  THEN [lease[n] EXCEPT !.used = @ - 1] ELSE lease[n]]
    /\ UNCHANGED <<vars, handlers, artifacts, ran, lost>>

\* Mutant: the end of a run makes its negotiation DONE, as the state diagram has it.
CompleteSettling(c) ==
    /\ ~ Idle(c)
    /\ calls' = [calls EXCEPT ![c] = None]
    /\ Reply("complete", calls[c].by, calls[c].neg, "ok")
    /\ IF calls[c].neg = None THEN UNCHANGED store
       ELSE store' = [store EXCEPT ![calls[c].neg] =
                        [@ EXCEPT !.state = "DONE", !.agreement = None]]
    /\ UNCHANGED <<now, audit, answer, handlers, artifacts, lease, ran, lost>>

\* The handler returns or raises.  A PolypactError of its own, say of a provider it
\* called in turn, is answered with its own code, like one the server raised; any
\* other exception with an internal error.
Complete(c) ==
    /\ ~ Idle(c)
    /\ calls' = [calls EXCEPT ![c] = None]
    /\ \E outcome \in {"ok"} \cup HandlerErrors :
          Reply("complete", calls[c].by, calls[c].neg, outcome)
    /\ UNCHANGED <<vars, handlers, artifacts, lease, ran, lost>>

\* Mutant: the handler forgets to return the artifact.
TransferTeachSilent(a, n) ==
    /\ Reply("teach", a, n, AgreementError(n, a))
    /\ UNCHANGED <<vars, handlers, artifacts, lease, calls, ran, lost>>

TransferTeach(a, n) ==
    /\ Reply("teach", a, n,
             IF AgreementError(n, a) # None THEN AgreementError(n, a)
             ELSE IF store[n].mode # "teach" THEN "AgreementViolatedError"
             ELSE IF store[n].skill \notin artifacts THEN "UnknownSkillError"
             ELSE "ok")
    /\ UNCHANGED <<vars, handlers, artifacts, lease, calls, ran, lost>>

\* synthesize_composite: the verdict of the type check on the agreed steps.
CompositeError(g) ==
    CASE ComposeCheck[g.terms] = "no terms" -> "AgreementViolatedError"
      [] ComposeCheck[g.terms] = "unknown skill" -> "UnknownSkillError"
      [] ComposeCheck[g.terms] = "incompatible" -> "CapabilityMismatchError"
      [] ComposeCheck[g.terms] = "compatible" -> "ok"

TransferCompose(a, n) ==
    /\ Reply("compose", a, n,
             IF AgreementError(n, a) # None THEN AgreementError(n, a)
             ELSE IF store[n].mode # "compose" THEN "AgreementViolatedError"
             ELSE CompositeError(store[n].agreement))
    /\ UNCHANGED <<vars, handlers, artifacts, lease, calls, ran, lost>>

(***************************************************************************)
(* The embedding program and the host                                      *)
(***************************************************************************)
\* server.register_skill and register_teach_artifact; a second one raises.
RegisterSkill(s) ==
    /\ Published(s) /\ s \notin handlers
    /\ handlers' = handlers \cup {s}
    /\ rpc' = None
    /\ UNCHANGED <<vars, artifacts, lease, calls, ran, lost>>

RegisterTeachArtifact(s) ==
    /\ s \in Teachable /\ Published(s) /\ s \notin artifacts
    /\ artifacts' = artifacts \cup {s}
    /\ rpc' = None
    /\ UNCHANGED <<vars, handlers, lease, calls, ran, lost>>

\* __init__ takes "negotiation_store or InMemoryNegotiationStore()": a sized store
\* is false while it is empty, so the server never writes to it.
StoreSurvives == DurableStore /\ ~ SizedStore

Forgotten ==
    IF StoreSurvives THEN {} ELSE {n \in Negotiations : store[n] # None}

\* The process ends and is started again: what is in memory is gone.
Restart ==
    /\ store' = [n \in Negotiations |-> IF n \in Forgotten THEN None ELSE store[n]]
    /\ lost' = lost \cup Forgotten
    /\ handlers' = {} /\ artifacts' = {}
    /\ lease' = [n \in Negotiations |-> None]
    /\ calls' = [c \in Calls |-> None]
    /\ answer' = None /\ rpc' = None
    /\ UNCHANGED <<now, audit, ran>>

Negotiate ==
    /\ Next
    /\ \A n \in lost : store'[n] = None
    /\ rpc' = None
    /\ UNCHANGED <<handlers, artifacts, lease, calls, ran, lost>>

ServerInit ==
    /\ Init
    /\ handlers = {} /\ artifacts = {}
    /\ lease = [n \in Negotiations |-> None]
    /\ calls = [c \in Calls |-> None]
    /\ ran = [n \in Negotiations |-> 0]
    /\ lost = {} /\ rpc = None

Transfer ==
    \/ \E a \in Agents :
          \/ \E c \in Calls, n \in Negotiations : InvokeAgreement(c, a, n)
          \/ \E c \in Calls, s \in Skills : InvokeSkill(c, a, s)
          \/ \E n \in Negotiations : TransferTeach(a, n) \/ TransferCompose(a, n)
    \/ \E c \in Calls : Complete(c)

Register == \E s \in Skills : RegisterSkill(s) \/ RegisterTeachArtifact(s)

ServerNext == Negotiate \/ Transfer \/ Register \/ Restart

ServerSpec == ServerInit /\ [][ServerNext]_serverVars

-----------------------------------------------------------------------------
(***************************************************************************)
(* Properties                                                              *)
(***************************************************************************)
\* The state of the server is one its dicts and coroutines can represent.
ServerTypeOK ==
    /\ TypeOK
    /\ handlers \subseteq Skills /\ artifacts \subseteq Skills
    /\ lease \in [Negotiations -> LeaseStates \cup {None}]
    /\ calls \in [Calls -> CallRecords \cup {None}]
    /\ ran \in [Negotiations -> Nat]
    /\ lost \subseteq Negotiations
    /\ rpc \in Replies \cup {None}

IsLease(n) == Exists(n) /\ store[n].agreement # None /\ store[n].mode = "lease"

Budget(n) ==
    LET terms == store[n].agreement.terms
    IN  IF Lease[terms] = None THEN 0 ELSE Lease[terms].maxInvocations

\* However many invocations race, fail or wait for their handler, the handler is
\* started at most max_invocations times under a lease.  LeasePrimitive.invoke
\* spends the unit before it waits.
LeaseCap == \A n \in Negotiations : IsLease(n) => ran[n] =< Budget(n)

\* For as long as a handler runs for an agreement, that agreement exists, is
\* settled, is of a mode that may be invoked, and names the skill and the caller:
\* no request, janitor or restart pulls it from under the waiting coroutine.
RunningIsCovered ==
    \A c \in Calls :
        calls[c] # None /\ calls[c].neg # None =>
            LET r == store[calls[c].neg] IN
            /\ r # None /\ r.state = "AGREED" /\ r.mode \in {"delegate", "lease"}
            /\ r.skill = calls[c].skill /\ IsParty(calls[c].by, r)

\* What is started or released under an agreement is released to one of its
\* parties, in its mode, inside its window; the offer it came from had not lapsed.
AccessIsCovered ==
    rpc # None /\ rpc.neg # None /\ rpc.op # "complete"
      /\ rpc.outcome \in {"ok", "started"} =>
        LET r == store[rpc.neg] IN
        /\ r # None /\ r.agreement # None /\ SoundRecord(r)
        /\ IsParty(rpc.by, r) /\ InWindow(r.agreement)
        /\ CASE rpc.op = "invoke" -> r.mode \in {"delegate", "lease"}
             [] OTHER -> rpc.op = r.mode

(***************************************************************************)
(* The promise: NegotiationLifecycle again, now with restarts, which end   *)
(* every negotiation unless the store survives them.                       *)
(***************************************************************************)
ServerLifecycle ==
    INSTANCE NegotiationLifecycle WITH
        Durable <- StoreSurvives,
        phase <- [n \in Negotiations |->
                     IF n \in lost THEN "lost" ELSE PhaseOf(store[n], now)],
        offer <- [n \in Negotiations |-> OfferOf(store[n])],
        bound <- [n \in Negotiations |-> BoundOf(store[n])]

\* Nothing that is invoked, released, registered or restarted around the
\* coordinator takes a negotiation off its course: a closed one is not reopened,
\* an agreement not replaced, a lost one not revived.
ServerImplementsLifecycle == ServerLifecycle!Spec

(***************************************************************************)
(* The lease primitive's promise: LeaseLedger.                             *)
(***************************************************************************)
\* An agreement without a lease block lets nobody invoke.
Limits == {0} \cup {Lease[t].maxInvocations : t \in {u \in Terms : Lease[u] # None}}

Granted(n) == IF IsLease(n) THEN Budget(n) ELSE None

UnitsSpent(n) == IF lease[n] = None THEN 0 ELSE lease[n].used

Runs(n) == IF IsLease(n) THEN ran[n] ELSE 0

Ledger ==
    INSTANCE LeaseLedger WITH
        Leases <- Negotiations,
        limit <- [n \in Negotiations |-> Granted(n)],
        spent <- [n \in Negotiations |-> UnitsSpent(n)],
        runs <- [n \in Negotiations |-> Runs(n)],
        ended <- lost

\* Whatever invocations race, fail, find no handler or wait for one, a lease is an
\* account with the agreed limit: a unit is spent before its run starts, none
\* beyond the limit, none comes back before the account ends with the process, and
\* a request that is refused costs none.  "even if the handler raises, the caller
\* used a budget unit" (LeasePrimitive).  True of a store in memory only:
\* BudgetOutlivesRestarts below is what fails where agreements outlive their counts.
ImplementsLedger == Ledger!Spec

(***************************************************************************)
(* What the repository says and the code does not do                       *)
(***************************************************************************)
\* The store is injected "so persistence backends can swap in without disturbing
\* the FSM or coordinator" (negotiation/store.py:3-4): what was put into a durable
\* store is there after a restart.
InjectedStoreIsUsed ==
    [][DurableStore => \A n \in Negotiations : Exists(n) => store'[n] # None]_serverVars

\* "the right to invoke the skill up to max_invocations times" (transfer/lease.py:3-4),
\* with "invocations_used" monotonic (lease.py:84): LeaseCap again, of a server whose
\* agreements are in a store that outlives the process and the counts.
BudgetOutlivesRestarts == StoreSurvives => LeaseCap
=============================================================================
