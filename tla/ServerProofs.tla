---------------------------- MODULE ServerProofs ----------------------------
(***************************************************************************)
(* Theorems about PolypactServer, for every value of the constants.  The   *)
(* negotiation's step lemmas carry over to the server's steps; a restart is*)
(* the case they lack.  LeaseInv makes every step one of the ledger, and   *)
(* solvency and the cap are read off the ledger's steps.                   *)
(***************************************************************************)
EXTENDS PolypactServer, NegotiationProofs

(***************************************************************************)
(* Type correctness                                                        *)
(***************************************************************************)

\* find and the two assertions raise one of two errors, or nothing.
LEMMA AgreementErrorValues ==
    ASSUME NEW n, NEW a
    PROVE  AgreementError(n, a) \in
               {None, "AgreementViolatedError", "AuthorizationFailedError"}
BY DEF AgreementError

\* An agreement that passes find and the assertions is in force for the caller.
LEMMA InForce ==
    ASSUME NEW n, NEW a, AgreementError(n, a) = None
    PROVE  Honoured(n) /\ IsParty(a, store[n]) /\ InWindow(store[n].agreement)
<1>1. /\ None # "AgreementViolatedError" /\ None # "AuthorizationFailedError"
  BY ServerAssumption DEF Outcomes, Errors
<1> QED  BY <1>1 DEF AgreementError

\* A reply of one of the outcomes is a reply.
LEMMA ReplyType ==
    ASSUME NEW op \in {"invoke", "complete", "teach", "compose"}, NEW a \in Agents,
           NEW n \in Negotiations \cup {None}, NEW outcome \in Outcomes,
           Reply(op, a, n, outcome)
    PROVE  rpc' \in Replies
BY DEF Reply, Replies

\* delegate.invoke keeps the calls and the counts what they are.
LEMMA StartType ==
    ASSUME ServerTypeOK, NEW c \in Calls, NEW a \in Agents,
           NEW n \in Negotiations \cup {None}, NEW s \in Skills, Start(c, a, n, s)
    PROVE  /\ calls' \in [Calls -> CallRecords \cup {None}]
           /\ ran' \in [Negotiations -> Nat]
           /\ rpc' \in Replies
<1>1. rpc' \in Replies
  BY ReplyType DEF Start, Outcomes, Errors
<1>2. calls' \in [Calls -> CallRecords \cup {None}]
  BY DEF Start, ServerTypeOK, CallRecords
<1>3. ran' \in [Negotiations -> Nat]
  BY DEF Start, ServerTypeOK
<1> QED  BY <1>1, <1>2, <1>3

\* The state of a lease is one, from its first use on.
LEMMA LeaseStateType ==
    ASSUME ServerTypeOK, NEW n \in Negotiations, Honoured(n),
           Lease[store[n].agreement.terms] # None
    PROVE  /\ LeaseState(n) \in LeaseStates
           /\ lease[n] = None => LeaseState(n) = [max |-> Budget(n), used |-> 0]
           /\ lease[n] # None => LeaseState(n) = lease[n]
<1>1. store[n] \in Records /\ store[n].agreement \in Agreements
  BY DEF ServerTypeOK, TypeOK, Honoured, Records
<1>2. store[n].agreement.terms \in Terms
  BY <1>1 DEF Agreements
<1>3. Lease[store[n].agreement.terms] \in LeaseTerms
  BY <1>2, ConstantsAssumption
<1> QED  BY <1>3 DEF LeaseState, Budget, LeaseTerms, LeaseStates, ServerTypeOK

\* lease.invoke keeps the lease states what they are.
LEMMA LeaseInvokeType ==
    ASSUME ServerTypeOK, NEW c \in Calls, NEW a \in Agents, NEW n \in Negotiations,
           Honoured(n), LeaseInvoke(c, a, n)
    PROVE  /\ lease' \in [Negotiations -> LeaseStates \cup {None}]
           /\ calls' \in [Calls -> CallRecords \cup {None}]
           /\ ran' \in [Negotiations -> Nat]
           /\ rpc' \in Replies
<1> DEFINE hasTerms == Lease[store[n].agreement.terms] # None
<1>0. /\ lease \in [Negotiations -> LeaseStates \cup {None}]
      /\ store[n].skill \in Skills
  BY DEF ServerTypeOK, TypeOK, Honoured, Records
<1>1. CASE /\ hasTerms /\ ~ Exhausted(n)
           /\ lease' = [lease EXCEPT ![n] = [LeaseState(n) EXCEPT !.used = @ + 1]]
           /\ Start(c, a, n, store[n].skill)
  <2>1. [LeaseState(n) EXCEPT !.used = @ + 1] \in LeaseStates
    BY <1>1, LeaseStateType DEF LeaseStates
  <2> QED  BY <1>0, <1>1, <2>1, StartType
<1>2. CASE /\ hasTerms => Exhausted(n)
           /\ lease' = IF hasTerms THEN [lease EXCEPT ![n] = LeaseState(n)] ELSE lease
           /\ Reply("invoke", a, n, "AgreementViolatedError")
           /\ UNCHANGED <<calls, ran>>
  <2>1. rpc' \in Replies
    BY <1>2, ReplyType DEF Outcomes
  <2>2. hasTerms => LeaseState(n) \in LeaseStates
    BY LeaseStateType
  <2> QED  BY <1>0, <1>2, <2>1, <2>2 DEF ServerTypeOK
<1> QED  BY <1>1, <1>2 DEF LeaseInvoke

\* task.invoke and its answers.
LEMMA InvokeAgreementType ==
    ASSUME ServerTypeOK, NEW c \in Calls, NEW a \in Agents, NEW n \in Negotiations,
           InvokeAgreement(c, a, n)
    PROVE  ServerTypeOK'
<1>0. UNCHANGED <<vars, handlers, artifacts, lost>>
  BY DEF InvokeAgreement
<1>1. /\ lease' \in [Negotiations -> LeaseStates \cup {None}]
      /\ calls' \in [Calls -> CallRecords \cup {None}]
      /\ ran' \in [Negotiations -> Nat]
      /\ rpc' \in Replies
  <2>1. ASSUME NEW e \in {"AgreementViolatedError", "AuthorizationFailedError"},
               Reply("invoke", a, n, e)
        PROVE  rpc' \in Replies
    BY <2>1, ReplyType DEF Outcomes, Errors
  <2>2. CASE /\ AgreementError(n, a) # None
             /\ Reply("invoke", a, n, AgreementError(n, a))
             /\ UNCHANGED <<lease, calls, ran>>
    BY <2>1, <2>2, AgreementErrorValues DEF ServerTypeOK
  <2>3. CASE /\ AgreementError(n, a) = None /\ Start(c, a, n, store[n].skill)
             /\ UNCHANGED lease
    <3>1. store[n].skill \in Skills
      BY <2>3, InForce DEF Honoured, ServerTypeOK, TypeOK, Records
    <3> QED  BY <2>3, <3>1, StartType DEF ServerTypeOK
  <2>4. CASE AgreementError(n, a) = None /\ LeaseInvoke(c, a, n)
    BY <2>4, InForce, LeaseInvokeType
  <2>5. CASE /\ Reply("invoke", a, n, "AgreementViolatedError")
             /\ UNCHANGED <<lease, calls, ran>>
    BY <2>1, <2>5 DEF ServerTypeOK
  <2> QED  BY <2>2, <2>3, <2>4, <2>5 DEF InvokeAgreement
<1> QED  BY <1>0, <1>1 DEF ServerTypeOK, TypeOK, vars

\* The other transfer requests and their answers.
LEMMA TransferType ==
    ASSUME ServerTypeOK, Transfer
    PROVE  ServerTypeOK'
<1> USE DEF ServerTypeOK, TypeOK, vars
<1>1. ASSUME NEW c \in Calls, NEW a \in Agents, NEW s \in Skills, InvokeSkill(c, a, s)
      PROVE  ServerTypeOK'
  <2>1. /\ calls' \in [Calls -> CallRecords \cup {None}]
        /\ ran' \in [Negotiations -> Nat] /\ rpc' \in Replies
    BY <1>1, StartType DEF InvokeSkill
  <2> QED  BY <1>1, <2>1 DEF InvokeSkill
<1>2. ASSUME NEW c \in Calls, Complete(c)
      PROVE  ServerTypeOK'
  <2>1. calls[c] \in CallRecords /\ calls[c].by \in Agents
          /\ calls[c].neg \in Negotiations \cup {None}
    BY <1>2 DEF Complete, Idle, CallRecords
  <2>2. rpc' \in Replies
    <3>1. PICK o \in {"ok"} \cup HandlerErrors :
             rpc' = [op |-> "complete", by |-> calls[c].by, neg |-> calls[c].neg,
                     outcome |-> o]
      BY <1>2 DEF Complete, Reply
    <3>2. o \in Outcomes
      BY <3>1, ServerAssumption DEF Outcomes
    <3> QED  BY <2>1, <3>1, <3>2 DEF Replies
  <2> QED  BY <1>2, <2>2 DEF Complete
<1>3. ASSUME NEW a \in Agents, NEW n \in Negotiations, TransferTeach(a, n)
      PROVE  ServerTypeOK'
  <2> DEFINE o == IF AgreementError(n, a) # None THEN AgreementError(n, a)
                  ELSE IF store[n].mode # "teach" THEN "AgreementViolatedError"
                  ELSE IF store[n].skill \notin artifacts THEN "UnknownSkillError"
                  ELSE "ok"
  <2>1. o \in Outcomes
    BY AgreementErrorValues DEF Outcomes, Errors
  <2>2. rpc' \in Replies
    BY <1>3, <2>1, ReplyType DEF TransferTeach
  <2> QED  BY <1>3, <2>2 DEF TransferTeach
<1>4. ASSUME NEW a \in Agents, NEW n \in Negotiations, TransferCompose(a, n)
      PROVE  ServerTypeOK'
  <2> DEFINE o == IF AgreementError(n, a) # None THEN AgreementError(n, a)
                  ELSE IF store[n].mode # "compose" THEN "AgreementViolatedError"
                  ELSE CompositeError(store[n].agreement)
  <2>1. ASSUME AgreementError(n, a) = None
        PROVE  CompositeError(store[n].agreement) \in Outcomes
    <3>1. store[n].agreement.terms \in Terms
      BY <2>1, InForce, NoneAssumption DEF Honoured, Records, Agreements
    <3>2. ComposeCheck[store[n].agreement.terms] \in Verdicts
      BY <3>1, ServerAssumption
    <3> QED  BY <3>2 DEF CompositeError, Verdicts, Outcomes, Errors
  <2>2. o \in Outcomes
    BY <2>1, AgreementErrorValues DEF Outcomes, Errors
  <2>3. rpc' \in Replies
    BY <1>4, <2>2, ReplyType DEF TransferCompose
  <2> QED  BY <1>4, <2>3 DEF TransferCompose
<1> QED
  BY <1>1, <1>2, <1>3, <1>4, InvokeAgreementType DEF Transfer

\* Every variable of the server keeps its type, restarts included.
LEMMA ServerTypeStep == ServerTypeOK /\ [ServerNext]_serverVars => ServerTypeOK'
<1> SUFFICES ASSUME ServerTypeOK, [ServerNext]_serverVars PROVE ServerTypeOK'
  OBVIOUS
<1>1. CASE Negotiate
  <2>1. TypeOK'
    BY <1>1, TypeStep DEF Negotiate, ServerTypeOK
  <2> QED  BY <1>1, <2>1 DEF Negotiate, ServerTypeOK
<1>2. CASE Register
  BY <1>2 DEF Register, RegisterSkill, RegisterTeachArtifact, ServerTypeOK, TypeOK, vars
<1>3. CASE Restart
  <2>1. store' \in [Negotiations -> Records \cup {None}]
    BY <1>3 DEF Restart, ServerTypeOK, TypeOK
  <2>2. lost' \subseteq Negotiations
    BY <1>3 DEF Restart, ServerTypeOK, Forgotten
  <2> QED  BY <1>3, <2>1, <2>2 DEF Restart, ServerTypeOK, TypeOK
<1>4. CASE UNCHANGED serverVars
  BY <1>4 DEF serverVars, transferVars, vars, ServerTypeOK, TypeOK
<1> QED  BY <1>1, <1>2, <1>3, <1>4, TransferType DEF ServerNext

\* In every reachable state of the server the variables hold what its dicts, its
\* suspended coroutines and its answers can represent.
THEOREM ServerTypeCorrect == ServerSpec => []ServerTypeOK
<1>1. ServerInit => ServerTypeOK
  <2>1. Init => TypeOK
    BY ConstantsAssumption DEF Init, TypeOK
  <2> QED  BY <2>1 DEF ServerInit, ServerTypeOK
<1> QED  BY <1>1, ServerTypeStep, PTL DEF ServerSpec

(***************************************************************************)
(* Agreements, and the records they belong to                              *)
(***************************************************************************)

\* No transfer request, registration or restart touches an agreement.
LEMMA ServerSoundStep ==
    ServerTypeOK /\ AgreementSound /\ [ServerNext]_serverVars => AgreementSound'
<1> SUFFICES ASSUME ServerTypeOK, AgreementSound, [ServerNext]_serverVars
             PROVE  AgreementSound'
  OBVIOUS
<1>1. CASE Negotiate
  BY <1>1, SoundStep DEF Negotiate, ServerTypeOK
<1>2. CASE Restart
  BY <1>2 DEF Restart, AgreementSound, Exists
<1>3. CASE Transfer \/ Register \/ UNCHANGED serverVars
  <2>1. UNCHANGED store
    BY <1>3 DEF Transfer, InvokeAgreement, InvokeSkill, Complete, TransferTeach,
       TransferCompose, Register, RegisterSkill, RegisterTeachArtifact, serverVars, vars
  <2> QED  BY <2>1 DEF AgreementSound, Exists
<1> QED  BY <1>1, <1>2, <1>3 DEF ServerNext

\* Agreements stay sound on a server that transfers and restarts.
THEOREM ServerAgreementsAreSound == ServerSpec => []AgreementSound
<1>1. ServerInit => AgreementSound
  BY DEF ServerInit, Init, AgreementSound, Exists
<1> QED  BY <1>1, ServerSoundStep, ServerTypeCorrect, PTL DEF ServerSpec

\* A record with an agreement is left alone by negotiate.* for good.
LEMMA AgreementStays ==
    ASSUME ServerTypeOK, AgreementSound, Negotiate, NEW n \in Negotiations,
           store[n] # None, store[n].agreement # None
    PROVE  store'[n] = store[n]
<1>1. store[n].state \in Settled
  BY DEF AgreementSound, Exists, SoundRecord, Settled
<1>2. UNCHANGED store \/ \E m \in Negotiations : \E r : Put(m, r) /\ Successor(m, r)
  BY StoreSteps DEF Negotiate, ServerTypeOK
<1>3. ASSUME NEW m \in Negotiations, NEW r, Put(m, r), Successor(m, r)
      PROVE  store'[n] = store[n]
  <2>1. store'[n] = IF n = m THEN r ELSE store[n]
    BY <1>3 DEF Put, ServerTypeOK, TypeOK
  <2>2. n = m => r = store[n]
    BY <1>1, <1>3, SettledHasNoSuccessor
  <2> QED  BY <2>1, <2>2
<1> QED  BY <1>2, <1>3

\* With a store that outlives the process no request, transfer, registration or
\* restart, and no setting of the clock, changes a settled record.  A store that
\* is sized is discarded while it is empty, and then survives nothing.
THEOREM DurableRecordsAreFinal ==
    ASSUME StoreSurvives
    PROVE  ServerSpec => SettledIsFinal
<1> DEFINE Final == \A n \in Negotiations :
             Exists(n) /\ store[n].state \in Settled => store'[n] = store[n]
<1>1. ServerTypeOK /\ [ServerNext]_serverVars => [Final]_vars
  <2> SUFFICES ASSUME ServerTypeOK, [ServerNext]_serverVars PROVE Final
    OBVIOUS
  <2>1. CASE UNCHANGED store
    BY <2>1
  <2>2. CASE Negotiate
    <3>1. ASSUME NEW m \in Negotiations, NEW r, Put(m, r), Successor(m, r)
          PROVE  Final
      <4>1. store[m] # None /\ store[m].state \in Settled => r = store[m]
        BY <3>1, SettledHasNoSuccessor
      <4>2. \A n \in Negotiations : store'[n] = IF n = m THEN r ELSE store[n]
        BY <3>1 DEF Put, ServerTypeOK, TypeOK
      <4> QED  BY <4>1, <4>2 DEF Exists
    <3> QED  BY <2>1, <2>2, <3>1, StoreSteps DEF Negotiate, ServerTypeOK
  <2>3. CASE Restart
    BY <2>3 DEF Restart, Forgotten
  <2>4. CASE Transfer \/ Register \/ UNCHANGED serverVars
    BY <2>1, <2>4 DEF Transfer, InvokeAgreement, InvokeSkill, Complete, TransferTeach,
       TransferCompose, Register, RegisterSkill, RegisterTeachArtifact, serverVars, vars
  <2> QED  BY <2>2, <2>3, <2>4 DEF ServerNext
<1> QED  BY <1>1, ServerTypeCorrect, PTL DEF ServerSpec, SettledIsFinal

\* An injected store that outlives the process is used, and nothing in it is given
\* up, as long as its class defines no __len__: the one thing by which the server
\* that InjectedStoreIsUsed fails on differs.
THEOREM UnsizedStoreIsUsed ==
    ASSUME ~ SizedStore
    PROVE  ServerSpec => InjectedStoreIsUsed
<1> DEFINE Kept == DurableStore => \A n \in Negotiations : Exists(n) => store'[n] # None
<1>1. ServerTypeOK /\ [ServerNext]_serverVars => Kept
  <2> SUFFICES ASSUME ServerTypeOK, [ServerNext]_serverVars, DurableStore,
                      NEW n \in Negotiations, store[n] # None
               PROVE  store'[n] # None
    BY DEF Exists
  <2>0. StoreSurvives
    BY DEF StoreSurvives
  <2>1. CASE UNCHANGED store
    BY <2>1
  <2>2. ASSUME NEW m \in Negotiations, NEW r, Put(m, r), Successor(m, r)
        PROVE  store'[n] # None
    <3>1. r # None
      BY <2>2, SuccessorIsRecord, NoneAssumption DEF ServerTypeOK
    <3> QED  BY <2>2, <3>1 DEF Put, ServerTypeOK, TypeOK
  <2>3. CASE Negotiate
    BY <2>1, <2>2, <2>3, StoreSteps DEF Negotiate, ServerTypeOK
  <2>4. CASE Restart
    BY <2>0, <2>4 DEF Restart, Forgotten
  <2>5. CASE Transfer \/ Register \/ UNCHANGED serverVars
    BY <2>1, <2>5 DEF Transfer, InvokeAgreement, InvokeSkill, Complete, TransferTeach,
       TransferCompose, Register, RegisterSkill, RegisterTeachArtifact, serverVars, vars
  <2> QED  BY <2>3, <2>4, <2>5 DEF ServerNext
<1> QED  BY <1>1, ServerTypeCorrect, PTL DEF ServerSpec, InjectedStoreIsUsed

(***************************************************************************)
(* Leases are accounts                                                     *)
(***************************************************************************)

\* A lease state belongs to a lease agreement, has its limit and no overdraft.
Account(n) ==
    lease[n] # None =>
        /\ IsLease(n) /\ lease[n].max = Budget(n)
        /\ lease[n].used =< lease[n].max

\* What has not been agreed has not been used, and what is lost stays lost.
LeaseInv ==
    /\ \A n \in lost : store[n] = None
    /\ \A n \in Negotiations :
          n \notin lost /\ (store[n] = None \/ store[n].agreement = None) =>
             ran[n] = 0 /\ lease[n] = None
    /\ \A n \in Negotiations : Account(n)

\* The budget of a lease is a number of units that some terms set.
LEMMA BudgetIsLimit ==
    ASSUME ServerTypeOK, NEW n \in Negotiations, IsLease(n)
    PROVE  Budget(n) \in Limits /\ Budget(n) \in Nat /\ Budget(n) # None
<1>1. store[n].agreement.terms \in Terms
  BY DEF ServerTypeOK, TypeOK, IsLease, Exists, Records, Agreements
<1>2. Budget(n) \in Limits /\ Budget(n) \in Nat
  BY <1>1, ConstantsAssumption DEF Budget, Limits, LeaseTerms
<1> QED  BY <1>2, ServerAssumption

\* task.invoke under a lease, in terms of its account: the budget, what is spent
\* of it, and the state that is written back.
LEMMA LeaseStateIsAccount ==
    ASSUME ServerTypeOK, LeaseInv, NEW n \in Negotiations, Honoured(n),
           Lease[store[n].agreement.terms] # None
    PROVE  /\ LeaseState(n) \in LeaseStates
           /\ LeaseState(n).max = Budget(n) /\ LeaseState(n).used = UnitsSpent(n)
           /\ LeaseState(n).used =< LeaseState(n).max
<1>1. /\ LeaseState(n) \in LeaseStates
      /\ lease[n] = None => LeaseState(n) = [max |-> Budget(n), used |-> 0]
      /\ lease[n] # None => LeaseState(n) = lease[n]
  BY LeaseStateType
<1>2. lease[n] # None => lease[n].max = Budget(n) /\ lease[n].used =< lease[n].max
  BY DEF LeaseInv, Account
<1>3. LeaseState(n).max \in Nat
  BY <1>1 DEF LeaseStates
<1> QED  BY <1>1, <1>2, <1>3 DEF UnitsSpent

\* An agreement starts with an account that nobody has used.
LEMMA NegotiateKeepsAccounts ==
    ASSUME ServerTypeOK, AgreementSound, LeaseInv, Negotiate
    PROVE  LeaseInv'
<1>1. UNCHANGED <<lease, ran, lost>> /\ \A n \in lost : store'[n] = None
  BY DEF Negotiate
<1>2. ASSUME NEW n \in Negotiations, store[n] # None, store[n].agreement # None
      PROVE  store'[n] = store[n]
  BY <1>2, AgreementStays
<1>3. ASSUME NEW n \in Negotiations, n \notin lost,
             store'[n] = None \/ store'[n].agreement = None
      PROVE  ran[n] = 0 /\ lease[n] = None
  BY <1>2, <1>3 DEF LeaseInv
<1>4. ASSUME NEW n \in Negotiations, lease[n] # None
      PROVE  IsLease(n) /\ store'[n] = store[n]
  BY <1>2, <1>4 DEF LeaseInv, Account, IsLease, Exists
<1>5. \A n \in Negotiations : Account(n)'
  BY <1>1, <1>4 DEF LeaseInv, Account, IsLease, Exists, Budget
<1> QED  BY <1>1, <1>3, <1>5 DEF LeaseInv

\* A step that leaves the records alone and writes one account that balances.
LEMMA AccountWritten ==
    ASSUME ServerTypeOK, LeaseInv, NEW n \in Negotiations, NEW state,
           UNCHANGED <<store, lost>>, lease' = [lease EXCEPT ![n] = state],
           \A m \in Negotiations : m # n => ran'[m] = ran[m],
           IsLease(n), state.max = Budget(n), state.used =< state.max
    PROVE  LeaseInv'
<1>1. \A m \in Negotiations : lease'[m] = IF m = n THEN state ELSE lease[m]
  BY DEF ServerTypeOK
<1>2. \A m \in Negotiations : Account(m)'
  BY <1>1 DEF LeaseInv, Account, IsLease, Exists, Budget
<1> QED  BY <1>1, <1>2 DEF LeaseInv, IsLease, Exists

\* lease.invoke spends a unit before it runs, and only one that is there.
LEMMA InvokeKeepsAccounts ==
    ASSUME ServerTypeOK, LeaseInv, NEW c \in Calls, NEW a \in Agents,
           NEW n \in Negotiations, InvokeAgreement(c, a, n)
    PROVE  LeaseInv'
<1>0. /\ UNCHANGED <<store, lost>>
      /\ ran \in [Negotiations -> Nat]
  BY DEF InvokeAgreement, vars, ServerTypeOK
<1>1. CASE UNCHANGED <<lease, ran>>
  BY <1>0, <1>1 DEF LeaseInv, Account, IsLease, Exists, Budget
<1>2. CASE /\ AgreementError(n, a) = None /\ store[n].mode = "delegate"
           /\ Start(c, a, n, store[n].skill) /\ UNCHANGED lease
  <2>1. store[n] # None /\ store[n].agreement # None /\ lease[n] = None
    BY <1>2, InForce DEF Honoured, LeaseInv, Account, IsLease
  <2>2. \A m \in Negotiations : m # n => ran'[m] = ran[m]
    BY <1>0, <1>2 DEF Start
  <2> QED
    BY <1>0, <1>2, <2>1, <2>2 DEF LeaseInv, Account, IsLease, Exists, Budget
<1>3. CASE AgreementError(n, a) = None /\ store[n].mode = "lease" /\ LeaseInvoke(c, a, n)
  <2> DEFINE hasTerms == Lease[store[n].agreement.terms] # None
  <2>1. Honoured(n) /\ IsLease(n)
    BY <1>3, InForce DEF Honoured, IsLease, Exists
  <2>2. CASE ~ hasTerms
    BY <1>0, <1>1, <1>3, <2>2 DEF LeaseInvoke
  <2>3. ASSUME hasTerms
        PROVE  /\ LeaseState(n) \in LeaseStates /\ LeaseState(n).max = Budget(n)
               /\ LeaseState(n).used =< LeaseState(n).max
    BY <2>1, <2>3, LeaseStateIsAccount
  <2>4. CASE /\ hasTerms /\ ~ Exhausted(n)
             /\ lease' = [lease EXCEPT ![n] = [LeaseState(n) EXCEPT !.used = @ + 1]]
             /\ Start(c, a, n, store[n].skill)
    <3> DEFINE state == [LeaseState(n) EXCEPT !.used = @ + 1]
    <3>1. state.max = Budget(n) /\ state.used =< state.max
      BY <2>3, <2>4 DEF Exhausted, LeaseStates
    <3>2. \A m \in Negotiations : m # n => ran'[m] = ran[m]
      BY <1>0, <2>4 DEF Start
    <3> HIDE DEF state
    <3> QED  BY <1>0, <2>1, <2>4, <3>1, <3>2, AccountWritten DEF state
  <2>5. CASE /\ hasTerms /\ lease' = [lease EXCEPT ![n] = LeaseState(n)]
             /\ UNCHANGED ran
    BY <1>0, <2>1, <2>3, <2>5, AccountWritten
  <2> QED  BY <1>3, <2>2, <2>4, <2>5 DEF LeaseInvoke
<1> QED  BY <1>1, <1>2, <1>3 DEF InvokeAgreement

\* Only task.invoke with an agreement touches the accounts, besides negotiate.*
\* and a restart.
LEMMA OthersLeaveAccounts ==
    ASSUME [ServerNext]_serverVars, ~ Negotiate, ~ Restart,
           ~ \E c \in Calls, a \in Agents, n \in Negotiations : InvokeAgreement(c, a, n)
    PROVE  UNCHANGED <<store, lease, ran, lost>>
BY DEF ServerNext, Transfer, InvokeSkill, Start, TransferTeach, TransferCompose, Complete,
       Register, RegisterSkill, RegisterTeachArtifact, serverVars, transferVars, vars

\* The accounts balance, whatever the store and the clock.
LEMMA LeaseInvariant == ServerSpec => []LeaseInv
<1>1. ServerInit => LeaseInv
  BY DEF ServerInit, Init, LeaseInv, Account
<1>2. ServerTypeOK /\ AgreementSound /\ LeaseInv /\ [ServerNext]_serverVars => LeaseInv'
  <2> SUFFICES ASSUME ServerTypeOK, AgreementSound, LeaseInv, [ServerNext]_serverVars
               PROVE  LeaseInv'
    OBVIOUS
  <2>1. CASE Negotiate
    BY <2>1, NegotiateKeepsAccounts
  <2>2. CASE Restart
    <3>1. lease' = [n \in Negotiations |-> None] /\ ran' = ran
      BY <2>2 DEF Restart
    <3>2. CASE StoreSurvives
      <4>1. store' = store /\ lost' = lost
        BY <2>2, <3>2 DEF Restart, Forgotten, ServerTypeOK, TypeOK
      <4> QED  BY <3>1, <4>1 DEF LeaseInv, Account
    <3>3. CASE ~ StoreSurvives
      <4>1. /\ \A n \in Negotiations : store'[n] = None
            /\ lost' = lost \cup {n \in Negotiations : store[n] # None}
            /\ lost' \subseteq Negotiations
        BY <2>2, <3>3 DEF Restart, Forgotten, ServerTypeOK
      <4> QED  BY <3>1, <4>1 DEF LeaseInv, Account
    <3> QED  BY <3>2, <3>3
  <2>3. ASSUME NEW c \in Calls, NEW a \in Agents, NEW n \in Negotiations,
               InvokeAgreement(c, a, n)
        PROVE  LeaseInv'
    BY <2>3, InvokeKeepsAccounts
  <2>4. CASE UNCHANGED <<store, lease, ran, lost>>
    BY <2>4 DEF LeaseInv, Account, IsLease, Exists, Budget
  <2> QED  BY <2>1, <2>2, <2>3, <2>4, OthersLeaveAccounts
<1> QED
  BY <1>1, <1>2, ServerTypeCorrect, ServerAgreementsAreSound, PTL DEF ServerSpec

(***************************************************************************)
(* The lease primitive implements its ledger                               *)
(***************************************************************************)

\* A step that leaves agreements, accounts and counts alone shows in no account.
LEMMA LedgerStutters ==
    ASSUME UNCHANGED <<store, lease, ran, lost>>
    PROVE  UNCHANGED Ledger!ledgerVars
BY DEF Ledger!ledgerVars, Granted, UnitsSpent, Runs, IsLease, Exists, Budget

\* An agreement opens an account, if it is a lease.
LEMMA NegotiateInLedger ==
    ASSUME ServerTypeOK, AgreementSound, LeaseInv, Negotiate
    PROVE  [Ledger!Next]_(Ledger!ledgerVars)
<1>1. UNCHANGED <<lease, ran, lost>> /\ \A n \in lost : store'[n] = None
  BY DEF Negotiate
<1>2. CASE UNCHANGED store
  BY <1>1, <1>2, LedgerStutters
<1>3. ASSUME NEW n \in Negotiations, NEW r, Put(n, r), Successor(n, r)
      PROVE  [Ledger!Next]_(Ledger!ledgerVars)
  <2>1. \A m \in Negotiations : store'[m] = IF m = n THEN r ELSE store[m]
    BY <1>3 DEF Put, ServerTypeOK, TypeOK
  <2>2. CASE store[n] # None /\ store[n].agreement # None
    <3>1. r = store[n]
      BY <2>1, <2>2, AgreementStays
    <3>2. UNCHANGED store
      BY <1>3, <3>1 DEF Put, ServerTypeOK, TypeOK
    <3> QED  BY <1>2, <3>2
  <2>3. CASE store[n] = None \/ store[n].agreement = None
    <3>1. r \in Records /\ r # None /\ n \notin lost
      BY <1>1, <1>3, <2>1, SuccessorIsRecord, NoneAssumption DEF ServerTypeOK
    <3>2. ran[n] = 0 /\ lease[n] = None /\ ~ IsLease(n)
      BY <2>3, <3>1 DEF LeaseInv, IsLease, Exists
    <3>3. \A m \in Negotiations : UnitsSpent(m)' = UnitsSpent(m) /\ Runs(m)' = Runs(m)
      BY <1>1, <2>1, <3>2 DEF UnitsSpent, Runs, IsLease, Exists
    <3>4. \A m \in Negotiations : m # n => Granted(m)' = Granted(m)
      BY <2>1 DEF Granted, IsLease, Exists, Budget
    <3>5. Granted(n) = None
      BY <3>2 DEF Granted
    <3>6. CASE Granted(n)' = None
      BY <1>1, <3>3, <3>4, <3>5, <3>6 DEF Ledger!ledgerVars
    <3>7. CASE Granted(n)' # None
      <4>1. Granted(n)' \in Limits
        <5>1. Granted(n)' = Budget(n)' /\ store'[n] = r /\ r.agreement # None
          BY <2>1, <3>7 DEF Granted, IsLease, Exists
        <5>2. r.agreement.terms \in Terms
          BY <3>1, <5>1 DEF Records, Agreements
        <5> QED  BY <5>1, <5>2, ConstantsAssumption DEF Budget, Limits
      <4>2. [m \in Negotiations |-> Granted(m)]' =
               [[m \in Negotiations |-> Granted(m)] EXCEPT ![n] = Granted(n)']
        BY <3>4
      <4>3. Ledger!Open(n, Granted(n)')
        BY <1>1, <3>1, <3>3, <3>5, <4>2 DEF Ledger!Open
      <4> QED  BY <4>1, <4>3 DEF Ledger!Next
    <3> QED  BY <3>6, <3>7
  <2> QED  BY <2>2, <2>3
<1> QED  BY <1>2, <1>3, StoreSteps DEF Negotiate, ServerTypeOK

\* task.invoke spends a unit of an account or leaves all of them alone.
LEMMA InvokeInLedger ==
    ASSUME ServerTypeOK, LeaseInv, NEW c \in Calls, NEW a \in Agents,
           NEW n \in Negotiations, InvokeAgreement(c, a, n)
    PROVE  [Ledger!Next]_(Ledger!ledgerVars)
<1>0. /\ UNCHANGED <<store, lost>>
      /\ ran \in [Negotiations -> Nat] /\ lease \in [Negotiations -> LeaseStates \cup {None}]
      /\ \A m \in Negotiations : Granted(m)' = Granted(m)
  <2>1. UNCHANGED <<store, lost>>
    BY DEF InvokeAgreement, vars
  <2> QED  BY <2>1 DEF ServerTypeOK, Granted, IsLease, Exists, Budget
<1>1. CASE UNCHANGED <<lease, ran>>
  BY <1>0, <1>1, LedgerStutters
<1>2. CASE /\ AgreementError(n, a) = None /\ store[n].mode = "delegate"
           /\ Start(c, a, n, store[n].skill) /\ UNCHANGED lease
  <2>1. \A m \in Negotiations : m # n => ran'[m] = ran[m]
    BY <1>0, <1>2 DEF Start
  <2>2. \A m \in Negotiations : UnitsSpent(m)' = UnitsSpent(m) /\ Runs(m)' = Runs(m)
    BY <1>0, <1>2, <2>1 DEF UnitsSpent, Runs, IsLease, Exists
  <2> QED  BY <1>0, <2>2 DEF Ledger!ledgerVars
<1>3. CASE AgreementError(n, a) = None /\ store[n].mode = "lease" /\ LeaseInvoke(c, a, n)
  <2> DEFINE hasTerms == Lease[store[n].agreement.terms] # None
  <2>1. Honoured(n) /\ IsLease(n)
    BY <1>3, InForce DEF Honoured, IsLease, Exists
  <2>2. CASE ~ hasTerms
    BY <1>1, <1>3, <2>2 DEF LeaseInvoke
  <2>3. ASSUME hasTerms
        PROVE  /\ LeaseState(n) \in LeaseStates /\ LeaseState(n) # None
               /\ LeaseState(n).max = Granted(n) /\ LeaseState(n).used = UnitsSpent(n)
    BY <2>1, <2>3, LeaseStateIsAccount, ServerAssumption DEF Granted
  <2>4. CASE /\ hasTerms /\ ~ Exhausted(n)
             /\ lease' = [lease EXCEPT ![n] = [LeaseState(n) EXCEPT !.used = @ + 1]]
             /\ Start(c, a, n, store[n].skill)
    <3> DEFINE state == [LeaseState(n) EXCEPT !.used = @ + 1]
    <3>1. state # None /\ state.used = UnitsSpent(n) + 1
      <4>1. state \in LeaseStates /\ state.used = UnitsSpent(n) + 1
        BY <2>3, <2>4 DEF LeaseStates
      <4> QED  BY <4>1, ServerAssumption
    <3>2. UnitsSpent(n) < Granted(n)
      BY <2>3, <2>4 DEF Exhausted, LeaseStates
    <3>3. Granted(n) # None
      BY <2>1, BudgetIsLimit DEF Granted
    <3>4. lease' = [lease EXCEPT ![n] = state]
      BY <2>4
    <3> HIDE DEF state
    <3>5. /\ UnitsSpent(n)' = UnitsSpent(n) + 1
          /\ \A m \in Negotiations : m # n => UnitsSpent(m)' = UnitsSpent(m)
      BY <1>0, <3>1, <3>4 DEF UnitsSpent
    <3>6. PICK k \in {0, 1} : ran' = [ran EXCEPT ![n] = @ + k]
      <4>1. ran' = ran \/ ran' = [ran EXCEPT ![n] = @ + 1]
        BY <2>4, NoneAssumption DEF Start
      <4>2. ran' = ran => ran' = [ran EXCEPT ![n] = @ + 0]
        BY <1>0
      <4> QED  BY <4>1, <4>2
    <3>7. /\ Runs(n)' = Runs(n) + k
          /\ \A m \in Negotiations : m # n => Runs(m)' = Runs(m)
      BY <1>0, <2>1, <3>6 DEF Runs, IsLease, Exists
    <3>8. [m \in Negotiations |-> UnitsSpent(m)]' =
             [[m \in Negotiations |-> UnitsSpent(m)] EXCEPT ![n] = @ + 1]
      BY <3>5
    <3>9. [m \in Negotiations |-> Runs(m)]' =
             [[m \in Negotiations |-> Runs(m)] EXCEPT ![n] = @ + k]
      BY <3>7
    <3>10. Ledger!Spend(n)
      BY <1>0, <3>2, <3>3, <3>6, <3>8, <3>9 DEF Ledger!Spend
    <3> QED  BY <3>10 DEF Ledger!Next
  <2>5. CASE /\ hasTerms /\ lease' = [lease EXCEPT ![n] = LeaseState(n)]
             /\ UNCHANGED ran
    <3>1. \A m \in Negotiations : UnitsSpent(m)' = UnitsSpent(m)
      BY <1>0, <2>3, <2>5 DEF UnitsSpent
    <3>2. \A m \in Negotiations : Runs(m)' = Runs(m)
      BY <1>0, <2>5 DEF Runs, IsLease, Exists
    <3> QED  BY <1>0, <3>1, <3>2 DEF Ledger!ledgerVars
  <2> QED  BY <1>3, <2>2, <2>4, <2>5 DEF LeaseInvoke
<1> QED  BY <1>1, <1>2, <1>3 DEF InvokeAgreement

\* A restart that forgets the records ends their accounts.
LEMMA RestartInLedger ==
    ASSUME ~ StoreSurvives, ServerTypeOK, Restart
    PROVE  Ledger!Next
<1>1. /\ lease' = [n \in Negotiations |-> None] /\ ran' = ran
      /\ [n \in Negotiations |-> UnitsSpent(n)]' = [n \in Negotiations |-> 0]
  BY DEF Restart, UnitsSpent
<1> DEFINE gone == {n \in Negotiations : store[n] # None}
<1>2. lost' = lost \cup gone /\ \A n \in Negotiations : store'[n] = None
  BY DEF Restart, Forgotten
<1>3. \A n \in Negotiations : Granted(n)' = None /\ Runs(n)' = 0
  BY <1>2 DEF Granted, Runs, IsLease, Exists
<1>4. \A n \in Negotiations : Granted(n) # None => n \in gone
  BY DEF Granted, IsLease, Exists
<1>5. gone \in SUBSET Negotiations
  OBVIOUS
<1> HIDE DEF gone
<1>6. Ledger!Restart
  BY <1>1, <1>2, <1>3, <1>4, <1>5 DEF Ledger!Restart
<1> QED  BY <1>6 DEF Ledger!Next

\* Every step of such a server is a step of the ledger or none.
LEMMA LedgerStep ==
    ~ StoreSurvives /\ ServerTypeOK /\ AgreementSound /\ LeaseInv /\ [ServerNext]_serverVars
        => [Ledger!Next]_(Ledger!ledgerVars)
BY NegotiateInLedger, InvokeInLedger, RestartInLedger, OthersLeaveAccounts, LedgerStutters

\* LeasePrimitive implements the ledger on a server whose negotiations go with the
\* process, under any clock: whatever races, fails or is restarted, runs are paid
\* for in advance out of an account with the agreed limit, and no unit comes back.
\* With a store that outlives the process this fails: its counts are in memory.
THEOREM LeasesImplementLedger ==
    ASSUME ~ StoreSurvives
    PROVE  ServerSpec => ImplementsLedger
<1>1. ServerInit => Ledger!Init
  BY DEF ServerInit, Init, Ledger!Init, Granted, UnitsSpent, Runs, IsLease, Exists
<1> QED
  BY <1>1, LedgerStep, LeaseInvariant, ServerTypeCorrect, ServerAgreementsAreSound, PTL
  DEF ServerSpec, ImplementsLedger, Ledger!Spec

\* Each run under a lease was paid for.
Paid == \A n \in Negotiations : Runs(n) =< UnitsSpent(n)

LEMMA CountsAreNumbers ==
    ServerTypeOK => \A n \in Negotiations : Runs(n) \in Nat /\ UnitsSpent(n) \in Nat
BY DEF ServerTypeOK, Runs, UnitsSpent, LeaseStates

\* No step of the ledger leaves a run unpaid.
LEMMA PaidStep ==
    ASSUME ServerTypeOK, Paid, [Ledger!Next]_(Ledger!ledgerVars)
    PROVE  Paid'
<1>1. CASE \/ UNCHANGED Ledger!ledgerVars
           \/ \E n \in Negotiations : \E units : Ledger!Open(n, units)
  <2>1. /\ [n \in Negotiations |-> UnitsSpent(n)]' = [n \in Negotiations |-> UnitsSpent(n)]
        /\ [n \in Negotiations |-> Runs(n)]' = [n \in Negotiations |-> Runs(n)]
    BY <1>1 DEF Ledger!ledgerVars, Ledger!Open
  <2>2. \A n \in Negotiations : UnitsSpent(n)' = UnitsSpent(n) /\ Runs(n)' = Runs(n)
    BY <2>1
  <2> QED  BY <2>2 DEF Paid
<1>2. ASSUME NEW n \in Negotiations, Ledger!Spend(n)
      PROVE  Paid'
  <2>1. PICK k \in {0, 1} :
           /\ [m \in Negotiations |-> UnitsSpent(m)]' =
                 [[m \in Negotiations |-> UnitsSpent(m)] EXCEPT ![n] = @ + 1]
           /\ [m \in Negotiations |-> Runs(m)]' =
                 [[m \in Negotiations |-> Runs(m)] EXCEPT ![n] = @ + k]
    BY <1>2 DEF Ledger!Spend
  <2>2. \A m \in Negotiations :
           /\ UnitsSpent(m)' = IF m = n THEN UnitsSpent(m) + 1 ELSE UnitsSpent(m)
           /\ Runs(m)' = IF m = n THEN Runs(m) + k ELSE Runs(m)
    BY <2>1
  <2> QED  BY <2>2, CountsAreNumbers DEF Paid
<1>3. CASE Ledger!Restart
  <2>1. /\ [n \in Negotiations |-> UnitsSpent(n)]' = [n \in Negotiations |-> 0]
        /\ [n \in Negotiations |-> Runs(n)]' = [n \in Negotiations |-> 0]
    BY <1>3 DEF Ledger!Restart
  <2>2. \A n \in Negotiations : UnitsSpent(n)' = 0 /\ Runs(n)' = 0
    BY <2>1
  <2> QED  BY <2>2 DEF Paid
<1> QED  BY <1>1, <1>2, <1>3 DEF Ledger!Next

LEMMA RunsArePaid ==
    ASSUME ~ StoreSurvives
    PROVE  ServerSpec => []Paid
<1>1. ServerInit => Paid
  BY DEF ServerInit, Init, Paid, Runs, UnitsSpent, IsLease, Exists
<1> QED
  BY <1>1, PaidStep, LedgerStep, LeaseInvariant, ServerTypeCorrect,
     ServerAgreementsAreSound, PTL DEF ServerSpec

\* Where negotiations go with the process no lease is overdrawn and no run unpaid.
THEOREM LedgerIsSolvent ==
    ASSUME ~ StoreSurvives
    PROVE  ServerSpec => []Ledger!Solvent
<1>1. ServerTypeOK /\ LeaseInv /\ Paid => Ledger!Solvent
  <2> SUFFICES ASSUME ServerTypeOK, LeaseInv, Paid,
                      NEW n \in Negotiations, Granted(n) # None
               PROVE  Runs(n) =< UnitsSpent(n) /\ UnitsSpent(n) =< Granted(n)
    BY DEF Ledger!Solvent
  <2>1. IsLease(n) /\ Granted(n) = Budget(n) /\ Budget(n) \in Nat
    BY BudgetIsLimit DEF Granted
  <2>2. UnitsSpent(n) =< Budget(n)
    BY <2>1 DEF UnitsSpent, LeaseInv, Account
  <2> QED  BY <2>1, <2>2 DEF Paid
<1> QED  BY <1>1, RunsArePaid, LeaseInvariant, ServerTypeCorrect, PTL

\* A server whose negotiations go with the process never runs a handler more
\* often under a lease than the lease allows, whatever the calls that race, the
\* handlers that hang or fail, and the restarts.  With a store that outlives the
\* process the theorem fails: LeasePrimitive keeps its counts in memory.
THEOREM LeaseCapHolds ==
    ASSUME ~ StoreSurvives
    PROVE  ServerSpec => []LeaseCap
<1>1. ServerTypeOK /\ LeaseInv /\ Paid => LeaseCap
  <2> SUFFICES ASSUME ServerTypeOK, LeaseInv, Paid, NEW n \in Negotiations, IsLease(n)
               PROVE  ran[n] =< Budget(n)
    BY DEF LeaseCap
  <2>1. Budget(n) \in Nat /\ Runs(n) = ran[n]
    BY BudgetIsLimit DEF Runs
  <2>2. UnitsSpent(n) =< Budget(n)
    BY <2>1 DEF UnitsSpent, LeaseInv, Account
  <2> QED  BY <2>1, <2>2, CountsAreNumbers DEF Paid
<1> QED  BY <1>1, RunsArePaid, LeaseInvariant, ServerTypeCorrect, PTL

\* What was spent stays spent, short of losing the agreement with the process.
UnitsKept ==
    \A n \in Negotiations :
        lease[n] # None =>
            \/ n \in lost'
            \/ /\ lease'[n] # None /\ lease'[n].max = lease[n].max
               /\ lease'[n].used >= lease[n].used

LEMMA KeepUnits ==
    ASSUME ~ StoreSurvives
    PROVE  ServerTypeOK /\ LeaseInv /\ [ServerNext]_serverVars => UnitsKept
<1> USE DEF UnitsKept
<1> SUFFICES ASSUME ServerTypeOK, LeaseInv, [ServerNext]_serverVars PROVE UnitsKept
  OBVIOUS
<1>0. /\ lease \in [Negotiations -> LeaseStates \cup {None}]
      /\ \A n \in Negotiations : lease[n] # None => lease[n].used \in Nat
  BY DEF ServerTypeOK, LeaseStates
<1>1. CASE Restart
  <2>1. \A n \in Negotiations : lease[n] # None => n \in lost \/ store[n] # None
    BY DEF LeaseInv
  <2>2. lost' = lost \cup {n \in Negotiations : store[n] # None}
    BY <1>1 DEF Restart, Forgotten
  <2> QED  BY <2>1, <2>2
<1>2. CASE UNCHANGED lease
  BY <1>0, <1>2
<1>3. ASSUME NEW c \in Calls, NEW a \in Agents, NEW n \in Negotiations,
             AgreementError(n, a) = None, LeaseInvoke(c, a, n)
      PROVE  UnitsKept
  <2>1. ASSUME Lease[store[n].agreement.terms] # None
        PROVE  /\ LeaseState(n) \in LeaseStates
               /\ lease[n] # None => LeaseState(n) = lease[n]
    BY <1>3, <2>1, InForce, LeaseStateType
  <2>2. ASSUME NEW state \in LeaseStates, lease' = [lease EXCEPT ![n] = state],
               lease[n] # None =>
                  state.max = lease[n].max /\ state.used >= lease[n].used
        PROVE  UnitsKept
    BY <1>0, <2>2, ServerAssumption
  <2>3. ASSUME Lease[store[n].agreement.terms] # None,
               lease' = [lease EXCEPT ![n] = [LeaseState(n) EXCEPT !.used = @ + 1]]
        PROVE  UnitsKept
    <3> DEFINE state == [LeaseState(n) EXCEPT !.used = @ + 1]
    <3>1. /\ state \in LeaseStates /\ state.max = LeaseState(n).max
          /\ state.used >= LeaseState(n).used
      BY <2>1, <2>3 DEF LeaseStates
    <3> HIDE DEF state
    <3> QED  BY <2>1, <2>2, <2>3, <3>1 DEF state
  <2>4. ASSUME Lease[store[n].agreement.terms] # None,
               lease' = [lease EXCEPT ![n] = LeaseState(n)]
        PROVE  UnitsKept
    <3>1. lease[n] # None => LeaseState(n).used >= lease[n].used
      BY <1>0, <2>1, <2>4
    <3> QED  BY <2>1, <2>2, <2>4, <3>1
  <2> QED  BY <1>2, <1>3, <2>3, <2>4 DEF LeaseInvoke
<1>4. ASSUME NEW c \in Calls, NEW a \in Agents, NEW n \in Negotiations,
             InvokeAgreement(c, a, n)
      PROVE  UnitsKept
  BY <1>2, <1>3, <1>4 DEF InvokeAgreement
<1>5. CASE \/ Negotiate \/ Register \/ UNCHANGED serverVars
           \/ \E c \in Calls : Complete(c)
           \/ \E c \in Calls, a \in Agents, s \in Skills : InvokeSkill(c, a, s)
           \/ \E a \in Agents, n \in Negotiations :
                 TransferTeach(a, n) \/ TransferCompose(a, n)
  <2>1. UNCHANGED lease
    BY <1>5 DEF Negotiate, Register, RegisterSkill, RegisterTeachArtifact, Complete,
       InvokeSkill, TransferTeach, TransferCompose, serverVars, transferVars
  <2> QED  BY <1>2, <2>1
<1> QED  BY <1>1, <1>4, <1>5 DEF ServerNext, Transfer

(***************************************************************************)
(* The server implements the lifecycle of its negotiations                 *)
(***************************************************************************)
\* What shows of a negotiation, lost ones included.
PhaseAt(n) == IF n \in lost THEN "lost" ELSE PhaseOf(store[n], now)

\* A lost negotiation has no record, which is all the coordinator sees of it.
LEMMA NoneShowsNothing ==
    \A t : PhaseOf(None, t) = "none" /\ OfferOf(None) = None /\ BoundOf(None) = None
BY DEF PhaseOf, OfferOf, BoundOf

\* A step that leaves records, clock and losses alone does not show.
LEMMA ServerLifecycleStutters ==
    ASSUME UNCHANGED <<store, now, lost>>
    PROVE  UNCHANGED ServerLifecycle!lifecycleVars
BY DEF ServerLifecycle!lifecycleVars

\* The coordinator's step of the lifecycle is one of the server's: it is not
\* about what is lost.
LEMMA NegotiateInLifecycle ==
    ASSUME ~ ClockStepsBack, TypeOK, AgreementSound, Negotiate,
           \A n \in lost : store[n] = None
    PROVE  [ServerLifecycle!Next]_(ServerLifecycle!lifecycleVars)
<1> DEFINE phase == [n \in Negotiations |-> PhaseOf(store[n], now)]
           shown == [n \in Negotiations |-> PhaseAt(n)]
           offer == [n \in Negotiations |-> OfferOf(store[n])]
           bound == [n \in Negotiations |-> BoundOf(store[n])]
<1>1. lost' = lost /\ \A n \in lost : store'[n] = None
  BY DEF Negotiate
<1>2. \A n \in Negotiations :
         /\ shown[n] = IF n \in lost THEN "lost" ELSE phase[n]
         /\ shown'[n] = IF n \in lost THEN "lost" ELSE phase'[n]
         /\ n \in lost => phase[n] = "none" /\ phase'[n] = "none"
  BY <1>1, NoneShowsNothing DEF PhaseAt
<1>3. [Lifecycle!Next]_(Lifecycle!lifecycleVars)
  BY LifecycleStep DEF Negotiate
<1>4. CASE UNCHANGED <<phase, offer, bound>>
  <2>1. shown' = shown
    BY <1>2, <1>4
  <2> QED  BY <1>4, <2>1 DEF ServerLifecycle!lifecycleVars, PhaseAt
<1>5. ASSUME NEW n \in Negotiations, NEW t \in Terms, Lifecycle!Offer(n, t)
      PROVE  ServerLifecycle!Next
  <2>1. PICK p \in {"open", "closed"} : phase' = [phase EXCEPT ![n] = p]
    BY <1>5 DEF Lifecycle!Offer
  <2>2. phase[n] \in {"none", "open"} /\ n \notin lost
    BY <1>2, <1>5, <2>1 DEF Lifecycle!Offer
  <2>3. shown[n] \in {"none", "open"} /\ shown' = [shown EXCEPT ![n] = p]
    BY <1>2, <2>1, <2>2
  <2>4. ServerLifecycle!Offer(n, t)
    BY <1>5, <2>3 DEF Lifecycle!Offer, ServerLifecycle!Offer, PhaseAt
  <2> QED  BY <2>4 DEF ServerLifecycle!Next
<1>6. ASSUME NEW n \in Negotiations, Lifecycle!Agree(n)
      PROVE  ServerLifecycle!Next
  <2>1. phase[n] = "open" /\ phase' = [phase EXCEPT ![n] = "agreed"]
    BY <1>6 DEF Lifecycle!Agree
  <2>2. n \notin lost
    BY <1>2, <2>1
  <2>3. shown[n] = "open" /\ shown' = [shown EXCEPT ![n] = "agreed"]
    <3>1. \A m \in Negotiations : phase'[m] = IF m = n THEN "agreed" ELSE phase[m]
      BY <2>1
    <3>2. \A m \in Negotiations : shown'[m] = IF m = n THEN "agreed" ELSE shown[m]
      BY <1>2, <2>2, <3>1
    <3> QED  BY <1>2, <2>1, <2>2, <3>2
  <2>4. ServerLifecycle!Agree(n)
    BY <1>6, <2>3 DEF Lifecycle!Agree, ServerLifecycle!Agree, PhaseAt
  <2> QED  BY <2>4 DEF ServerLifecycle!Next
<1>7. ASSUME NEW closing \in SUBSET Negotiations, Lifecycle!Close(closing)
      PROVE  ServerLifecycle!Next
  <2>1. /\ \A n \in closing : phase[n] = "open"
        /\ phase' = [n \in Negotiations |-> IF n \in closing THEN "closed" ELSE phase[n]]
    BY <1>7 DEF Lifecycle!Close
  <2>2. /\ \A n \in closing : shown[n] = "open"
        /\ shown' = [n \in Negotiations |-> IF n \in closing THEN "closed" ELSE shown[n]]
    <3>1. \A n \in closing : n \in Negotiations /\ n \notin lost /\ shown[n] = "open"
      BY <1>2, <2>1
    <3>2. \A n \in Negotiations : phase'[n] = IF n \in closing THEN "closed" ELSE phase[n]
      BY <2>1
    <3>3. \A n \in Negotiations : shown'[n] = IF n \in closing THEN "closed" ELSE shown[n]
      BY <1>2, <3>1, <3>2
    <3> QED  BY <3>1, <3>3
  <2>3. ServerLifecycle!Close(closing)
    BY <1>7, <2>2 DEF Lifecycle!Close, ServerLifecycle!Close, PhaseAt
  <2> QED  BY <2>3 DEF ServerLifecycle!Next
<1> QED
  BY <1>3, <1>4, <1>5, <1>6, <1>7
  DEF Lifecycle!Next, Lifecycle!Forget, Lifecycle!lifecycleVars

\* A restart forgets every negotiation at once, or none that is in the store.
LEMMA RestartInLifecycle ==
    ASSUME TypeOK, Restart, \A n \in lost : store[n] = None
    PROVE  [ServerLifecycle!Next]_(ServerLifecycle!lifecycleVars)
<1>1. CASE StoreSurvives
  <2>1. UNCHANGED <<store, now, lost>>
    BY <1>1 DEF Restart, Forgotten, TypeOK
  <2> QED  BY <2>1, ServerLifecycleStutters
<1>2. CASE ~ StoreSurvives
  <2>1. /\ \A n \in Negotiations : store'[n] = None
        /\ lost' = lost \cup {n \in Negotiations : store[n] # None}
    BY <1>2 DEF Restart, Forgotten
  <2>2. \A n \in Negotiations :
           /\ PhaseAt(n) = "none" <=> n \notin lost /\ store[n] = None
           /\ PhaseAt(n)' = IF PhaseAt(n) = "none" THEN "none" ELSE "lost"
    <3>1. \A n \in Negotiations : PhaseOf(store[n], now) = "none" <=> store[n] = None
      BY DEF PhaseOf
    <3>2. \A n \in Negotiations : PhaseAt(n) = "none" <=> n \notin lost /\ store[n] = None
      BY <3>1 DEF PhaseAt
    <3>3. \A n \in Negotiations : PhaseAt(n)' = IF n \in lost' THEN "lost" ELSE "none"
      BY <2>1, NoneShowsNothing DEF PhaseAt
    <3> QED  BY <2>1, <3>2, <3>3
  <2>3. ServerLifecycle!Forget
    BY <1>2, <2>1, <2>2, NoneShowsNothing DEF ServerLifecycle!Forget, PhaseAt
  <2> QED  BY <2>3 DEF ServerLifecycle!Next
<1> QED  BY <1>1, <1>2

\* Only the coordinator, the clock and a restart show in the lifecycle.
LEMMA OthersLeaveRecords ==
    ASSUME [ServerNext]_serverVars, ~ Negotiate, ~ Restart
    PROVE  UNCHANGED <<store, now, lost>>
BY DEF ServerNext, Transfer, InvokeAgreement, InvokeSkill, TransferTeach, TransferCompose,
       Complete, Register, RegisterSkill, RegisterTeachArtifact, serverVars, transferVars,
       vars

LEMMA ServerLifecycleStep ==
    ASSUME ~ ClockStepsBack, ServerTypeOK, AgreementSound, LeaseInv,
           [ServerNext]_serverVars
    PROVE  [ServerLifecycle!Next]_(ServerLifecycle!lifecycleVars)
<1>1. TypeOK /\ \A n \in lost : store[n] = None
  BY DEF ServerTypeOK, LeaseInv
<1> QED
  BY <1>1, NegotiateInLifecycle, RestartInLifecycle, OthersLeaveRecords,
     ServerLifecycleStutters

\* The whole server, with the invocations, releases, registrations and restarts
\* around the coordinator, implements the lifecycle of its negotiations: a closed
\* one is never reopened, an agreement never replaced, a lost one never revived.
THEOREM ServerKeepsTheLifecycle ==
    ASSUME ~ ClockStepsBack
    PROVE  ServerSpec => ServerImplementsLifecycle
<1>1. ServerInit => ServerLifecycle!Init
  BY NoneShowsNothing DEF ServerInit, Init, ServerLifecycle!Init
<1> QED
  BY <1>1, ServerLifecycleStep, LeaseInvariant, ServerTypeCorrect,
     ServerAgreementsAreSound, PTL
  DEF ServerSpec, ServerImplementsLifecycle, ServerLifecycle!Spec

\* A restart sets no deadline, and only the coordinator sets others.
LEMMA ServerDeadlines == ServerSpec => []DeadlinesInTime
<1>1. ServerInit => DeadlinesInTime
  BY DEF ServerInit, Init, DeadlinesInTime, Exists
<1>2. ServerTypeOK /\ DeadlinesInTime /\ [ServerNext]_serverVars => DeadlinesInTime'
  <2> SUFFICES ASSUME ServerTypeOK, DeadlinesInTime, [ServerNext]_serverVars
               PROVE  DeadlinesInTime'
    OBVIOUS
  <2>1. CASE Negotiate
    BY <2>1, DeadlineStep DEF Negotiate, ServerTypeOK
  <2>2. CASE \A n \in Negotiations : store'[n] \in {store[n], None}
    BY <2>2 DEF DeadlinesInTime, Exists
  <2>3. CASE Restart
    BY <2>2, <2>3 DEF Restart
  <2> QED  BY <2>1, <2>2, <2>3, OthersLeaveRecords
<1> QED  BY <1>1, <1>2, ServerTypeCorrect, PTL DEF ServerSpec

\* On the whole server too no offer outlives its deadline: no handler that runs,
\* no restart and no store that survives one defers it.
THEOREM ServerOffersLapseInTime ==
    ServerSpec /\ []<>(now >= MaxTime) => OffersLapse
<1>1. ASSUME NEW n \in Negotiations, NEW k \in 1 .. MaxRounds
      PROVE  ServerSpec /\ []<>(now >= MaxTime)
               => (Live(n) /\ Len(store[n].proposals) = k
                      ~> ~ Live(n) \/ Len(store[n].proposals) > k)
  <2>1. ServerTypeOK /\ DeadlinesInTime /\ now >= MaxTime => ~ Live(n)
    BY NoOfferOutlivesTime DEF ServerTypeOK
  <2> QED  BY <2>1, ServerTypeCorrect, ServerDeadlines, PTL
<1> QED  BY <1>1 DEF OffersLapse

(***************************************************************************)
(* Running handlers                                                        *)
(***************************************************************************)

\* No request, janitor call, clock change or restart takes the agreement away
\* from a handler that is running for it.
THEOREM RunningHandlersAreCovered == ServerSpec => []RunningIsCovered
<1>1. ServerInit => RunningIsCovered
  BY DEF ServerInit, RunningIsCovered
<1>2. ServerTypeOK /\ AgreementSound /\ RunningIsCovered /\ [ServerNext]_serverVars
        => RunningIsCovered'
  <2> SUFFICES ASSUME ServerTypeOK, AgreementSound, RunningIsCovered,
                      [ServerNext]_serverVars
               PROVE  RunningIsCovered'
    OBVIOUS
  <2>0. calls \in [Calls -> CallRecords \cup {None}]
    BY DEF ServerTypeOK
  <2>1. CASE Negotiate
    <3>1. ASSUME NEW c \in Calls, calls[c] # None, calls[c].neg # None
          PROVE  store'[calls[c].neg] = store[calls[c].neg]
      <4>1. calls[c].neg \in Negotiations
        BY <2>0, <3>1 DEF CallRecords
      <4>2. store[calls[c].neg] # None /\ store[calls[c].neg].agreement # None
        BY <3>1, <4>1 DEF RunningIsCovered, AgreementSound, Exists, SoundRecord
      <4> QED  BY <2>1, <4>1, <4>2, AgreementStays
    <3>2. calls' = calls
      BY <2>1 DEF Negotiate
    <3> QED  BY <3>1, <3>2 DEF RunningIsCovered, IsParty
  <2>2. CASE Restart
    BY <2>2 DEF Restart, RunningIsCovered
  <2>3. ASSUME UNCHANGED store,
               \A c \in Calls : calls'[c] \in {calls[c], None}
        PROVE  RunningIsCovered'
    BY <2>3 DEF RunningIsCovered, IsParty
  <2>4. ASSUME NEW c \in Calls, NEW a \in Agents, NEW n \in Negotiations, UNCHANGED store,
               AgreementError(n, a) = None, store[n].mode \in {"delegate", "lease"},
               calls' = [calls EXCEPT ![c] = [neg |-> n, skill |-> store[n].skill, by |-> a]]
        PROVE  RunningIsCovered'
    <3>1. Honoured(n) /\ IsParty(a, store[n]) /\ store[n].state = "AGREED"
      BY <2>4, InForce DEF Honoured, AgreementSound, Exists, SoundRecord
    <3>2. \A d \in Calls : calls'[d] =
             IF d = c THEN [neg |-> n, skill |-> store[n].skill, by |-> a] ELSE calls[d]
      BY <2>0, <2>4
    <3> QED  BY <2>4, <3>1, <3>2 DEF RunningIsCovered, Honoured, IsParty
  <2>5. ASSUME NEW c \in Calls, NEW a \in Agents, NEW n \in Negotiations,
               InvokeAgreement(c, a, n)
        PROVE  RunningIsCovered'
    <3>1. UNCHANGED store
      BY <2>5 DEF InvokeAgreement, vars
    <3> QED
      BY <2>3, <2>4, <2>5, <3>1 DEF InvokeAgreement, LeaseInvoke, Start
  <2>6. ASSUME NEW c \in Calls, NEW a \in Agents, NEW s \in Skills, InvokeSkill(c, a, s)
        PROVE  RunningIsCovered'
    <3>1. /\ UNCHANGED store
          /\ \A d \in Calls : calls'[d] \in
                {calls[d], [neg |-> None, skill |-> s, by |-> a]}
      BY <2>0, <2>6 DEF InvokeSkill, Start, vars
    <3> QED  BY <3>1 DEF RunningIsCovered, IsParty
  <2>7. ASSUME NEW c \in Calls, Complete(c)
        PROVE  RunningIsCovered'
    BY <2>0, <2>3, <2>7 DEF Complete, vars
  <2>8. ASSUME \/ Register \/ UNCHANGED serverVars
               \/ \E a \in Agents, n \in Negotiations :
                     TransferTeach(a, n) \/ TransferCompose(a, n)
        PROVE  RunningIsCovered'
    BY <2>3, <2>8 DEF Register, RegisterSkill, RegisterTeachArtifact, serverVars,
       transferVars, vars, TransferTeach, TransferCompose
  <2> QED  BY <2>1, <2>2, <2>5, <2>6, <2>7, <2>8 DEF ServerNext, Transfer
<1> QED
  BY <1>1, <1>2, ServerTypeCorrect, ServerAgreementsAreSound, PTL DEF ServerSpec

(***************************************************************************)
(* What is started or released                                             *)
(***************************************************************************)
\* The answer to one transfer request is covered by the agreement it names.
Covered(op, a, n) ==
    /\ store[n] # None /\ store[n].agreement # None /\ SoundRecord(store[n])
    /\ IsParty(a, store[n]) /\ InWindow(store[n].agreement)
    /\ IF op = "invoke" THEN store[n].mode \in {"delegate", "lease"} ELSE op = store[n].mode

\* A positive answer that is covered, any other answer, or none.
LEMMA CoveredReply ==
    ASSUME NEW op, NEW a, NEW n, NEW outcome, Reply(op, a, n, outcome),
           UNCHANGED vars,
           outcome \in {"ok", "started"} /\ n # None /\ op # "complete" => Covered(op, a, n)
    PROVE  AccessIsCovered'
BY DEF Reply, Covered, AccessIsCovered, SoundRecord, IsParty, InWindow, LatestTerms, vars

LEMMA InForceIsCovered ==
    ASSUME AgreementSound, NEW n \in Negotiations, NEW a, NEW op,
           AgreementError(n, a) = None,
           IF op = "invoke" THEN store[n].mode \in {"delegate", "lease"} ELSE op = store[n].mode
    PROVE  Covered(op, a, n)
BY InForce DEF Honoured, AgreementSound, Exists, Covered

\* Whatever task.invoke starts and transfer.teach or transfer.compose release under
\* an agreement is released to one of its parties, in its mode and in its window.
THEOREM ReleasesAreCovered == ServerSpec => []AccessIsCovered
<1>1. ServerInit => AccessIsCovered
  BY DEF ServerInit, AccessIsCovered
<1>2. AgreementSound /\ AccessIsCovered /\ [ServerNext]_serverVars => AccessIsCovered'
  <2> SUFFICES ASSUME AgreementSound, AccessIsCovered, [ServerNext]_serverVars
               PROVE  AccessIsCovered'
    OBVIOUS
  <2>0. \A n, a : AgreementError(n, a) # None => AgreementError(n, a) \notin {"ok", "started"}
    BY DEF AgreementError
  <2>1. CASE rpc' = None
    BY <2>1 DEF AccessIsCovered
  <2>2. ASSUME NEW c \in Calls, NEW a \in Agents, NEW n \in Negotiations,
               InvokeAgreement(c, a, n)
        PROVE  AccessIsCovered'
    <3>1. UNCHANGED vars
      BY <2>2 DEF InvokeAgreement
    <3>2. CASE AgreementError(n, a) # None
      <4>1. Reply("invoke", a, n, AgreementError(n, a))
        BY <2>2, <3>2 DEF InvokeAgreement
      <4> QED  BY <2>0, <3>1, <3>2, <4>1, CoveredReply
    <3>3. CASE AgreementError(n, a) = None /\ store[n].mode \in {"delegate", "lease"}
      <4>1. Covered("invoke", a, n)
        BY <3>3, InForceIsCovered
      <4>2. \E outcome : Reply("invoke", a, n, outcome)
        BY <2>2, <3>3 DEF InvokeAgreement, LeaseInvoke, Start
      <4> QED  BY <3>1, <4>1, <4>2, CoveredReply
    <3>4. CASE AgreementError(n, a) = None /\ store[n].mode \notin {"delegate", "lease"}
      <4>1. Reply("invoke", a, n, "AgreementViolatedError")
        BY <2>2, <3>4 DEF InvokeAgreement
      <4> QED  BY <3>1, <4>1, CoveredReply
    <3> QED  BY <3>2, <3>3, <3>4
  <2>3. ASSUME NEW c \in Calls, NEW a \in Agents, NEW s \in Skills, InvokeSkill(c, a, s)
        PROVE  AccessIsCovered'
    BY <2>3 DEF InvokeSkill, Start, Reply, AccessIsCovered
  <2>4. ASSUME NEW c \in Calls, Complete(c)
        PROVE  AccessIsCovered'
    BY <2>4 DEF Complete, Reply, AccessIsCovered
  <2>5. ASSUME NEW a \in Agents, NEW n \in Negotiations, TransferTeach(a, n)
        PROVE  AccessIsCovered'
    <3>1. CASE AgreementError(n, a) = None /\ store[n].mode = "teach"
      BY <2>5, <3>1, InForceIsCovered, CoveredReply DEF TransferTeach
    <3>2. CASE AgreementError(n, a) # None \/ store[n].mode # "teach"
      <4>1. PICK outcome : outcome \notin {"ok", "started"} /\ Reply("teach", a, n, outcome)
        BY <2>0, <2>5, <3>2 DEF TransferTeach
      <4> QED  BY <2>5, <4>1, CoveredReply DEF TransferTeach
    <3> QED  BY <3>1, <3>2
  <2>6. ASSUME NEW a \in Agents, NEW n \in Negotiations, TransferCompose(a, n)
        PROVE  AccessIsCovered'
    <3>1. CASE AgreementError(n, a) = None /\ store[n].mode = "compose"
      BY <2>6, <3>1, InForceIsCovered, CoveredReply DEF TransferCompose
    <3>2. CASE AgreementError(n, a) # None \/ store[n].mode # "compose"
      <4>1. PICK outcome : outcome \notin {"ok", "started"} /\ Reply("compose", a, n, outcome)
        BY <2>0, <2>6, <3>2 DEF TransferCompose
      <4> QED  BY <2>6, <4>1, CoveredReply DEF TransferCompose
    <3> QED  BY <3>1, <3>2
  <2>7. CASE UNCHANGED serverVars
    BY <2>7 DEF serverVars, transferVars, vars, AccessIsCovered, SoundRecord, IsParty,
                InWindow, LatestTerms
  <2> QED
    BY <2>1, <2>2, <2>3, <2>4, <2>5, <2>6, <2>7
    DEF ServerNext, Negotiate, Transfer, Register, RegisterSkill,
        RegisterTeachArtifact, Restart
<1> QED
  BY <1>1, <1>2, ServerAgreementsAreSound, PTL DEF ServerSpec
=============================================================================
