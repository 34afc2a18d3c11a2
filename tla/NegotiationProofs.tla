-------------------------- MODULE NegotiationProofs --------------------------
(***************************************************************************)
(* Theorems about Negotiation, for every set of agents, skills, terms and  *)
(* negotiations, every time to live and every bound.                       *)
(***************************************************************************)
EXTENDS Negotiation, TLAPS

(***************************************************************************)
(* The records the handlers build                                          *)
(***************************************************************************)

\* fsm.initial builds a record of the schema when the deadline does not overflow.
LEMMA InitialIsRecord ==
    ASSUME NEW a \in Agents, NEW s \in Skills, NEW m \in TransferModes,
           NEW t \in Terms, NEW ttl \in Ttls, now + ttl \in Dates
    PROVE  Initial(a, s, m, t, ttl) \in Records
<1>1. <<[terms |-> t, by |-> a]>> \in Seq(Proposals) \ {<<>>}
  BY DEF Proposals
<1> QED  BY <1>1 DEF Initial, Records, States

\* fsm._maybe_expire changes nothing but the state.
LEMMA MaybeExpireIsRecord ==
    ASSUME NEW r \in Records, NEW t \in Int
    PROVE  /\ MaybeExpire(r, t) \in Records
           /\ MaybeExpire(r, t).state \in States
BY DEF MaybeExpire, Records, States

\* The last proposal of a record is a proposal, since a record has one.
LEMMA LatestTermsIsTerms ==
    ASSUME NEW r \in Records
    PROVE  LatestTerms(r) \in Terms
<1>1. r.proposals \in Seq(Proposals) /\ r.proposals # <<>>
  BY DEF Records
<1>2. Len(r.proposals) \in 1 .. Len(r.proposals)
  BY <1>1
<1>3. r.proposals[Len(r.proposals)] \in Proposals
  BY <1>1, <1>2
<1> QED  BY <1>3 DEF LatestTerms, Proposals

\* fsm._counter_propose puts its terms last and keeps the rest.
LEMMA CounteredIsRecord ==
    ASSUME NEW r \in Records, NEW a \in Agents, NEW t \in Terms,
           NEW ttl \in Ttls, now + ttl \in Dates
    PROVE  /\ Countered(r, a, t, ttl) \in Records
           /\ LatestTerms(Countered(r, a, t, ttl)) = t
<1> DEFINE p == [terms |-> t, by |-> a]
<1>1. p \in Proposals /\ r.proposals \in Seq(Proposals)
  BY DEF Proposals, Records
<1>2. /\ Append(r.proposals, p) \in Seq(Proposals) \ {<<>>}
      /\ Append(r.proposals, p)[Len(Append(r.proposals, p))] = p
  BY <1>1
<1>4. Countered(r, a, t, ttl).proposals = Append(r.proposals, p)
  BY DEF Countered, Records
<1>5. LatestTerms(Countered(r, a, t, ttl)) = t
  BY <1>2, <1>4 DEF LatestTerms
<1>6. Countered(r, a, t, ttl) \in Records
  BY <1>2 DEF Countered, Records
<1> QED  BY <1>5, <1>6

\* fsm._build_agreement: the agreement of a record is one of the schema, binds
\* the last terms, and ends after it starts if the offer has not lapsed.
LEMMA BuildAgreementSound ==
    ASSUME NEW r \in Records, NEW at \in Dates, ValidUntil(r, at) \in Dates
    PROVE  /\ BuildAgreement(r, at) \in Agreements
           /\ BuildAgreement(r, at).terms = LatestTerms(r)
           /\ BuildAgreement(r, at).validFrom = at
           /\ at < r.expiresAt => at < BuildAgreement(r, at).validUntil
<1> DEFINE terms == LatestTerms(r)
<1>1. terms \in Terms
  BY LatestTermsIsTerms
<1>2. Lease[terms] # None => Lease[terms].ttl \in Nat \ {0}
  BY <1>1, ConstantsAssumption DEF LeaseTerms
<1>3. r.expiresAt \in Int /\ at \in Int
  BY ConstantsAssumption DEF Records
<1>4. Signer \in SUBSET Agents
  BY ConstantsAssumption DEF Signer
<1>5. BuildAgreement(r, at) =
        [terms |-> terms, validFrom |-> at, validUntil |-> ValidUntil(r, at),
         signers |-> Signer]
  BY DEF BuildAgreement
<1>6. at < r.expiresAt => at < ValidUntil(r, at)
  BY <1>2, <1>3 DEF ValidUntil
<1>7. BuildAgreement(r, at) \in Agreements
  BY <1>1, <1>4, <1>5 DEF Agreements
<1> QED  BY <1>5, <1>6, <1>7

\* A counter-proposal, a read or an acceptance leaves a record of the schema.
LEMMA AcceptedIsRecord ==
    ASSUME NEW r \in Records, NEW at \in Dates, ValidUntil(r, at) \in Dates
    PROVE  /\ Accepted(r, at) \in Records
           /\ Accepted(r, at).state = "AGREED"
           /\ Accepted(r, at).agreement = BuildAgreement(r, at)
           /\ Accepted(r, at).proposals = r.proposals
           /\ Accepted(r, at).expiresAt = r.expiresAt
<1> DEFINE g == BuildAgreement(r, at)
<1>1. g \in Agreements
  BY BuildAgreementSound
<1> HIDE DEF g
<1>2. Accepted(r, at) = [r EXCEPT !.state = "AGREED", !.agreement = g]
  BY DEF Accepted, g
<1>3. Accepted(r, at) \in Records
  BY <1>1, <1>2 DEF Records, States
<1> QED  BY <1>2, <1>3 DEF Records, g

(***************************************************************************)
(* What a step does to the store                                           *)
(***************************************************************************)

\* The records a handler may put for n: a new one, the lazily expired one, or
\* the successor of an offer that has not lapsed.  The last case is expire() on
\* an EXECUTING record, which the schema allows and no handler creates.
Successor(n, r) ==
    \/ /\ store[n] = None
       /\ \E a \in Agents, s \in Skills, m \in TransferModes, t \in Terms, ttl \in Ttls :
             /\ now + ttl =< MaxTime /\ now + ttl \in Dates
             /\ r = Initial(a, s, m, t, ttl)
    \/ store[n] # None /\ r = MaybeExpire(store[n], now)
    \/ /\ store[n] # None /\ store[n].state = "PROPOSED" /\ now < store[n].expiresAt
       /\ \/ \E a \in Agents, t \in Terms, ttl \in Ttls :
                /\ now + ttl =< MaxTime /\ now + ttl \in Dates
                /\ r = Countered(store[n], a, t, ttl)
          \/ ValidUntil(store[n], now) \in Dates /\ r = Accepted(store[n], now)
          \/ \E s \in {"REJECTED", "EXPIRED"} : r = [store[n] EXCEPT !.state = s]
    \/ /\ store[n] # None /\ store[n].state = "EXECUTING"
       /\ r = [store[n] EXCEPT !.state = "EXPIRED"]

\* A request is admitted by fsm.step only before its offer's deadline.
LEMMA PermitsMeansLive ==
    ASSUME NEW r \in Records, NEW t \in Int, NEW op, Permits(r, op, t)
    PROVE  \/ r.state = "PROPOSED" /\ t < r.expiresAt
           \/ op = "expire" /\ r.state = "EXECUTING"
BY ConstantsAssumption DEF Permits, MaybeExpire, AcceptedIn, TerminalStates, Records

\* Every step leaves the store alone or puts one successor at the same instant.
LEMMA StoreSteps ==
    ASSUME TypeOK, [Next]_vars
    PROVE  \/ UNCHANGED store
           \/ now' = now /\ \E n \in Negotiations : \E r : Put(n, r) /\ Successor(n, r)
<1> USE DEF Apply
<1>1. now \in Int /\ \A n \in Negotiations : store[n] # None => store[n] \in Records
  BY DEF TypeOK
<1>2. ASSUME NEW a \in Agents, NEW s \in Skills, NEW m \in TransferModes,
             NEW n \in Negotiations, NEW t \in Terms, NEW ttl \in Ttls,
             Propose(n, a, s, m, t, ttl)
      PROVE  now' = now /\ Put(n, Initial(a, s, m, t, ttl))
               /\ Successor(n, Initial(a, s, m, t, ttl))
  BY <1>2 DEF Propose, Successor
<1>3. ASSUME NEW n \in Negotiations, NEW a \in Agents, NEW t \in Terms,
             NEW ttl \in Ttls, CounterPropose(n, a, t, ttl)
      PROVE  now' = now /\ Put(n, Countered(store[n], a, t, ttl))
               /\ Successor(n, Countered(store[n], a, t, ttl))
  BY <1>1, <1>3, PermitsMeansLive DEF CounterPropose, Admits, Successor
<1>4. ASSUME NEW n \in Negotiations, NEW a \in Agents, Accept(n, a)
      PROVE  now' = now /\ Put(n, Accepted(store[n], now))
               /\ Successor(n, Accepted(store[n], now))
  BY <1>1, <1>4, PermitsMeansLive DEF Accept, Admits, Successor
<1>5. ASSUME NEW n \in Negotiations, NEW a \in Agents, Reject(n, a)
      PROVE  now' = now /\ Put(n, [store[n] EXCEPT !.state = "REJECTED"])
               /\ Successor(n, [store[n] EXCEPT !.state = "REJECTED"])
  BY <1>1, <1>5, PermitsMeansLive DEF Reject, Admits, Successor
<1>6. ASSUME NEW n \in Negotiations, NEW a \in Agents, NEW op, RequestFails(n, a, op)
      PROVE  \/ UNCHANGED store
             \/ now' = now /\ Put(n, MaybeExpire(store[n], now))
                  /\ Successor(n, MaybeExpire(store[n], now))
  BY <1>6 DEF RequestFails, Refused, TooLate, DeadlineOverflows, Refresh, Successor
<1>7. ASSUME NEW n \in Negotiations, Get(n)
      PROVE  \/ UNCHANGED store
             \/ now' = now /\ Put(n, MaybeExpire(store[n], now))
                  /\ Successor(n, MaybeExpire(store[n], now))
  BY <1>7 DEF Get, Refresh, Successor
<1>8. ASSUME NEW n \in Negotiations, Expire(n)
      PROVE  \/ UNCHANGED store
             \/ now' = now /\ Put(n, [store[n] EXCEPT !.state = "EXPIRED"])
                  /\ Successor(n, [store[n] EXCEPT !.state = "EXPIRED"])
  BY <1>1, <1>8, PermitsMeansLive DEF Expire, Successor
<1>9. ASSUME \/ Tick \/ StepBack \/ UNCHANGED vars
             \/ \E a \in Agents, s \in Skills, m \in TransferModes : ProposeFails(a, s, m)
      PROVE  UNCHANGED store
  BY <1>9 DEF Tick, StepBack, ProposeFails, ProposeRefused, ProposeOverflows, vars
<1> HIDE DEF Apply
<1> QED
  BY <1>2, <1>3, <1>4, <1>5, <1>6, <1>7, <1>8, <1>9 DEF Next, Request, Local

\* A successor is a record of the schema.
LEMMA SuccessorIsRecord ==
    ASSUME TypeOK, NEW n \in Negotiations, NEW r, Successor(n, r)
    PROVE  r \in Records
<1>1. now \in Dates /\ now \in Int /\ (store[n] # None => store[n] \in Records)
  BY ConstantsAssumption DEF TypeOK
<1>2. ASSUME NEW rec \in Records, NEW s \in {"REJECTED", "EXPIRED"}
      PROVE  [rec EXCEPT !.state = s] \in Records
  BY DEF Records, States
<1>3. CASE store[n] = None
  BY <1>3, <1>1, InitialIsRecord DEF Successor
<1>4. CASE store[n] # None /\ r = MaybeExpire(store[n], now)
  BY <1>4, <1>1, MaybeExpireIsRecord
<1>5. ASSUME store[n] # None, NEW a \in Agents, NEW t \in Terms, NEW ttl \in Ttls,
             now + ttl \in Dates, r = Countered(store[n], a, t, ttl)
      PROVE  r \in Records
  BY <1>5, <1>1, CounteredIsRecord
<1>6. CASE /\ store[n] # None /\ ValidUntil(store[n], now) \in Dates
           /\ r = Accepted(store[n], now)
  BY <1>6, <1>1, AcceptedIsRecord
<1>7. CASE store[n] # None
             /\ \E s \in {"REJECTED", "EXPIRED"} : r = [store[n] EXCEPT !.state = s]
  BY <1>7, <1>1, <1>2
<1> QED  BY <1>3, <1>4, <1>5, <1>6, <1>7 DEF Successor

(***************************************************************************)
(* Type correctness                                                        *)
(***************************************************************************)

\* Appending a logged transition to one log keeps every log a log.
LEMMA LogType ==
    ASSUME audit \in [Negotiations -> Seq(Transitions)], NEW n \in Negotiations,
           NEW from \in States \cup {None}, NEW to \in States, Log(n, from, to)
    PROVE  audit' \in [Negotiations -> Seq(Transitions)]
<1>1. [from |-> from, to |-> to] \in Transitions
  BY DEF Transitions
<1>2. Append(audit[n], [from |-> from, to |-> to]) \in Seq(Transitions)
  BY <1>1
<1> QED  BY <1>2 DEF Log

\* The clock is moved by Tick and StepBack alone.
LEMMA ClockSteps ==
    ASSUME [Next]_vars
    PROVE  now' = now \/ Tick \/ StepBack
<1>1. ASSUME NEW n, NEW a, NEW op, RequestFails(n, a, op)
      PROVE  now' = now
  BY <1>1 DEF RequestFails, Refused, TooLate, DeadlineOverflows
<1>2. ASSUME NEW n, NEW a,
             \/ \E t \in Terms, ttl \in Ttls : CounterPropose(n, a, t, ttl)
             \/ Accept(n, a)
             \/ Reject(n, a)
      PROVE  now' = now
  BY <1>2 DEF CounterPropose, Accept, Reject, Apply
<1>3. ASSUME NEW a, NEW s, NEW m,
             \/ ProposeFails(a, s, m)
             \/ \E n \in Negotiations, t \in Terms, ttl \in Ttls :
                   Propose(n, a, s, m, t, ttl)
      PROVE  now' = now
  BY <1>3 DEF ProposeFails, ProposeRefused, ProposeOverflows, Propose
<1>4. ASSUME NEW n, Get(n) \/ Expire(n)
      PROVE  now' = now
  BY <1>4 DEF Get, Expire, Apply
<1>5. CASE Request
  BY <1>1, <1>2, <1>3, <1>5 DEF Request
<1>6. CASE Local
  BY <1>4, <1>6 DEF Local
<1>7. CASE UNCHANGED vars
  BY <1>7 DEF vars
<1> QED  BY <1>5, <1>6, <1>7 DEF Next

\* The clock stays within its bound.
LEMMA ClockType ==
    ASSUME TypeOK, [Next]_vars
    PROVE  now' \in 0 .. MaxTime
<1>1. CASE Tick
  BY <1>1, ConstantsAssumption DEF Tick, TypeOK
<1>2. CASE StepBack
  BY <1>2 DEF StepBack, TypeOK
<1>3. CASE now' = now
  BY <1>3 DEF TypeOK
<1> QED  BY <1>1, <1>2, <1>3, ClockSteps

\* Only the store keeps the records of the schema.
LEMMA StoreType ==
    ASSUME TypeOK, [Next]_vars
    PROVE  store' \in [Negotiations -> Records \cup {None}]
<1>1. store \in [Negotiations -> Records \cup {None}]
  BY DEF TypeOK
<1>2. ASSUME NEW n \in Negotiations, NEW r, Put(n, r), Successor(n, r)
      PROVE  store' \in [Negotiations -> Records \cup {None}]
  BY <1>1, <1>2, SuccessorIsRecord DEF Put
<1> QED  BY <1>1, <1>2, StoreSteps

\* Log and answer of one applied transition.
LEMMA ApplyType ==
    ASSUME TypeOK, NEW n \in Negotiations, NEW a \in Agents,
           NEW op \in {"counter_propose", "accept", "reject", "expire"},
           NEW r \in Records, store[n] # None, Apply(n, a, op, r)
    PROVE  audit' \in [Negotiations -> Seq(Transitions)] /\ answer' \in Answers
<1>1. store[n].state \in States /\ r.state \in States
  BY DEF TypeOK, Records
<1>2. audit' \in [Negotiations -> Seq(Transitions)]
  BY <1>1, LogType DEF Apply, TypeOK
<1>3. answer' \in Answers
  BY <1>1 DEF Apply, Answer, Answers
<1> QED  BY <1>2, <1>3

\* The log and the answer of every handler.
LEMMA OutputType ==
    ASSUME TypeOK, [Next]_vars
    PROVE  /\ audit' \in [Negotiations -> Seq(Transitions)]
           /\ answer' \in Answers \cup {None}
<1>0. /\ now \in Dates /\ now \in Int
      /\ audit \in [Negotiations -> Seq(Transitions)]
      /\ answer \in Answers \cup {None}
      /\ \A n \in Negotiations : store[n] # None => store[n] \in Records
  BY ConstantsAssumption DEF TypeOK
<1>1. ASSUME NEW a \in Agents, NEW s \in Skills, NEW m \in TransferModes,
             NEW n \in Negotiations, NEW t \in Terms, NEW ttl \in Ttls,
             Propose(n, a, s, m, t, ttl)
      PROVE  audit' \in [Negotiations -> Seq(Transitions)] /\ answer' \in Answers
  <2>1. audit' \in [Negotiations -> Seq(Transitions)]
    BY <1>0, <1>1, LogType DEF Propose, States
  <2> QED  BY <1>1, <2>1 DEF Propose, Answer, Answers, States
<1>2. ASSUME NEW n \in Negotiations, NEW a \in Agents, NEW t \in Terms,
             NEW ttl \in Ttls, CounterPropose(n, a, t, ttl)
      PROVE  audit' \in [Negotiations -> Seq(Transitions)] /\ answer' \in Answers
  BY <1>0, <1>2, CounteredIsRecord, ApplyType DEF CounterPropose, Admits
<1>3. ASSUME NEW n \in Negotiations, NEW a \in Agents, Accept(n, a)
      PROVE  audit' \in [Negotiations -> Seq(Transitions)] /\ answer' \in Answers
  BY <1>0, <1>3, AcceptedIsRecord, ApplyType DEF Accept, Admits
<1>4. ASSUME NEW rec \in Records, NEW s \in {"REJECTED", "EXPIRED"}
      PROVE  [rec EXCEPT !.state = s] \in Records
  BY DEF Records, States
<1>5. ASSUME NEW n \in Negotiations, NEW a \in Agents, Reject(n, a)
      PROVE  audit' \in [Negotiations -> Seq(Transitions)] /\ answer' \in Answers
  BY <1>0, <1>4, <1>5, ApplyType DEF Reject, Admits
<1>6. ASSUME NEW n \in Negotiations, NEW a \in Agents,
             NEW op \in {"counter_propose", "accept", "reject"}, RequestFails(n, a, op)
      PROVE  audit' = audit /\ answer' \in Answers
  <2>1. CASE Refused(n, a, op)
    BY <2>1 DEF Refused, Answer, Answers, Errors
  <2>2. CASE TooLate(n, a, op)
    BY <1>0, <2>2, MaybeExpireIsRecord DEF TooLate, Answer, Answers, Errors
  <2>3. CASE DeadlineOverflows(n, a, op)
    BY <2>3 DEF DeadlineOverflows, Answer, Answers, Errors
  <2> QED  BY <1>6, <2>1, <2>2, <2>3 DEF RequestFails
<1>7. ASSUME NEW n \in Negotiations, Get(n)
      PROVE  audit' = audit /\ answer' \in Answers
  BY <1>0, <1>7, MaybeExpireIsRecord DEF Get, Answer, Answers, Errors
<1>8. ASSUME NEW n \in Negotiations, Expire(n)
      PROVE  audit' \in [Negotiations -> Seq(Transitions)] /\ answer' \in Answers
  <2>1. CASE store[n] # None /\ Permits(store[n], "expire", now)
    BY <1>0, <1>4, <1>8, <2>1, ApplyType, ConstantsAssumption DEF Expire
  <2>2. CASE ~ (store[n] # None /\ Permits(store[n], "expire", now))
    <3>1. store[n] # None => MaybeExpire(store[n], now).state \in States
      BY <1>0, MaybeExpireIsRecord
    <3> QED
      BY <1>0, <1>8, <2>2, <3>1, ConstantsAssumption DEF Expire, Answer, Answers, Errors
  <2> QED  BY <2>1, <2>2
<1>9. ASSUME \/ Tick \/ StepBack \/ UNCHANGED vars
             \/ \E a \in Agents, s \in Skills, m \in TransferModes : ProposeFails(a, s, m)
      PROVE  audit' = audit /\ answer' \in Answers \cup {None}
  BY <1>0, <1>9
  DEF Tick, StepBack, vars, ProposeFails, ProposeRefused, ProposeOverflows, Answer,
      Answers, Errors
<1> QED
  BY <1>0, <1>1, <1>2, <1>3, <1>5, <1>6, <1>7, <1>8, <1>9 DEF Next, Request, Local

\* A step of the coordinator keeps the types.
LEMMA TypeStep == TypeOK /\ [Next]_vars => TypeOK'
BY ClockType, StoreType, OutputType DEF TypeOK

\* In every reachable state the variables hold what the schema and the store can
\* represent; in particular no record ever loses its last proposal.
THEOREM TypeCorrect == Spec => []TypeOK
<1>1. Init => TypeOK
  BY ConstantsAssumption DEF Init, TypeOK
<1> QED  BY <1>1, TypeStep, PTL DEF Spec

(***************************************************************************)
(* Agreements                                                              *)
(***************************************************************************)

\* A handler turns sound records into sound records.
LEMMA SuccessorIsSound ==
    ASSUME TypeOK, AgreementSound, NEW n \in Negotiations, NEW r, Successor(n, r)
    PROVE  SoundRecord(r)
<1>1. now \in Dates /\ now \in Int
        /\ (store[n] # None => store[n] \in Records /\ SoundRecord(store[n]))
  BY ConstantsAssumption DEF TypeOK, AgreementSound, Exists
<1>2. ASSUME NEW rec \in Records, NEW s \in {"REJECTED", "EXPIRED"},
             rec.state # "AGREED", SoundRecord(rec)
      PROVE  SoundRecord([rec EXCEPT !.state = s])
  BY <1>2 DEF SoundRecord, Records, LatestTerms
<1>3. CASE \E a \in Agents, s \in Skills, m \in TransferModes, t \in Terms, ttl \in Ttls :
             r = Initial(a, s, m, t, ttl)
  BY <1>3 DEF Initial, SoundRecord
<1>4. CASE store[n] # None /\ r = MaybeExpire(store[n], now)
  BY <1>1, <1>2, <1>4 DEF MaybeExpire
<1>5. ASSUME store[n] # None, store[n].state = "PROPOSED",
             NEW a \in Agents, NEW t \in Terms, NEW ttl \in Ttls,
             r = Countered(store[n], a, t, ttl)
      PROVE  SoundRecord(r)
  <2>1. store[n].agreement = None
    BY <1>1, <1>5 DEF SoundRecord
  <2>2. r.agreement = store[n].agreement /\ r.state = store[n].state
    BY <1>1, <1>5 DEF Countered, Records
  <2> QED  BY <1>5, <2>1, <2>2 DEF SoundRecord
<1>6. CASE /\ store[n] # None /\ now < store[n].expiresAt
           /\ ValidUntil(store[n], now) \in Dates /\ r = Accepted(store[n], now)
  <2> DEFINE g == BuildAgreement(store[n], now)
  <2>1. /\ r.state = "AGREED" /\ r.agreement = g
        /\ r.proposals = store[n].proposals /\ r.expiresAt = store[n].expiresAt
    BY <1>1, <1>6, AcceptedIsRecord
  <2>2. /\ g \in Agreements /\ g.terms = LatestTerms(store[n])
        /\ g.validFrom = now /\ now < g.validUntil
    BY <1>1, <1>6, BuildAgreementSound
  <2>3. LatestTerms(r) = LatestTerms(store[n])
    BY <2>1 DEF LatestTerms
  <2> HIDE DEF g
  <2> QED  BY <1>6, <2>1, <2>2, <2>3, NoneAssumption DEF SoundRecord
<1>7. CASE store[n] # None /\ store[n].state \in {"PROPOSED", "EXECUTING"}
             /\ \E s \in {"REJECTED", "EXPIRED"} : r = [store[n] EXCEPT !.state = s]
  BY <1>1, <1>2, <1>7
<1> QED  BY <1>3, <1>4, <1>5, <1>6, <1>7 DEF Successor

\* A step of the coordinator keeps every agreement sound.
LEMMA SoundStep == TypeOK /\ AgreementSound /\ [Next]_vars => AgreementSound'
<1> SUFFICES ASSUME TypeOK, AgreementSound, [Next]_vars
             PROVE  AgreementSound'
  OBVIOUS
<1>1. CASE UNCHANGED store
  BY <1>1 DEF AgreementSound, Exists
<1>2. ASSUME NEW n \in Negotiations, NEW r, Put(n, r), Successor(n, r)
      PROVE  AgreementSound'
  <2>1. SoundRecord(r)
    BY <1>2, SuccessorIsSound
  <2>2. \A m \in Negotiations : store'[m] = IF m = n THEN r ELSE store[m]
    BY <1>2 DEF Put, TypeOK
  <2> QED  BY <2>1, <2>2 DEF AgreementSound, Exists
<1> QED  BY <1>1, <1>2, StoreSteps

\* Every agreement the server ever holds binds the terms last on the table, was
\* struck before they lapsed and can be used; no other state carries one.
THEOREM AgreementsAreSound == Spec => []AgreementSound
<1>1. Init => AgreementSound
  BY DEF Init, AgreementSound, Exists
<1> QED  BY <1>1, SoundStep, TypeCorrect, PTL DEF Spec

\* A handler finds no successor for a settled record but the record itself.
LEMMA SettledHasNoSuccessor ==
    ASSUME NEW n, NEW r, Successor(n, r), store[n] # None, store[n].state \in Settled
    PROVE  r = store[n]
BY DEF Successor, MaybeExpire, Settled, TerminalStates

\* No step of any actor, and no setting of the clock, changes an agreed,
\* rejected or expired record.
THEOREM SettledRecordsAreFinal == Spec => SettledIsFinal
<1> DEFINE Final == \A n \in Negotiations :
             Exists(n) /\ store[n].state \in Settled => store'[n] = store[n]
<1>1. TypeOK /\ [Next]_vars => Final
  <2> SUFFICES ASSUME TypeOK, [Next]_vars PROVE Final
    OBVIOUS
  <2>1. ASSUME NEW n \in Negotiations, NEW r, Put(n, r), Successor(n, r)
        PROVE  Final
    <3>1. store[n] # None /\ store[n].state \in Settled => r = store[n]
      BY <2>1, SettledHasNoSuccessor
    <3>2. \A m \in Negotiations : store'[m] = IF m = n THEN r ELSE store[m]
      BY <2>1 DEF Put, TypeOK
    <3> QED  BY <3>1, <3>2 DEF Exists
  <2> QED  BY <2>1, StoreSteps
<1> QED  BY <1>1, TypeCorrect, PTL DEF Spec, SettledIsFinal

(***************************************************************************)
(* Callers, answers and the log                                            *)
(***************************************************************************)

\* coordinator._authorized_record: a stranger's request moves nothing.
THEOREM StrangersMoveNothing == Spec => OnlyPartiesMoveIt
<1> DEFINE Party == \A n \in Negotiations :
             Exists(n) /\ store'[n] # store[n] =>
                \/ answer'.by \in {store[n].initiator, Provider}
                \/ answer'.op = "get" /\ store'[n].state = "EXPIRED"
<1>1. TypeOK /\ [Next]_vars => Party
  <2> SUFFICES ASSUME TypeOK, [Next]_vars PROVE Party
    OBVIOUS
  <2> USE DEF Answer, Put, Exists, IsParty
  <2>0. /\ store \in [Negotiations -> Records \cup {None}]
        /\ \A n \in Negotiations : store[n] # None => store[n] \in Records
    BY DEF TypeOK
  <2>1. ASSUME NEW a \in Agents, NEW s \in Skills, NEW m \in TransferModes,
               NEW n \in Negotiations, NEW t \in Terms, NEW ttl \in Ttls,
               Propose(n, a, s, m, t, ttl)
        PROVE  Party
    BY <2>0, <2>1 DEF Propose
  <2>2. ASSUME NEW n \in Negotiations, NEW a \in Agents, NEW op, NEW r,
               Admits(n, a, op), Apply(n, a, op, r)
        PROVE  Party
    BY <2>0, <2>2 DEF Admits, Apply
  <2>3. ASSUME NEW n \in Negotiations, NEW a \in Agents, NEW op, RequestFails(n, a, op)
        PROVE  Party
    BY <2>0, <2>3 DEF RequestFails, Refused, TooLate, DeadlineOverflows, Refresh
  <2>4. ASSUME NEW n \in Negotiations, Get(n)
        PROVE  Party
    <3>1. \A m \in Negotiations : m # n => store'[m] = store[m]
      BY <2>0, <2>4 DEF Get, Refresh
    <3>2. store'[n] # store[n] => answer'.op = "get" /\ store'[n].state = "EXPIRED"
      <4>1. CASE store[n] = None
        BY <2>4, <4>1 DEF Get
      <4>2. CASE store[n] # None
        <5>1. store'[n] = MaybeExpire(store[n], now) /\ answer'.op = "get"
          BY <2>0, <2>4, <4>2 DEF Get, Refresh
        <5>2. MaybeExpire(store[n], now) # store[n]
                => MaybeExpire(store[n], now).state = "EXPIRED"
          BY <2>0, <4>2 DEF MaybeExpire, Records
        <5> QED  BY <5>1, <5>2
      <4> QED  BY <4>1, <4>2
    <3> QED  BY <3>1, <3>2
  <2>5. ASSUME NEW n \in Negotiations, Expire(n)
        PROVE  Party
    BY <2>0, <2>5 DEF Expire, Apply
  <2>6. ASSUME \/ Tick \/ StepBack \/ UNCHANGED vars
               \/ \E a \in Agents, s \in Skills, m \in TransferModes : ProposeFails(a, s, m)
        PROVE  Party
    BY <2>6 DEF Tick, StepBack, vars, ProposeFails, ProposeRefused, ProposeOverflows
  <2> QED
    BY <2>1, <2>2, <2>3, <2>4, <2>5, <2>6
    DEF Next, Request, Local, CounterPropose, Accept, Reject
<1> QED  BY <1>1, TypeCorrect, PTL DEF Spec, OnlyPartiesMoveIt

\* coordinator._refresh stores an expiry before anybody is told of it: what a
\* party was told is final is what the store holds.
THEOREM AnswersAreStored == Spec => []ToldIsStored
<1>1. Init => ToldIsStored
  BY DEF Init, ToldIsStored
<1>2. TypeOK /\ ToldIsStored /\ [Next]_vars => ToldIsStored'
  <2> SUFFICES ASSUME TypeOK, ToldIsStored, [Next]_vars PROVE ToldIsStored'
    OBVIOUS
  <2> USE DEF Answer, Put
  <2>0. /\ store \in [Negotiations -> Records \cup {None}]
        /\ None \notin Settled
    BY NoneAssumption DEF TypeOK, Settled, TerminalStates, States
  <2>1. ASSUME NEW a \in Agents, NEW s \in Skills, NEW m \in TransferModes,
               NEW n \in Negotiations, NEW t \in Terms, NEW ttl \in Ttls,
               Propose(n, a, s, m, t, ttl)
        PROVE  ToldIsStored'
    BY <2>1 DEF Propose, ToldIsStored, Settled, TerminalStates
  <2>2. ASSUME NEW n \in Negotiations, NEW a \in Agents, NEW op, NEW r,
               Apply(n, a, op, r)
        PROVE  ToldIsStored'
    BY <2>0, <2>2 DEF Apply, ToldIsStored
  <2>3. ASSUME NEW n \in Negotiations, NEW a \in Agents, NEW op, RequestFails(n, a, op)
        PROVE  ToldIsStored'
    BY <2>0, <2>3 DEF RequestFails, Refused, TooLate, DeadlineOverflows, Refresh, ToldIsStored
  <2>4. ASSUME NEW n \in Negotiations, Get(n)
        PROVE  ToldIsStored'
    BY <2>0, <2>4 DEF Get, Refresh, ToldIsStored
  <2>5. ASSUME NEW n \in Negotiations, Expire(n)
        PROVE  ToldIsStored'
    BY <2>0, <2>5 DEF Expire, Apply, ToldIsStored
  <2>6. ASSUME \/ Tick \/ StepBack \/ UNCHANGED vars
               \/ \E a \in Agents, s \in Skills, m \in TransferModes : ProposeFails(a, s, m)
        PROVE  ToldIsStored'
    BY <2>0, <2>6
    DEF Tick, StepBack, vars, ProposeFails, ProposeRefused, ProposeOverflows, ToldIsStored
  <2> QED
    BY <2>1, <2>2, <2>3, <2>4, <2>5, <2>6
    DEF Next, Request, Local, CounterPropose, Accept, Reject
<1> QED  BY <1>1, <1>2, TypeCorrect, PTL DEF Spec

\* A chain that ends in a live state can be continued from that state.
LEMMA ChainGrows ==
    ASSUME NEW log \in Seq(Transitions), NEW r \in Records, NEW new \in Records,
           Chain(log, r), r.state # "EXPIRED"
    PROVE  Chain(Append(log, [from |-> r.state, to |-> new.state]), new)
<1> DEFINE e == [from |-> r.state, to |-> new.state]
           longer == Append(log, e)
<1>1. e \in Transitions
  BY DEF Transitions, Records
<1>2. /\ Len(longer) = Len(log) + 1 /\ longer[Len(longer)] = e
      /\ \A i \in 1 .. Len(log) : longer[i] = log[i]
  BY <1>1
<1>3. Len(log) \in Nat \ {0} /\ log[Len(log)].to = r.state
  BY DEF Chain
<1> HIDE DEF longer
<1>4. longer # <<>> /\ longer[1].from = None
  BY <1>2, <1>3 DEF Chain
<1>5. \A i \in 2 .. Len(longer) : longer[i].from = longer[i - 1].to
  <2> SUFFICES ASSUME NEW i \in 2 .. Len(longer)
               PROVE  longer[i].from = longer[i - 1].to
    OBVIOUS
  <2>1. CASE i = Len(longer)
    BY <1>2, <1>3, <2>1
  <2>2. CASE i # Len(longer)
    <3>1. i \in 2 .. Len(log) /\ i \in 1 .. Len(log) /\ i - 1 \in 1 .. Len(log)
      BY <1>2, <1>3, <2>2
    <3> QED  BY <1>2, <3>1 DEF Chain
  <2> QED  BY <2>1, <2>2
<1> QED  BY <1>2, <1>4, <1>5 DEF Chain, longer

\* A lazy expiry does not break the chain although it is not logged.
LEMMA ChainSurvivesExpiry ==
    ASSUME NEW log, NEW r \in Records, NEW t \in Int, Chain(log, r)
    PROVE  Chain(log, MaybeExpire(r, t))
BY DEF Chain, MaybeExpire, Records

\* coordinator._apply_and_store: whatever the order of requests, reads, janitor
\* calls and clock changes, the log of a negotiation is one chain.
THEOREM LogsAreChains == Spec => []AuditTrail
<1>1. Init => AuditTrail
  BY DEF Init, AuditTrail, Exists
<1>2. TypeOK /\ AuditTrail /\ [Next]_vars => AuditTrail'
  <2> SUFFICES ASSUME TypeOK, AuditTrail, [Next]_vars PROVE AuditTrail'
    OBVIOUS
  <2> USE DEF Put, Exists
  <2>0. /\ now \in Dates /\ now \in Int
        /\ store \in [Negotiations -> Records \cup {None}]
        /\ audit \in [Negotiations -> Seq(Transitions)]
        /\ \A n \in Negotiations : store[n] # None => store[n] \in Records
    BY ConstantsAssumption DEF TypeOK
  \* One negotiation changes; its own chain is all there is to show.
  <2>1. ASSUME NEW n \in Negotiations, NEW r, r # None, Put(n, r),
               NEW log, audit' = [audit EXCEPT ![n] = log], Chain(log, r)
        PROVE  AuditTrail'
    <3>1. \A m \in Negotiations : /\ store'[m] = IF m = n THEN r ELSE store[m]
                                  /\ audit'[m] = IF m = n THEN log ELSE audit[m]
      BY <2>0, <2>1
    <3> QED  BY <2>1, <3>1 DEF AuditTrail
  <2>2. ASSUME NEW a \in Agents, NEW s \in Skills, NEW m \in TransferModes,
               NEW n \in Negotiations, NEW t \in Terms, NEW ttl \in Ttls,
               Propose(n, a, s, m, t, ttl)
        PROVE  AuditTrail'
    <3> DEFINE r == Initial(a, s, m, t, ttl)
               e == [from |-> None, to |-> "PROPOSED"]
    <3>1. r \in Records /\ r # None /\ r.state = "PROPOSED"
      BY <2>2, InitialIsRecord, NoneAssumption DEF Initial, Propose
    <3>2. audit[n] = <<>>
      BY <2>2 DEF Propose, AuditTrail
    <3>3. Append(audit[n], e) = <<e>>
      BY <3>2
    <3>4. Chain(<<e>>, r)
      BY <3>1 DEF Chain
    <3>5. Put(n, r) /\ audit' = [audit EXCEPT ![n] = <<e>>]
      BY <2>2, <3>3 DEF Propose, Log
    <3> HIDE DEF r, e
    <3> QED  BY <2>1, <3>1, <3>4, <3>5
  <2>3. ASSUME NEW n \in Negotiations, NEW a \in Agents, NEW op, NEW r \in Records,
               store[n] # None, Permits(store[n], op, now), Apply(n, a, op, r)
        PROVE  AuditTrail'
    <3>1. store[n] \in Records /\ store[n].state # "EXPIRED" /\ r # None
      BY <2>0, <2>3, PermitsMeansLive, NoneAssumption
    <3>2. audit[n] \in Seq(Transitions) /\ Chain(audit[n], store[n])
      BY <2>0, <2>3 DEF AuditTrail
    <3>3. Chain(Append(audit[n], [from |-> store[n].state, to |-> r.state]), r)
      BY <3>1, <3>2, ChainGrows
    <3> QED  BY <2>1, <2>3, <3>1, <3>3 DEF Apply, Log
  <2>4. ASSUME NEW n \in Negotiations, store[n] # None, Refresh(n), audit' = audit
        PROVE  AuditTrail'
    <3>1. /\ MaybeExpire(store[n], now) # None
          /\ Chain(audit[n], MaybeExpire(store[n], now))
      BY <2>0, <2>4, ChainSurvivesExpiry, MaybeExpireIsRecord, NoneAssumption
      DEF AuditTrail
    <3>2. audit' = [audit EXCEPT ![n] = audit[n]]
      BY <2>0, <2>4
    <3> QED  BY <2>1, <2>4, <3>1, <3>2 DEF Refresh
  <2>5. CASE UNCHANGED <<store, audit>>
    BY <2>5 DEF AuditTrail
  <2>6. ASSUME NEW n \in Negotiations, NEW a \in Agents, NEW t \in Terms,
               NEW ttl \in Ttls, CounterPropose(n, a, t, ttl)
        PROVE  AuditTrail'
    BY <2>0, <2>3, <2>6, CounteredIsRecord DEF CounterPropose, Admits
  <2>7. ASSUME NEW n \in Negotiations, NEW a \in Agents, Accept(n, a)
        PROVE  AuditTrail'
    BY <2>0, <2>3, <2>7, AcceptedIsRecord DEF Accept, Admits
  <2>8. ASSUME NEW rec \in Records, NEW s \in {"REJECTED", "EXPIRED"}
        PROVE  [rec EXCEPT !.state = s] \in Records
    BY DEF Records, States
  <2>9. ASSUME NEW n \in Negotiations, NEW a \in Agents, Reject(n, a)
        PROVE  AuditTrail'
    BY <2>0, <2>3, <2>8, <2>9 DEF Reject, Admits
  <2>10. ASSUME NEW n \in Negotiations, NEW a \in Agents, NEW op, RequestFails(n, a, op)
         PROVE  AuditTrail'
    BY <2>4, <2>5, <2>10 DEF RequestFails, Refused, TooLate, DeadlineOverflows
  <2>11. ASSUME NEW n \in Negotiations, Get(n)
         PROVE  AuditTrail'
    BY <2>4, <2>5, <2>11 DEF Get
  <2>12. ASSUME NEW n \in Negotiations, Expire(n)
         PROVE  AuditTrail'
    BY <2>0, <2>3, <2>5, <2>8, <2>12, ConstantsAssumption DEF Expire
  <2>13. ASSUME \/ Tick \/ StepBack \/ UNCHANGED vars
                \/ \E a \in Agents, s \in Skills, m \in TransferModes : ProposeFails(a, s, m)
         PROVE  AuditTrail'
    BY <2>5, <2>13 DEF Tick, StepBack, vars, ProposeFails, ProposeRefused, ProposeOverflows
  <2> QED
    BY <2>2, <2>6, <2>7, <2>9, <2>10, <2>11, <2>12, <2>13 DEF Next, Request, Local
<1> QED  BY <1>1, <1>2, TypeCorrect, PTL DEF Spec

(***************************************************************************)
(* The janitor                                                             *)
(***************************************************************************)
\* After coordinator.expire, whether it returned or raised, nobody is shown the
\* negotiation as open any more.
JanitorCloses ==
    answer # None /\ answer.op = "expire" => ~ Live(answer.neg)

\* What is left of "force a negotiation through timeout", which the code does not do
\* to the letter: a record past its deadline stays PROPOSED in the store when step()
\* raises, and every read still finds it expired.
THEOREM JanitorsClose == Spec => []JanitorCloses
<1>1. Init => JanitorCloses
  BY DEF Init, JanitorCloses
<1>2. TypeOK /\ JanitorCloses /\ [Next]_vars => JanitorCloses'
  <2> SUFFICES ASSUME TypeOK, JanitorCloses, [Next]_vars PROVE JanitorCloses'
    OBVIOUS
  <2>1. ASSUME NEW n \in Negotiations, Expire(n)
        PROVE  JanitorCloses'
    <3>1. answer'.neg = n /\ now' = now
      BY <2>1 DEF Expire, Apply, Answer
    <3>2. CASE store[n] # None /\ Put(n, [store[n] EXCEPT !.state = "EXPIRED"])
      <4>1. store[n] \in Records /\ store'[n] = [store[n] EXCEPT !.state = "EXPIRED"]
        BY <3>2 DEF Put, TypeOK
      <4>2. store'[n].state = "EXPIRED"
        BY <4>1 DEF Records
      <4> QED  BY <3>1, <4>2 DEF JanitorCloses, Live, MaybeExpire
    <3>3. CASE UNCHANGED store /\ (store[n] = None \/ ~ Permits(store[n], "expire", now))
      <4>1. ~ Live(n)
        BY <3>3 DEF Live, Exists, Permits, AcceptedIn, TerminalStates
      <4> QED  BY <3>1, <3>3, <4>1 DEF JanitorCloses, Live, Exists
    <3> QED  BY <2>1, <3>2, <3>3 DEF Expire, Apply
  <2>2. CASE UNCHANGED vars
    BY <2>2 DEF vars, JanitorCloses, Live, Exists
  <2>3. CASE answer' = None
    BY <2>3 DEF JanitorCloses
  <2>4. ASSUME NEW n, NEW a, NEW op \in {"counter_propose", "accept", "reject"},
               RequestFails(n, a, op)
        PROVE  JanitorCloses'
    <3>1. answer'.op = op
      BY <2>4 DEF RequestFails, Refused, TooLate, DeadlineOverflows, Answer
    <3> QED  BY <3>1 DEF JanitorCloses
  <2>5. ASSUME NEW n, NEW a, \/ Accept(n, a) \/ Reject(n, a) \/ Get(n)
                             \/ \E t \in Terms, ttl \in Ttls : CounterPropose(n, a, t, ttl)
        PROVE  JanitorCloses'
    <3>1. answer'.op # "expire"
      BY <2>5 DEF Accept, Reject, Get, CounterPropose, Apply, Answer
    <3> QED  BY <3>1 DEF JanitorCloses
  <2>6. ASSUME NEW a, NEW s, NEW m,
               \/ ProposeFails(a, s, m)
               \/ \E n \in Negotiations, t \in Terms, ttl \in Ttls : Propose(n, a, s, m, t, ttl)
        PROVE  JanitorCloses'
    <3>1. answer'.op = "propose"
      BY <2>6 DEF Propose, ProposeFails, ProposeRefused, ProposeOverflows, Answer
    <3> QED  BY <3>1 DEF JanitorCloses
  <2> QED
    BY <2>1, <2>2, <2>3, <2>4, <2>5, <2>6 DEF Next, Request, Local, Tick, StepBack
<1> QED  BY <1>1, <1>2, TypeCorrect, PTL DEF Spec

(***************************************************************************)
(* Offers lapse                                                            *)
(***************************************************************************)
\* The bound on the clock is one on the deadlines too.
DeadlinesInTime == \A n \in Negotiations : Exists(n) => store[n].expiresAt =< MaxTime

\* A handler sets a deadline within the time there is, or leaves it alone.
LEMMA SuccessorInTime ==
    ASSUME TypeOK, DeadlinesInTime, NEW n \in Negotiations, NEW r, Successor(n, r)
    PROVE  r.expiresAt =< MaxTime
<1>1. now \in Dates /\ (store[n] # None => store[n] \in Records)
  BY ConstantsAssumption DEF TypeOK
<1>2. store[n] # None => store[n].expiresAt =< MaxTime
  BY DEF DeadlinesInTime, Exists
<1>3. ASSUME NEW a \in Agents, NEW s \in Skills, NEW m \in TransferModes,
             NEW t \in Terms, NEW ttl \in Ttls,
             now + ttl =< MaxTime, r = Initial(a, s, m, t, ttl)
      PROVE  r.expiresAt =< MaxTime
  BY <1>3 DEF Initial
<1>4. ASSUME store[n] # None, NEW a \in Agents, NEW t \in Terms, NEW ttl \in Ttls,
             now + ttl =< MaxTime, r = Countered(store[n], a, t, ttl)
      PROVE  r.expiresAt =< MaxTime
  BY <1>1, <1>4 DEF Countered, Records
<1>5. ASSUME store[n] # None, ValidUntil(store[n], now) \in Dates,
             r = Accepted(store[n], now)
      PROVE  r.expiresAt =< MaxTime
  BY <1>1, <1>2, <1>5, AcceptedIsRecord
<1>6. ASSUME store[n] # None,
             r = store[n] \/ \E s \in {"REJECTED", "EXPIRED"} : r = [store[n] EXCEPT !.state = s]
      PROVE  r.expiresAt =< MaxTime
  BY <1>1, <1>2, <1>6 DEF Records
<1> QED  BY <1>3, <1>4, <1>5, <1>6 DEF Successor, MaybeExpire

LEMMA DeadlineStep ==
    ASSUME TypeOK, DeadlinesInTime, [Next]_vars
    PROVE  DeadlinesInTime'
<1>1. CASE UNCHANGED store
  BY <1>1 DEF DeadlinesInTime, Exists
<1>2. ASSUME NEW n \in Negotiations, NEW r, Put(n, r), Successor(n, r)
      PROVE  DeadlinesInTime'
  <2>1. \A m \in Negotiations : store'[m] = IF m = n THEN r ELSE store[m]
    BY <1>2 DEF Put, TypeOK
  <2> QED  BY <1>2, <2>1, SuccessorInTime DEF DeadlinesInTime, Exists
<1> QED  BY <1>1, <1>2, StoreSteps

LEMMA DeadlineInvariant == Spec => []DeadlinesInTime
<1>1. Init => DeadlinesInTime
  BY DEF Init, DeadlinesInTime, Exists
<1> QED  BY <1>1, DeadlineStep, TypeCorrect, PTL DEF Spec

\* At the last deadline there is, no offer is on the table.
LEMMA NoOfferOutlivesTime ==
    ASSUME TypeOK, DeadlinesInTime, now >= MaxTime, NEW n \in Negotiations
    PROVE  ~ Live(n)
<1> SUFFICES ASSUME Exists(n), MaybeExpire(store[n], now).state = "PROPOSED"
             PROVE  FALSE
  BY DEF Live
<1>1. store[n] \in Records /\ store[n].expiresAt =< MaxTime /\ now \in Int
  BY DEF TypeOK, DeadlinesInTime, Exists
<1>2. store[n].expiresAt \in Dates
  BY <1>1 DEF Records
<1>3. \A d \in Dates : d \in Int
  BY ConstantsAssumption
<1>4. store[n].expiresAt \in Int
  BY <1>2, <1>3, Zenon
<1>5. MaxTime \in Int
  BY ConstantsAssumption
<1>6. store[n].state = "PROPOSED" => MaybeExpire(store[n], now).state = "EXPIRED"
  BY <1>1, <1>4, <1>5 DEF MaybeExpire, Records
<1> QED  BY <1>6 DEF MaybeExpire

\* Time that comes to every deadline takes every offer off the table, under any
\* clock and whatever the handlers do or do not: only a counter-proposal defers
\* it.  That a fair clock comes there is the part that is left to TLC.
THEOREM OffersLapseInTime == Spec /\ []<>(now >= MaxTime) => OffersLapse
<1>1. ASSUME NEW n \in Negotiations
      PROVE  Spec /\ []<>(now >= MaxTime) => []<>~ Live(n)
  <2>1. TypeOK /\ DeadlinesInTime /\ now >= MaxTime => ~ Live(n)
    BY NoOfferOutlivesTime
  <2> QED  BY <2>1, TypeCorrect, DeadlineInvariant, PTL
<1>2. ASSUME NEW n \in Negotiations, NEW k \in 1 .. MaxRounds
      PROVE  Spec /\ []<>(now >= MaxTime)
               => (Live(n) /\ Len(store[n].proposals) = k
                      ~> ~ Live(n) \/ Len(store[n].proposals) > k)
  BY <1>1, PTL
<1> QED  BY <1>2 DEF OffersLapse

(***************************************************************************)
(* Refinement                                                              *)
(***************************************************************************)

\* Reading a record, and thereby expiring it, does not show in the lifecycle.
LEMMA RefreshIsInvisible ==
    ASSUME NEW r \in Records, NEW t \in Int
    PROVE  /\ PhaseOf(MaybeExpire(r, t), t) = PhaseOf(r, t)
           /\ OfferOf(MaybeExpire(r, t)) = OfferOf(r)
           /\ BoundOf(MaybeExpire(r, t)) = BoundOf(r)
<1>1. r # None /\ MaybeExpire(r, t) # None
  BY MaybeExpireIsRecord, NoneAssumption
<1>2. PhaseOf(MaybeExpire(r, t), t) = PhaseOf(r, t)
  BY <1>1 DEF PhaseOf, MaybeExpire, Records
<1>3. OfferOf(MaybeExpire(r, t)) = OfferOf(r)
  BY <1>1 DEF OfferOf, LatestTerms, MaybeExpire, Records
<1>4. BoundOf(MaybeExpire(r, t)) = BoundOf(r)
  BY <1>1 DEF BoundOf, MaybeExpire, Records
<1> QED  BY <1>2, <1>3, <1>4

\* A clock that does not go back can only close what is open.
LEMMA TimeOnlyCloses ==
    ASSUME NEW r \in Records \cup {None}, NEW t \in Int, NEW u \in Int, t =< u,
           PhaseOf(r, u) # PhaseOf(r, t)
    PROVE  PhaseOf(r, t) = "open" /\ PhaseOf(r, u) = "closed"
<1>1. r \in Records /\ r # None
  BY DEF PhaseOf
<1>2. r.expiresAt \in Int
  BY <1>1, ConstantsAssumption DEF Records
<1> QED  BY <1>1, <1>2 DEF PhaseOf, MaybeExpire, Records

\* How a successor other than the lazily expired record shows in the lifecycle.
LEMMA SuccessorPhase ==
    ASSUME TypeOK, AgreementSound, NEW n \in Negotiations, NEW r, Successor(n, r),
           store[n] = None \/ r # MaybeExpire(store[n], now)
    PROVE  \/ /\ PhaseOf(store[n], now) \in {"none", "open"}
              /\ PhaseOf(r, now) \in {"open", "closed"}
              /\ OfferOf(r) \in Terms /\ BoundOf(r) = BoundOf(store[n])
           \/ /\ PhaseOf(store[n], now) = "open" /\ PhaseOf(r, now) = "agreed"
              /\ OfferOf(r) = OfferOf(store[n]) /\ BoundOf(r) = OfferOf(store[n])
           \/ /\ PhaseOf(store[n], now) \in {"open", "closed"}
              /\ PhaseOf(r, now) = "closed"
              /\ OfferOf(r) = OfferOf(store[n]) /\ BoundOf(r) = BoundOf(store[n])
<1>1. /\ now \in Dates /\ now \in Int /\ r \in Records /\ r # None
      /\ store[n] # None => store[n] \in Records /\ SoundRecord(store[n])
      /\ SoundRecord(r)
  BY SuccessorIsRecord, SuccessorIsSound, NoneAssumption, ConstantsAssumption
  DEF TypeOK, AgreementSound, Exists
<1>2. ASSUME store[n] = None, NEW a \in Agents, NEW s \in Skills,
             NEW m \in TransferModes, NEW t \in Terms, NEW ttl \in Ttls,
             r = Initial(a, s, m, t, ttl)
      PROVE  /\ PhaseOf(store[n], now) = "none"
             /\ PhaseOf(r, now) \in {"open", "closed"}
             /\ OfferOf(r) \in Terms /\ BoundOf(r) = BoundOf(store[n])
  <2>1. r.state = "PROPOSED" /\ r.agreement = None
    BY <1>2 DEF Initial
  <2> QED
    BY <1>1, <1>2, <2>1, LatestTermsIsTerms DEF PhaseOf, OfferOf, BoundOf, MaybeExpire
<1>3. ASSUME store[n] # None, store[n].state = "PROPOSED", now < store[n].expiresAt
      PROVE  PhaseOf(store[n], now) = "open" /\ store[n].agreement = None
  BY <1>1, <1>3, ConstantsAssumption DEF PhaseOf, MaybeExpire, Records, SoundRecord
<1>4. ASSUME store[n] # None, store[n].state = "PROPOSED", now < store[n].expiresAt,
             NEW a \in Agents, NEW t \in Terms, NEW ttl \in Ttls,
             r = Countered(store[n], a, t, ttl)
      PROVE  /\ PhaseOf(r, now) \in {"open", "closed"}
             /\ OfferOf(r) \in Terms /\ BoundOf(r) = BoundOf(store[n])
  <2>1. r.state = "PROPOSED" /\ r.agreement = None
    BY <1>1, <1>3, <1>4 DEF Countered, Records
  <2> QED
    BY <1>1, <1>3, <1>4, <2>1, LatestTermsIsTerms
    DEF PhaseOf, OfferOf, BoundOf, MaybeExpire
<1>5. ASSUME store[n] # None, ValidUntil(store[n], now) \in Dates,
             r = Accepted(store[n], now)
      PROVE  /\ PhaseOf(r, now) = "agreed" /\ OfferOf(r) = OfferOf(store[n])
             /\ BoundOf(r) = OfferOf(store[n])
  <2>1. r.state = "AGREED" /\ r.proposals = store[n].proposals
    BY <1>1, <1>5, AcceptedIsRecord
  <2>2. LatestTerms(r) = LatestTerms(store[n])
    BY <2>1 DEF LatestTerms
  <2>3. r.agreement # None /\ r.agreement.terms = LatestTerms(r)
    BY <1>1, <2>1 DEF SoundRecord
  <2> QED
    BY <1>1, <1>5, <2>1, <2>2, <2>3 DEF PhaseOf, OfferOf, BoundOf, MaybeExpire
<1>6. ASSUME store[n] # None, NEW s \in {"REJECTED", "EXPIRED"},
             r = [store[n] EXCEPT !.state = s]
      PROVE  /\ PhaseOf(r, now) = "closed" /\ OfferOf(r) = OfferOf(store[n])
             /\ BoundOf(r) = BoundOf(store[n])
  <2>1. /\ r.state \in {"REJECTED", "EXPIRED"} /\ r.proposals = store[n].proposals
        /\ r.agreement = store[n].agreement
    BY <1>1, <1>6 DEF Records
  <2> QED
    BY <1>1, <1>6, <2>1 DEF PhaseOf, OfferOf, BoundOf, MaybeExpire, LatestTerms
<1>7. ASSUME store[n] # None, store[n].state = "EXECUTING"
      PROVE  PhaseOf(store[n], now) = "closed"
  BY <1>1, <1>7 DEF PhaseOf, MaybeExpire
<1> QED  BY <1>2, <1>3, <1>4, <1>5, <1>6, <1>7 DEF Successor

\* Put one record, and see one element of each abstract variable change.
LEMMA LifecyclePut ==
    ASSUME TypeOK, NEW n \in Negotiations, NEW r, Put(n, r), now' = now
    PROVE  /\ [m \in Negotiations |-> PhaseOf(store[m], now)]' =
                [[m \in Negotiations |-> PhaseOf(store[m], now)]
                    EXCEPT ![n] = PhaseOf(r, now)]
           /\ [m \in Negotiations |-> OfferOf(store[m])]' =
                [[m \in Negotiations |-> OfferOf(store[m])] EXCEPT ![n] = OfferOf(r)]
           /\ [m \in Negotiations |-> BoundOf(store[m])]' =
                [[m \in Negotiations |-> BoundOf(store[m])] EXCEPT ![n] = BoundOf(r)]
<1>1. \A m \in Negotiations : store'[m] = IF m = n THEN r ELSE store[m]
  BY DEF Put, TypeOK
<1> QED  BY <1>1

\* The clock of one step goes forward unless it may step back.
LEMMA ClockForward ==
    ASSUME TypeOK, [Next]_vars, ~ ClockStepsBack
    PROVE  now' \in Int /\ now =< now'
<1>1. CASE Tick
  BY <1>1 DEF Tick, TypeOK
<1>2. CASE now' = now
  BY <1>2 DEF TypeOK
<1> QED  BY <1>1, <1>2, ClockSteps DEF StepBack

\* A step of the coordinator, under a clock that does not go back, is a step of
\* the lifecycle or shows in none of its variables.
LEMMA LifecycleStep ==
    ASSUME ~ ClockStepsBack, TypeOK, AgreementSound, [Next]_vars
    PROVE  [Lifecycle!Next]_(Lifecycle!lifecycleVars)
<1> DEFINE phase == [n \in Negotiations |-> PhaseOf(store[n], now)]
           offer == [n \in Negotiations |-> OfferOf(store[n])]
           bound == [n \in Negotiations |-> BoundOf(store[n])]
<1> SUFFICES Lifecycle!Next \/ UNCHANGED <<phase, offer, bound>>
  BY DEF Lifecycle!lifecycleVars
<1>0. /\ now \in Int /\ store \in [Negotiations -> Records \cup {None}]
  BY DEF TypeOK
<1>1. CASE UNCHANGED store
  <2> DEFINE closing == {n \in Negotiations : phase[n] # phase'[n]}
  <2>1. now' \in Int /\ now =< now'
    BY ClockForward
  <2>2. \A n \in closing : phase[n] = "open" /\ phase'[n] = "closed"
    BY <1>0, <1>1, <2>1, TimeOnlyCloses
  <2>3. phase' = [n \in Negotiations |-> IF n \in closing THEN "closed" ELSE phase[n]]
    BY <2>2
  <2>4. UNCHANGED <<offer, bound>>
    BY <1>1
  <2>5. closing \in SUBSET Negotiations
    OBVIOUS
  <2>6. Lifecycle!Close(closing)
    BY <2>2, <2>3, <2>4 DEF Lifecycle!Close
  <2> QED  BY <2>5, <2>6 DEF Lifecycle!Next
<1>2. ASSUME NEW n \in Negotiations, NEW r, now' = now, Put(n, r), Successor(n, r)
      PROVE  Lifecycle!Next \/ UNCHANGED <<phase, offer, bound>>
  <2>1. /\ phase' = [phase EXCEPT ![n] = PhaseOf(r, now)]
        /\ offer' = [offer EXCEPT ![n] = OfferOf(r)]
        /\ bound' = [bound EXCEPT ![n] = BoundOf(r)]
    BY <1>2, LifecyclePut
  <2>2. /\ phase[n] = PhaseOf(store[n], now) /\ offer[n] = OfferOf(store[n])
        /\ bound[n] = BoundOf(store[n])
    OBVIOUS
  <2>3. CASE store[n] # None /\ r = MaybeExpire(store[n], now)
    <3>1. /\ PhaseOf(r, now) = phase[n] /\ OfferOf(r) = offer[n]
          /\ BoundOf(r) = bound[n]
      BY <1>0, <2>2, <2>3, RefreshIsInvisible
    <3>2. UNCHANGED phase
      BY <2>1, <3>1
    <3>3. UNCHANGED <<offer, bound>>
      BY <2>1, <3>1
    <3> QED  BY <3>2, <3>3
  <2>4. CASE store[n] = None \/ r # MaybeExpire(store[n], now)
    <3>1. CASE /\ PhaseOf(store[n], now) \in {"none", "open"}
               /\ PhaseOf(r, now) \in {"open", "closed"}
               /\ OfferOf(r) \in Terms /\ BoundOf(r) = BoundOf(store[n])
      <4>1. bound' = bound
        BY <2>1, <2>2, <3>1
      <4>2. Lifecycle!Offer(n, OfferOf(r))
        BY <2>1, <2>2, <3>1, <4>1 DEF Lifecycle!Offer
      <4> QED  BY <3>1, <4>2 DEF Lifecycle!Next
    <3>2. CASE /\ PhaseOf(store[n], now) = "open" /\ PhaseOf(r, now) = "agreed"
               /\ OfferOf(r) = OfferOf(store[n]) /\ BoundOf(r) = OfferOf(store[n])
      <4>1. offer' = offer
        BY <2>1, <2>2, <3>2
      <4>2. Lifecycle!Agree(n)
        BY <2>1, <2>2, <3>2, <4>1 DEF Lifecycle!Agree
      <4> QED  BY <4>2 DEF Lifecycle!Next
    <3>3. CASE /\ PhaseOf(store[n], now) \in {"open", "closed"}
               /\ PhaseOf(r, now) = "closed"
               /\ OfferOf(r) = OfferOf(store[n]) /\ BoundOf(r) = BoundOf(store[n])
      <4> DEFINE closing == {m \in {n} : phase[n] = "open"}
      <4>1. UNCHANGED <<offer, bound>>
        BY <2>1, <2>2, <3>3
      <4>2. phase' = [m \in Negotiations |-> IF m \in closing THEN "closed" ELSE phase[m]]
        BY <2>1, <2>2, <3>3
      <4>3. Lifecycle!Close(closing)
        BY <4>1, <4>2 DEF Lifecycle!Close
      <4>4. closing \in SUBSET Negotiations
        OBVIOUS
      <4> QED  BY <4>3, <4>4 DEF Lifecycle!Next
    <3> QED  BY <1>2, <2>4, <3>1, <3>2, <3>3, SuccessorPhase
  <2> QED  BY <2>3, <2>4
<1> QED  BY <1>1, <1>2, StoreSteps

\* Under a clock that does not go back, the coordinator with its lazily expired
\* store implements the lifecycle: offers, agreements to the offer as it stands,
\* and closings that are never undone.
THEOREM NegotiationImplementsLifecycle ==
    ASSUME ~ ClockStepsBack
    PROVE  Spec => ImplementsLifecycle
<1>1. Init => Lifecycle!Init
  BY DEF Init, Lifecycle!Init, PhaseOf, OfferOf, BoundOf
<1> QED
  BY <1>1, LifecycleStep, TypeCorrect, AgreementsAreSound, PTL
  DEF Spec, ImplementsLifecycle, Lifecycle!Spec
=============================================================================
