-------------------------- MODULE SessionUnitsProofs --------------------------
(***************************************************************************)
(* No call of a Session is executed twice: theorem UnitsAreAskedFor, by    *)
(* counting the requests that are still on their way.                      *)
(*                                                                         *)
(* An invocation that was sent may start a handler and spend a unit until  *)
(* it is served or lost; one that was started may deliver a result until   *)
(* its connection is over.  Each step moves at most one connection on, and *)
(* pays for what it adds to one count with what it takes from another.     *)
(***************************************************************************)
EXTENDS SessionProofs, FiniteSetTheorems

(***************************************************************************)
(* What is on its way                                                      *)
(***************************************************************************)
\* The connection r carries an invocation under n that is not served yet.
MayStart(r, n) == r # None /\ r.op = "invoke" /\ r.neg = n /\ r.phase = "sent"

\* It carries one whose handler was started and whose result may still arrive.
MayDeliver(r, n) ==
    /\ r # None /\ r.op = "invoke" /\ r.neg = n
    /\ r.phase = "running" \/ (r.phase = "replied" /\ r.reply.outcome = "ok")

ToStart(n) == {c \in Calls : MayStart(conns[c], n)}

ToDeliver(n) == {c \in Calls : MayDeliver(conns[c], n)}

\* The counts, with what may still be added to each.
UnitsOf(n) ==
    /\ IsFiniteSet(ToStart(n)) /\ IsFiniteSet(ToDeliver(n))
    /\ ran[n] + Cardinality(ToStart(n)) =< asked[n]
    /\ UnitsSpent(n) + Cardinality(ToStart(n)) =< asked[n]
    /\ delivered[n] + Cardinality(ToDeliver(n)) =< ran[n]

UnitsInv == \A n \in Negotiations : UnitsOf(n)

\* A truth value as a number.
One(b) == IF b THEN 1 ELSE 0

(***************************************************************************)
(* Counting                                                                *)
(***************************************************************************)
\* Sets that differ in one element at most.
LEMMA OneElement ==
    ASSUME NEW S, NEW T, NEW c, IsFiniteSet(S), \A d : d # c => (d \in S <=> d \in T)
    PROVE  /\ IsFiniteSet(T)
           /\ Cardinality(S) \in Nat /\ Cardinality(T) \in Nat
           /\ Cardinality(T) + One(c \in S) = Cardinality(S) + One(c \in T)
<1> DEFINE R == S \ {c}
<1>1. IsFiniteSet(R) /\ Cardinality(R) = Cardinality(S) - One(c \in S)
  BY FS_RemoveElement, FS_CardinalityType DEF One
<1>2. Cardinality(S) \in Nat /\ Cardinality(R) \in Nat
  BY <1>1, FS_CardinalityType
<1>3. T = IF c \in T THEN R \cup {c} ELSE R
  OBVIOUS
<1>4. IsFiniteSet(T) /\ Cardinality(T) = Cardinality(R) + One(c \in T)
  <2>1. CASE c \in T
    <3>1. IsFiniteSet(R \cup {c}) /\ Cardinality(R \cup {c}) = Cardinality(R) + 1
      BY <1>1, FS_AddElement
    <3> QED  BY <2>1, <1>3, <3>1 DEF One
  <2>2. CASE c \notin T
    <3>1. T = R
      BY <2>2, <1>3
    <3>2. One(c \in T) = 0
      BY <2>2 DEF One
    <3> HIDE DEF R
    <3> QED  BY <1>1, <1>2, <3>1, <3>2
  <2> QED  BY <2>1, <2>2
<1> HIDE DEF R
<1>5. One(c \in S) \in Nat /\ One(c \in T) \in Nat
  BY DEF One
<1> QED  BY <1>1, <1>2, <1>4, <1>5

\* The counts are numbers.
LEMMA Counts ==
    ASSUME SessionInv, NEW n \in Negotiations
    PROVE  /\ ran[n] \in Nat /\ asked[n] \in Nat /\ delivered[n] \in Nat /\ UnitsSpent(n) \in Nat
BY NoneAssumption DEF SessionInv, ServerInv, ServerTypeOK, HeardInv, UnitsSpent, LeaseStates

\* A step that moves one connection on keeps the books of n, if each count grows
\* by no more than the connection had to give.
LEMMA OneConnection ==
    ASSUME SessionInv, SessionInv', NEW n \in Negotiations, UnitsOf(n), NEW c \in Calls,
           \A d \in Calls : d # c => conns'[d] = conns[d],
           ran'[n] + One(MayStart(conns'[c], n)) + asked[n]
             =< ran[n] + One(MayStart(conns[c], n)) + asked'[n],
           UnitsSpent(n)' + One(MayStart(conns'[c], n)) + asked[n]
             =< UnitsSpent(n) + One(MayStart(conns[c], n)) + asked'[n],
           delivered'[n] + One(MayDeliver(conns'[c], n)) + ran[n]
             =< delivered[n] + One(MayDeliver(conns[c], n)) + ran'[n]
    PROVE  UnitsOf(n)'
<1>1. /\ IsFiniteSet(ToStart(n)')
      /\ Cardinality(ToStart(n)) \in Nat /\ Cardinality(ToStart(n)') \in Nat
      /\ Cardinality(ToStart(n)') + One(MayStart(conns[c], n))
           = Cardinality(ToStart(n)) + One(MayStart(conns'[c], n))
  <2>1. \A d : d # c => (d \in ToStart(n) <=> d \in ToStart(n)')
    BY DEF ToStart
  <2>2. /\ c \in ToStart(n) <=> MayStart(conns[c], n)
        /\ c \in ToStart(n)' <=> MayStart(conns'[c], n)
    BY DEF ToStart
  <2>3. IsFiniteSet(ToStart(n))
    BY DEF UnitsOf
  <2>4. /\ One(c \in ToStart(n)) = One(MayStart(conns[c], n))
        /\ One(c \in ToStart(n)') = One(MayStart(conns'[c], n))
    BY <2>2 DEF One
  <2> QED  BY <2>1, <2>3, <2>4, OneElement
<1>2. /\ IsFiniteSet(ToDeliver(n)')
      /\ Cardinality(ToDeliver(n)) \in Nat /\ Cardinality(ToDeliver(n)') \in Nat
      /\ Cardinality(ToDeliver(n)') + One(MayDeliver(conns[c], n))
           = Cardinality(ToDeliver(n)) + One(MayDeliver(conns'[c], n))
  <2>1. \A d : d # c => (d \in ToDeliver(n) <=> d \in ToDeliver(n)')
    BY DEF ToDeliver
  <2>2. /\ c \in ToDeliver(n) <=> MayDeliver(conns[c], n)
        /\ c \in ToDeliver(n)' <=> MayDeliver(conns'[c], n)
    BY DEF ToDeliver
  <2>3. IsFiniteSet(ToDeliver(n))
    BY DEF UnitsOf
  <2>4. /\ One(c \in ToDeliver(n)) = One(MayDeliver(conns[c], n))
        /\ One(c \in ToDeliver(n)') = One(MayDeliver(conns'[c], n))
    BY <2>2 DEF One
  <2> QED  BY <2>1, <2>3, <2>4, OneElement
<1>3. /\ ran[n] \in Nat /\ asked[n] \in Nat /\ delivered[n] \in Nat /\ UnitsSpent(n) \in Nat
      /\ ran'[n] \in Nat /\ asked'[n] \in Nat /\ delivered'[n] \in Nat /\ UnitsSpent(n)' \in Nat
  <2>1. /\ ran'[n] \in Nat /\ asked'[n] \in Nat /\ delivered'[n] \in Nat /\ UnitsSpent(n)' \in Nat
    BY NoneAssumption DEF SessionInv, ServerInv, ServerTypeOK, HeardInv, UnitsSpent, LeaseStates
  <2> QED  BY <2>1, Counts
<1>4. /\ One(MayStart(conns[c], n)) \in Nat /\ One(MayStart(conns'[c], n)) \in Nat
      /\ One(MayDeliver(conns[c], n)) \in Nat /\ One(MayDeliver(conns'[c], n)) \in Nat
  BY DEF One
<1>5. /\ ran[n] + Cardinality(ToStart(n)) =< asked[n]
      /\ UnitsSpent(n) + Cardinality(ToStart(n)) =< asked[n]
      /\ delivered[n] + Cardinality(ToDeliver(n)) =< ran[n]
  BY DEF UnitsOf
<1>6. /\ ran'[n] + Cardinality(ToStart(n)') =< asked'[n]
      /\ UnitsSpent(n)' + Cardinality(ToStart(n)') =< asked'[n]
  BY <1>1, <1>3, <1>4, <1>5
<1>7. delivered'[n] + Cardinality(ToDeliver(n)') =< ran'[n]
  BY <1>2, <1>3, <1>4, <1>5
<1> QED  BY <1>1, <1>2, <1>6, <1>7 DEF UnitsOf

(***************************************************************************)
(* What an invocation costs                                                *)
(***************************************************************************)
\* The costs under n: a handler is counted if it was started, and the lease, if
\* there is one, gives one unit at most.
Costs(n) ==
    /\ ran'[n] = ran[n] + One(rpc'.outcome = "started")
    /\ UnitsSpent(n)' =< UnitsSpent(n) + 1
    /\ rpc'.outcome # "ok"
    /\ \A m \in Negotiations : m # n => ran'[m] = ran[m] /\ lease'[m] = lease[m]

\* delegate.invoke on its own.
Starts(n) ==
    /\ ran'[n] = ran[n] + One(rpc'.outcome = "started")
    /\ rpc'.outcome # "ok"
    /\ \A m \in Negotiations : m # n => ran'[m] = ran[m]

LEMMA RefusedCosts ==
    ASSUME ServerTypeOK, NEW n \in Negotiations, NEW a,
           NEW outcome, outcome \notin {"ok", "started"},
           Reply("invoke", a, n, outcome), UNCHANGED ran
    PROVE  Starts(n)
<1>1. rpc'.outcome = outcome
  BY DEF Reply
<1>2. One(rpc'.outcome = "started") = 0 /\ ran[n] \in Nat
  BY <1>1 DEF One, ServerTypeOK
<1> QED  BY <1>1, <1>2 DEF Starts

LEMMA StartCosts ==
    ASSUME ServerTypeOK, NEW c \in Calls, NEW a, NEW n \in Negotiations, NEW s, Start(c, a, n, s)
    PROVE  Starts(n)
<1>1. CASE Reply("invoke", a, n, "UnknownSkillError") /\ UNCHANGED ran
  BY <1>1, RefusedCosts
<1>2. CASE /\ ran' = IF n = None THEN ran ELSE [ran EXCEPT ![n] = @ + 1]
           /\ Reply("invoke", a, n, "started")
  <2>1. n # None /\ ran \in [Negotiations -> Nat]
    BY NoneAssumption DEF ServerTypeOK
  <2>2. ran' = [ran EXCEPT ![n] = @ + 1]
    BY <1>2, <2>1
  <2>3. rpc'.outcome = "started"
    BY <1>2 DEF Reply
  <2>4. One(rpc'.outcome = "started") = 1
    BY <2>3 DEF One
  <2> QED  BY <2>1, <2>2, <2>3, <2>4 DEF Starts
<1> QED  BY <1>1, <1>2 DEF Start

LEMMA InvokeCosts ==
    ASSUME ServerTypeOK, NEW c \in Calls, NEW a \in Agents, NEW n \in Negotiations,
           InvokeAgreement(c, a, n)
    PROVE  Costs(n)
<1>1. lease \in [Negotiations -> LeaseStates \cup {None}]
  BY DEF ServerTypeOK
<1>2. UnitsSpent(n) \in Nat
  BY <1>1 DEF UnitsSpent, LeaseStates
<1>3. ASSUME Starts(n), UNCHANGED lease PROVE Costs(n)
  <2>1. UnitsSpent(n)' = UnitsSpent(n)
    BY <1>3 DEF UnitsSpent
  <2> QED  BY <1>2, <1>3, <2>1 DEF Starts, Costs
<1>4. CASE AgreementError(n, a) # None
  BY <1>3, <1>4, AgreementErrorValues, RefusedCosts DEF InvokeAgreement
<1>5. CASE AgreementError(n, a) = None
  <2>1. ASSUME Start(c, a, n, store[n].skill), UNCHANGED lease PROVE Costs(n)
    BY <1>3, <2>1, StartCosts
  <2>2. ASSUME Reply("invoke", a, n, "AgreementViolatedError"), UNCHANGED <<lease, ran>>
        PROVE  Costs(n)
    BY <1>3, <2>2, RefusedCosts
  <2>3. ASSUME LeaseInvoke(c, a, n) PROVE Costs(n)
    <3>1. Lease[store[n].agreement.terms] # None =>
            LeaseState(n) \in LeaseStates /\ LeaseState(n).used = UnitsSpent(n)
      BY <1>1, <1>5, InForce, LeaseStateType DEF LeaseState, UnitsSpent
    <3>2. CASE /\ Lease[store[n].agreement.terms] # None
               /\ lease' = [lease EXCEPT ![n] = [LeaseState(n) EXCEPT !.used = @ + 1]]
               /\ Start(c, a, n, store[n].skill)
      <4> DEFINE l == [LeaseState(n) EXCEPT !.used = @ + 1]
      <4>1. l \in LeaseStates /\ l.used = UnitsSpent(n) + 1
        BY <3>1, <3>2, <1>2 DEF LeaseStates
      <4>2. l # None
        BY <4>1, ServerAssumption
      <4> HIDE DEF l
      <4>3. lease'[n] = l /\ \A m \in Negotiations : m # n => lease'[m] = lease[m]
        BY <1>1, <3>2 DEF l
      <4>4. UnitsSpent(n)' = UnitsSpent(n) + 1
        BY <4>1, <4>2, <4>3 DEF UnitsSpent
      <4> QED  BY <1>2, <3>2, <4>3, <4>4, StartCosts DEF Starts, Costs
    <3>3. CASE /\ lease' = IF Lease[store[n].agreement.terms] # None
                             THEN [lease EXCEPT ![n] = LeaseState(n)] ELSE lease
               /\ Reply("invoke", a, n, "AgreementViolatedError") /\ UNCHANGED ran
      <4>1. CASE Lease[store[n].agreement.terms] = None
        BY <2>2, <3>3, <4>1
      <4>2. CASE Lease[store[n].agreement.terms] # None
        <5>1. LeaseState(n) # None
          BY <3>1, <4>2, ServerAssumption
        <5>2. /\ lease'[n] = LeaseState(n)
              /\ \A m \in Negotiations : m # n => lease'[m] = lease[m]
          BY <1>1, <3>3, <4>2
        <5>3. UnitsSpent(n)' = UnitsSpent(n)
          BY <3>1, <4>2, <5>1, <5>2 DEF UnitsSpent
        <5> QED  BY <1>2, <3>3, <5>2, <5>3, RefusedCosts DEF Starts, Costs
      <4> QED  BY <4>1, <4>2
    <3> QED  BY <2>3, <3>2, <3>3 DEF LeaseInvoke
  <2> QED  BY <1>5, <2>1, <2>2, <2>3 DEF InvokeAgreement
<1> QED  BY <1>4, <1>5

(***************************************************************************)
(* The steps                                                               *)
(***************************************************************************)
\* A connection that costs nothing: it has no more to give than before.
LEMMA NothingSpent ==
    ASSUME SessionInv, SessionInv', UnitsInv, NEW c \in Calls,
           \A d \in Calls : d # c => conns'[d] = conns[d],
           \A n \in Negotiations :
              /\ MayStart(conns'[c], n) => MayStart(conns[c], n)
              /\ MayDeliver(conns'[c], n) => MayDeliver(conns[c], n),
           UNCHANGED <<ran, lease, asked, delivered>>
    PROVE  UnitsInv'
<1> SUFFICES ASSUME NEW n \in Negotiations PROVE UnitsOf(n)'
  BY DEF UnitsInv
<1>1. UnitsSpent(n)' = UnitsSpent(n)
  BY DEF UnitsSpent
<1>2. /\ One(MayStart(conns'[c], n)) =< One(MayStart(conns[c], n))
      /\ One(MayDeliver(conns'[c], n)) =< One(MayDeliver(conns[c], n))
      /\ One(MayStart(conns[c], n)) \in Nat /\ One(MayStart(conns'[c], n)) \in Nat
      /\ One(MayDeliver(conns[c], n)) \in Nat /\ One(MayDeliver(conns'[c], n)) \in Nat
  BY DEF One
<1>3. UnitsOf(n)
  BY DEF UnitsInv
<1>4. /\ ran'[n] + One(MayStart(conns'[c], n)) + asked[n]
           =< ran[n] + One(MayStart(conns[c], n)) + asked'[n]
      /\ UnitsSpent(n)' + One(MayStart(conns'[c], n)) + asked[n]
           =< UnitsSpent(n) + One(MayStart(conns[c], n)) + asked'[n]
      /\ delivered'[n] + One(MayDeliver(conns'[c], n)) + ran[n]
           =< delivered[n] + One(MayDeliver(conns[c], n)) + ran'[n]
  BY <1>1, <1>2, Counts
<1> QED  BY <1>3, <1>4, OneConnection

\* Of a connection that becomes r, nothing can be expected but what r gives.
LEMMA BecomeGives ==
    ASSUME SessionInv, NEW c \in Calls, NEW r, Become(c, r)
    PROVE  /\ \A d \in Calls : d # c => conns'[d] = conns[d]
           /\ conns'[c] = r \/ conns'[c] = None
BY DEF Become, SessionInv, ConnsInv

LEMMA SendUnits ==
    ASSUME SessionInv, SessionInv', UnitsInv, NEW c \in Calls, NEW a \in Clients, NEW op \in Ops,
           NEW m \in Negotiations \cup {None}, Send(c, a, op, m)
    PROVE  UnitsInv'
<1> SUFFICES ASSUME NEW n \in Negotiations PROVE UnitsOf(n)'
  BY DEF UnitsInv
<1> DEFINE r == [op |-> op, by |-> a, neg |-> m, phase |-> "sent", reply |-> None,
                 waiting |-> TRUE]
           mine == op = "invoke" /\ m = n
<1>1. conns[c] = None /\ conns'[c] = r /\ \A d \in Calls : d # c => conns'[d] = conns[d]
  BY DEF Send, SessionInv, ConnsInv
<1>2. r # None
  <2>1. r \in Connections
    BY DEF Connections
  <2> HIDE DEF r
  <2> QED  BY <2>1, SessionAssumption
<1>3. /\ One(MayStart(conns[c], n)) = 0 /\ One(MayDeliver(conns[c], n)) = 0
      /\ One(MayDeliver(conns'[c], n)) = 0
  BY <1>1 DEF One, MayStart, MayDeliver
<1>4. One(MayStart(conns'[c], n)) = One(mine)
  BY <1>1, <1>2 DEF One, MayStart
<1>5. asked'[n] = asked[n] + One(mine)
  <2>1. asked \in [Negotiations -> Nat]
    BY DEF SessionInv, HeardInv
  <2>2. asked' = IF op = "invoke" THEN [asked EXCEPT ![m] = @ + 1] ELSE asked
    BY DEF Send
  <2> QED  BY <2>1, <2>2 DEF One
<1>6. UNCHANGED <<ran, lease, delivered>>
  BY DEF Send, serverVars, transferVars
<1>7. UnitsSpent(n)' = UnitsSpent(n)
  BY <1>6 DEF UnitsSpent
<1>8. One(mine) \in Nat
  BY DEF One
<1> HIDE DEF mine, r
<1>9. /\ ran'[n] + One(MayStart(conns'[c], n)) + asked[n]
           =< ran[n] + One(MayStart(conns[c], n)) + asked'[n]
      /\ UnitsSpent(n)' + One(MayStart(conns'[c], n)) + asked[n]
           =< UnitsSpent(n) + One(MayStart(conns[c], n)) + asked'[n]
      /\ delivered'[n] + One(MayDeliver(conns'[c], n)) + ran[n]
           =< delivered[n] + One(MayDeliver(conns[c], n)) + ran'[n]
  BY <1>3, <1>4, <1>5, <1>6, <1>7, <1>8, Counts
<1>10. UnitsOf(n)
  BY DEF UnitsInv
<1> QED  BY <1>1, <1>9, <1>10, OneConnection

\* Requests that are no invocations under an agreement.
LEMMA OtherCallUnits ==
    ASSUME SessionInv, SessionInv', UnitsInv, NEW c \in Calls, NEW r, Become(c, r),
           r.op # "invoke", UNCHANGED <<ran, lease, asked, delivered>>
    PROVE  UnitsInv'
<1>1. \A n \in Negotiations : ~ MayStart(conns'[c], n) /\ ~ MayDeliver(conns'[c], n)
  BY BecomeGives DEF MayStart, MayDeliver
<1> QED  BY <1>1, BecomeGives, NothingSpent

\* What ReplyWith makes of a connection.
LEMMA ReplyWithReplies ==
    ASSUME NEW c, conns[c] \in Connections, NEW outcome, NEW m, NEW g, ReplyWith(c, outcome, m, g)
    PROVE  \E r : /\ Become(c, r) /\ r.op = conns[c].op /\ r.neg = conns[c].neg
                  /\ r.phase = "replied" /\ r.reply.outcome = outcome
<1> DEFINE reply == [outcome |-> outcome, neg |-> m, agreement |-> g,
                      byHandler |-> conns[c].phase = "running"]
           r == [conns[c] EXCEPT !.phase = "replied", !.reply = reply]
<1>1. /\ r.op = conns[c].op /\ r.neg = conns[c].neg
      /\ r.phase = "replied" /\ r.reply.outcome = outcome
  BY DEF Connections
<1>2. Become(c, r)
  BY DEF ReplyWith
<1> HIDE DEF r
<1> QED  BY <1>1, <1>2

LEMMA NegotiateUnits ==
    ASSUME SessionInv, SessionInv', UnitsInv, NEW c \in Calls, ServeNegotiate(c)
    PROVE  UnitsInv'
<1>1. conns[c] # None /\ conns[c].op # "invoke"
  BY DEF ServeNegotiate, In, NegotiateOps
<1>2. conns[c] \in Connections
  BY <1>1, OpenConnection
<1>3. PICK r : Become(c, r) /\ r.op = conns[c].op
  <2>1. PICK outcome, m, g : ReplyWith(c, outcome, m, g)
    BY DEF ServeNegotiate
  <2> QED  BY <1>2, <2>1, ReplyWithReplies
<1>4. UNCHANGED <<ran, lease, asked, delivered>>
  BY DEF ServeNegotiate, clientVars
<1> QED  BY <1>1, <1>3, <1>4, OtherCallUnits

\* What becomes of a connection whose transfer request is served.
LEMMA ServedConnection ==
    ASSUME SessionInv, NEW c \in Calls, ServeTransfer(c)
    PROVE  \E r : /\ Become(c, r) /\ r.op = conns[c].op /\ r.neg = conns[c].neg
                  /\ IF rpc'.outcome = "started" THEN r.phase = "running"
                     ELSE r.phase = "replied" /\ r.reply.outcome = rpc'.outcome
<1>1. conns[c] \in Connections
  BY OpenConnection DEF ServeTransfer, In
<1>2. CASE rpc'.outcome = "started"
  <2> DEFINE r == [conns[c] EXCEPT !.phase = "running"]
  <2>1. r.op = conns[c].op /\ r.neg = conns[c].neg /\ r.phase = "running"
    BY <1>1 DEF Connections
  <2>2. Become(c, r)
    BY <1>2 DEF ServeTransfer
  <2> HIDE DEF r
  <2> QED  BY <1>2, <2>1, <2>2
<1>3. CASE rpc'.outcome # "started"
  <2>1. ReplyWith(c, rpc'.outcome, conns[c].neg, None)
    BY <1>3 DEF ServeTransfer
  <2>2. \A outcome : ReplyWith(c, outcome, conns[c].neg, None) =>
          \E r : /\ Become(c, r) /\ r.op = conns[c].op /\ r.neg = conns[c].neg
                /\ r.phase = "replied" /\ r.reply.outcome = outcome
    BY <1>1, ReplyWithReplies
  <2> QED  BY <1>3, <2>1, <2>2
<1> QED  BY <1>2, <1>3

LEMMA InvokeUnits ==
    ASSUME SessionInv, SessionInv', UnitsInv, NEW c \in Calls, ServeTransfer(c),
           conns[c].op = "invoke"
    PROVE  UnitsInv'
<1>1. conns[c] # None /\ conns[c].phase = "sent"
  BY DEF ServeTransfer, In
<1>2. PICK m \in Negotiations, a \in Agents : m = conns[c].neg /\ a = conns[c].by
  BY <1>1, OpenConnection DEF Addressed, AgreementOps
<1>3. InvokeAgreement(c, a, m) /\ ServerTypeOK
  BY <1>2 DEF ServeTransfer, SessionInv, ServerInv
<1>4. Costs(m)
  BY <1>2, <1>3, InvokeCosts
<1>5. PICK r : /\ Become(c, r) /\ r.op = "invoke" /\ r.neg = m
               /\ IF rpc'.outcome = "started" THEN r.phase = "running"
                  ELSE r.phase = "replied" /\ r.reply.outcome = rpc'.outcome
  BY <1>2, ServedConnection
<1>6. UNCHANGED <<asked, delivered>>
  BY DEF ServeTransfer, clientVars
<1> SUFFICES ASSUME NEW n \in Negotiations PROVE UnitsOf(n)'
  BY DEF UnitsInv
<1>7. UnitsOf(n)
  BY DEF UnitsInv
<1>8. \A d \in Calls : d # c => conns'[d] = conns[d]
  BY <1>5, BecomeGives
<1>9. conns'[c] = r \/ conns'[c] = None
  BY <1>5, BecomeGives
<1>10. One(MayDeliver(conns[c], n)) = 0 /\ One(MayStart(conns'[c], n)) = 0
  BY <1>1, <1>5, <1>9 DEF One, MayStart, MayDeliver
<1>11. CASE n = m
  <2>1. One(MayStart(conns[c], n)) = 1
    BY <1>1, <1>2, <1>11 DEF One, MayStart
  <2>2. MayDeliver(conns'[c], n) => rpc'.outcome = "started"
    BY <1>4, <1>5, <1>9 DEF MayDeliver, Costs
  <2>3. /\ One(MayDeliver(conns'[c], n)) =< One(rpc'.outcome = "started")
        /\ One(MayDeliver(conns'[c], n)) \in Nat
        /\ One(rpc'.outcome = "started") \in {0, 1}
    BY <2>2 DEF One
  <2>4. ran'[n] = ran[n] + One(rpc'.outcome = "started") /\ UnitsSpent(n)' =< UnitsSpent(n) + 1
    BY <1>4, <1>11 DEF Costs
  <2>5. UnitsSpent(n)' \in Nat
    BY NoneAssumption DEF SessionInv, ServerInv, ServerTypeOK, UnitsSpent, LeaseStates
  <2>6. /\ ran'[n] + One(MayStart(conns'[c], n)) + asked[n]
             =< ran[n] + One(MayStart(conns[c], n)) + asked'[n]
        /\ UnitsSpent(n)' + One(MayStart(conns'[c], n)) + asked[n]
             =< UnitsSpent(n) + One(MayStart(conns[c], n)) + asked'[n]
        /\ delivered'[n] + One(MayDeliver(conns'[c], n)) + ran[n]
             =< delivered[n] + One(MayDeliver(conns[c], n)) + ran'[n]
    BY <1>6, <1>10, <2>1, <2>3, <2>4, <2>5, Counts
  <2> QED  BY <1>7, <1>8, <2>6, OneConnection
<1>12. CASE n # m
  <2>1. /\ One(MayStart(conns[c], n)) = 0 /\ One(MayDeliver(conns'[c], n)) = 0
    BY <1>2, <1>5, <1>9, <1>12 DEF One, MayStart, MayDeliver
  <2>2. ran'[n] = ran[n] /\ UnitsSpent(n)' = UnitsSpent(n)
    BY <1>4, <1>12 DEF Costs, UnitsSpent
  <2>3. /\ ran'[n] + One(MayStart(conns'[c], n)) + asked[n]
             =< ran[n] + One(MayStart(conns[c], n)) + asked'[n]
        /\ UnitsSpent(n)' + One(MayStart(conns'[c], n)) + asked[n]
             =< UnitsSpent(n) + One(MayStart(conns[c], n)) + asked'[n]
        /\ delivered'[n] + One(MayDeliver(conns'[c], n)) + ran[n]
             =< delivered[n] + One(MayDeliver(conns[c], n)) + ran'[n]
    BY <1>6, <1>10, <2>1, <2>2, Counts
  <2> QED  BY <1>7, <1>8, <2>3, OneConnection
<1> QED  BY <1>11, <1>12

LEMMA TransferUnits ==
    ASSUME SessionInv, SessionInv', UnitsInv, NEW c \in Calls, ServeTransfer(c)
    PROVE  UnitsInv'
<1>1. CASE conns[c].op = "invoke"
  BY <1>1, InvokeUnits
<1>2. CASE conns[c].op # "invoke"
  <2>1. PICK r : Become(c, r) /\ r.op = conns[c].op
    BY ServedConnection
  <2>2. UNCHANGED <<ran, lease>>
    <3>1. ASSUME NEW a, NEW s, InvokeSkill(c, a, s) PROVE UNCHANGED <<ran, lease>>
      BY <3>1 DEF InvokeSkill, Start
    <3> QED
      BY <1>2, <3>1 DEF ServeTransfer, AgreementOps, TransferTeach, TransferCompose
  <2> QED  BY <1>2, <2>1, <2>2, OtherCallUnits DEF ServeTransfer, clientVars
<1> QED  BY <1>1, <1>2

LEMMA FinishUnits ==
    ASSUME SessionInv, SessionInv', UnitsInv, NEW c \in Calls, Finish(c)
    PROVE  UnitsInv'
<1>1. conns[c] # None /\ conns[c].phase = "running"
  BY DEF Finish, In
<1>2. PICK r : /\ Become(c, r) /\ r.op = conns[c].op /\ r.neg = conns[c].neg
               /\ r.phase = "replied"
  <2>1. conns[c] \in Connections
    BY <1>1, OpenConnection
  <2>2. PICK outcome : ReplyWith(c, outcome, conns[c].neg, None)
    BY DEF Finish
  <2>3. \A o : ReplyWith(c, o, conns[c].neg, None) =>
          \E r : /\ Become(c, r) /\ r.op = conns[c].op /\ r.neg = conns[c].neg
                 /\ r.phase = "replied" /\ r.reply.outcome = o
    BY <2>1, ReplyWithReplies
  <2> QED  BY <2>2, <2>3
<1>3. conns'[c] = r \/ conns'[c] = None
  BY <1>2, BecomeGives
<1>4. \A n \in Negotiations :
         /\ ~ MayStart(conns'[c], n)
         /\ MayDeliver(conns'[c], n) => MayDeliver(conns[c], n)
  BY <1>1, <1>2, <1>3 DEF MayStart, MayDeliver
<1>5. UNCHANGED <<ran, lease, asked, delivered>>
  BY DEF Finish, Complete, clientVars
<1> QED  BY <1>2, <1>4, <1>5, BecomeGives, NothingSpent

LEMMA LoseUnits ==
    ASSUME SessionInv, SessionInv', UnitsInv, NEW c \in Calls, Lose(c)
    PROVE  UnitsInv'
<1> DEFINE r == [conns[c] EXCEPT !.phase = "lost", !.reply = None]
<1>1. conns[c] \in Connections
  BY OpenConnection DEF Lose, In
<1>2. r.phase = "lost"
  BY <1>1 DEF Connections
<1>3. Become(c, r) /\ UNCHANGED <<ran, lease, asked, delivered>>
  BY DEF Lose, serverVars, transferVars, clientVars
<1> HIDE DEF r
<1>4. \A n \in Negotiations : ~ MayStart(conns'[c], n) /\ ~ MayDeliver(conns'[c], n)
  BY <1>2, <1>3, BecomeGives DEF MayStart, MayDeliver
<1> QED  BY <1>3, <1>4, BecomeGives, NothingSpent

LEMMA GiveUpUnits ==
    ASSUME SessionInv, SessionInv', UnitsInv, NEW c \in Calls, GiveUp(c)
    PROVE  UnitsInv'
<1> DEFINE r == [conns[c] EXCEPT !.waiting = FALSE]
<1>1. conns[c] # None /\ conns[c] \in Connections
  BY OpenConnection DEF GiveUp
<1>2. /\ r.op = conns[c].op /\ r.neg = conns[c].neg /\ r.phase = conns[c].phase
      /\ r.reply = conns[c].reply
  BY <1>1 DEF Connections
<1>3. Become(c, r) /\ UNCHANGED <<ran, lease, asked, delivered>>
  BY DEF GiveUp, serverVars, transferVars, clientVars
<1> HIDE DEF r
<1>4. \A n \in Negotiations :
         /\ MayStart(conns'[c], n) => MayStart(conns[c], n)
         /\ MayDeliver(conns'[c], n) => MayDeliver(conns[c], n)
  BY <1>1, <1>2, <1>3, BecomeGives DEF MayStart, MayDeliver
<1> QED  BY <1>3, <1>4, BecomeGives, NothingSpent

LEMMA DeliverUnits ==
    ASSUME SessionInv, SessionInv', UnitsInv, NEW c \in Calls, Deliver(c)
    PROVE  UnitsInv'
<1> SUFFICES ASSUME NEW n \in Negotiations PROVE UnitsOf(n)'
  BY DEF UnitsInv
<1> DEFINE mine == conns[c].op = "invoke" /\ conns[c].reply.outcome = "ok" /\ conns[c].neg = n
<1>1. conns[c] # None /\ conns[c].phase = "replied"
  BY DEF Deliver, In
<1>2. conns'[c] = None /\ \A d \in Calls : d # c => conns'[d] = conns[d]
  BY DEF Deliver, SessionInv, ConnsInv
<1>3. /\ One(MayStart(conns[c], n)) = 0 /\ One(MayStart(conns'[c], n)) = 0
      /\ One(MayDeliver(conns'[c], n)) = 0
  BY <1>1, <1>2 DEF One, MayStart, MayDeliver
<1>4. One(MayDeliver(conns[c], n)) = One(mine)
  BY <1>1 DEF One, MayDeliver
<1>5. delivered'[n] = delivered[n] + One(mine)
  <2>1. delivered \in [Negotiations -> Nat]
    BY DEF SessionInv, HeardInv
  <2>2. CASE mine
    <3>1. delivered' = [delivered EXCEPT ![n] = @ + 1]
      BY <2>2 DEF Deliver
    <3> QED  BY <2>1, <2>2, <3>1 DEF One
  <2>3. CASE ~ mine
    <3>1. \/ UNCHANGED delivered
          \/ conns[c].neg # n /\ delivered' = [delivered EXCEPT ![conns[c].neg] = @ + 1]
      BY <2>3 DEF Deliver
    <3> QED  BY <2>1, <2>3, <3>1 DEF One
  <2> QED  BY <2>2, <2>3
<1>6. UNCHANGED <<ran, lease, asked>>
  BY DEF Deliver, serverVars, transferVars
<1>7. UnitsSpent(n)' = UnitsSpent(n)
  BY <1>6 DEF UnitsSpent
<1>8. One(mine) \in Nat
  BY DEF One
<1> HIDE DEF mine
<1>9. /\ ran'[n] + One(MayStart(conns'[c], n)) + asked[n]
           =< ran[n] + One(MayStart(conns[c], n)) + asked'[n]
      /\ UnitsSpent(n)' + One(MayStart(conns'[c], n)) + asked[n]
           =< UnitsSpent(n) + One(MayStart(conns[c], n)) + asked'[n]
      /\ delivered'[n] + One(MayDeliver(conns'[c], n)) + ran[n]
           =< delivered[n] + One(MayDeliver(conns[c], n)) + ran'[n]
  BY <1>3, <1>4, <1>5, <1>6, <1>7, <1>8, Counts
<1>10. UnitsOf(n)
  BY DEF UnitsInv
<1> QED  BY <1>2, <1>9, <1>10, OneConnection

\* A restart starts nothing, and forgets what leases have spent.
LEMMA RestartUnits ==
    ASSUME SessionInv, SessionInv', UnitsInv, SessionRestart
    PROVE  UnitsInv'
<1> SUFFICES ASSUME NEW n \in Negotiations PROVE UnitsOf(n)'
  BY DEF UnitsInv
<1>1. /\ UNCHANGED <<ran, asked, delivered>> /\ lease' = [m \in Negotiations |-> None]
  BY DEF SessionRestart, Restart, clientVars
<1>2. UnitsSpent(n)' = 0
  BY <1>1 DEF UnitsSpent
<1>3. ASSUME NEW c \in Calls
      PROVE  \/ conns'[c] = conns[c] /\ ~ In(c, "running")
             \/ conns'[c] = None \/ conns'[c].phase = "lost"
  <2>1. conns[c] # None => conns[c] \in Connections
    BY OpenConnection
  <2>2. conns'[c] = IF ~ In(c, "running") THEN conns[c]
                    ELSE IF conns[c].waiting THEN [conns[c] EXCEPT !.phase = "lost"] ELSE None
    BY DEF SessionRestart
  <2> QED  BY <2>1, <2>2 DEF In, Connections
<1>4. ToStart(n)' \subseteq ToStart(n) /\ ToDeliver(n)' \subseteq ToDeliver(n)
  BY <1>3 DEF ToStart, ToDeliver, MayStart, MayDeliver
<1>5. UnitsOf(n)
  BY DEF UnitsInv
<1>6. /\ IsFiniteSet(ToStart(n)') /\ Cardinality(ToStart(n)') =< Cardinality(ToStart(n))
      /\ IsFiniteSet(ToDeliver(n)') /\ Cardinality(ToDeliver(n)') =< Cardinality(ToDeliver(n))
  BY <1>4, <1>5, FS_Subset DEF UnitsOf
<1>7. /\ Cardinality(ToStart(n)) \in Nat /\ Cardinality(ToStart(n)') \in Nat
      /\ Cardinality(ToDeliver(n)) \in Nat /\ Cardinality(ToDeliver(n)') \in Nat
  BY <1>5, <1>6, FS_CardinalityType DEF UnitsOf
<1>8. /\ ran[n] + Cardinality(ToStart(n)) =< asked[n]
      /\ delivered[n] + Cardinality(ToDeliver(n)) =< ran[n]
  BY <1>5 DEF UnitsOf
<1>9. /\ ran'[n] + Cardinality(ToStart(n)') =< asked'[n]
      /\ UnitsSpent(n)' + Cardinality(ToStart(n)') =< asked'[n]
      /\ delivered'[n] + Cardinality(ToDeliver(n)') =< ran'[n]
  BY <1>1, <1>2, <1>6, <1>7, <1>8, Counts
<1> QED  BY <1>6, <1>9 DEF UnitsOf

\* Steps that concern no connection.
LEMMA QuietUnits ==
    ASSUME UnitsInv, UNCHANGED <<conns, ran, lease, asked, delivered>>
    PROVE  UnitsInv'
BY DEF UnitsInv, UnitsOf, ToStart, ToDeliver, MayStart, MayDeliver, UnitsSpent

LEMMA UnitsStep ==
    ASSUME SessionInv, SessionInv', UnitsInv, [SessionNext]_sessionVars
    PROVE  UnitsInv'
<1>1. CASE SessionRestart
  BY <1>1, RestartUnits
<1>2. CASE Background
  BY <1>2, QuietUnits
     DEF Background, clientVars, Register, RegisterSkill, RegisterTeachArtifact
<1>3. CASE UNCHANGED sessionVars
  BY <1>3, QuietUnits DEF sessionVars, serverVars, transferVars, clientVars
<1> QED
  BY <1>1, <1>2, <1>3, SendUnits, NegotiateUnits, TransferUnits, FinishUnits, LoseUnits,
     DeliverUnits, GiveUpUnits
     DEF SessionNext

\* No call is executed twice: results delivered, handlers run, units spent and
\* calls sent come in this order, whatever the network loses or delays.
THEOREM NoCallRunsTwice == SessionSpec => []UnitsAreAskedFor
<1>1. SessionInit => UnitsInv
  <2> SUFFICES ASSUME SessionInit, NEW n \in Negotiations PROVE UnitsOf(n)
    BY DEF UnitsInv
  <2>1. ToStart(n) = {} /\ ToDeliver(n) = {}
    BY DEF SessionInit, ToStart, ToDeliver, MayStart, MayDeliver
  <2>2. ran[n] = 0 /\ UnitsSpent(n) = 0 /\ asked[n] = 0 /\ delivered[n] = 0
    BY DEF SessionInit, ServerInit, UnitsSpent
  <2> QED  BY <2>1, <2>2, FS_EmptySet DEF UnitsOf
<1>2. SessionInv /\ SessionInv' /\ UnitsInv /\ [SessionNext]_sessionVars => UnitsInv'
  BY UnitsStep
<1>3. SessionInv /\ UnitsInv => UnitsAreAskedFor
  <2> SUFFICES ASSUME SessionInv, UnitsInv, NEW n \in Negotiations
               PROVE  /\ delivered[n] =< ran[n] /\ ran[n] =< asked[n]
                      /\ lease[n] # None => lease[n].used =< asked[n]
    BY DEF UnitsAreAskedFor
  <2>1. UnitsOf(n)
    BY DEF UnitsInv
  <2>2. Cardinality(ToStart(n)) \in Nat /\ Cardinality(ToDeliver(n)) \in Nat
    BY <2>1, FS_CardinalityType DEF UnitsOf
  <2>3. /\ delivered[n] =< ran[n] /\ ran[n] =< asked[n] /\ UnitsSpent(n) =< asked[n]
    BY <2>1, <2>2, Counts DEF UnitsOf
  <2> QED  BY <2>3 DEF UnitsSpent
<1> QED  BY <1>1, <1>2, <1>3, SessionInvariant, PTL DEF SessionSpec

(***************************************************************************)
(* From the client's agreement to the results it gets                      *)
(***************************************************************************)
\* The units of the agreement as the client was handed it.
HeldBudget(g) == IF Lease[g.terms] = None THEN 0 ELSE Lease[g.terms].maxInvocations

\* Results that clients got under a lease do not exceed the lease they were handed.
ResultsWithinHeldLease ==
    \A h \in held :
        IsLease(h.neg) => delivered[h.neg] =< HeldBudget(h.agreement)

\* All the clients of a lease together get at most as many results as the copy of
\* the agreement says that each was handed, late or not, for as long as it is in
\* force: the copy is the server's agreement, the server starts no more handlers
\* than that, and no handler answers two calls.
THEOREM LeasesHoldForClients ==
    ASSUME ~ StoreSurvives
    PROVE  SessionSpec => []ResultsWithinHeldLease
<1>1. SessionInv /\ UnitsAreAskedFor /\ HeldIsEnforced /\ LeaseCap /\ LeaseInv
        => ResultsWithinHeldLease
  <2> SUFFICES ASSUME SessionInv, UnitsAreAskedFor, HeldIsEnforced, LeaseCap, LeaseInv,
                      NEW h \in held, IsLease(h.neg)
               PROVE  delivered[h.neg] =< HeldBudget(h.agreement)
    BY DEF ResultsWithinHeldLease
  <2>1. h.neg \in Negotiations /\ ServerTypeOK
    BY DEF SessionInv, HeardInv, ServerInv
  <2>2. PICK n \in Negotiations : n = h.neg
    BY <2>1
  <2>3. store[n].agreement = h.agreement
    BY <2>2 DEF HeldIsEnforced, LeaseInv, IsLease, Exists
  <2>4. Budget(n) = HeldBudget(h.agreement) /\ Budget(n) \in Nat
    BY <2>1, <2>2, <2>3, BudgetIsLimit DEF Budget, HeldBudget
  <2>5. ran[n] =< Budget(n) /\ delivered[n] =< ran[n]
    BY <2>2 DEF LeaseCap, UnitsAreAskedFor
  <2>6. ran[n] \in Nat /\ delivered[n] \in Nat
    BY Counts DEF SessionInv
  <2> QED  BY <2>2, <2>4, <2>5, <2>6
<1>2. SessionSpec => []LeaseInv
  BY SessionImplementsServer, LeaseInvariant
<1>3. SessionSpec => []LeaseCap
  BY SessionImplementsServer, LeaseCapHolds
<1> QED
  BY <1>1, <1>2, <1>3, SessionInvariant, NoCallRunsTwice, HeldAgreementsAreEnforced, PTL
=============================================================================
