--------------------------- MODULE SessionProofs ---------------------------
(***************************************************************************)
(* Theorems about Session, for every value of the constants: a server      *)
(* behind a network that loses messages is still a PolypactServer, and     *)
(* what its clients were told stays true.                                  *)
(*                                                                         *)
(* What a reply says is true when it is written, and nothing the server    *)
(* does later makes it false: so it is true when the caller hears it.      *)
(***************************************************************************)
EXTENDS Session, ServerProofs

(***************************************************************************)
(* What a reply may say, of a store s and of the lost negotiations l       *)
(***************************************************************************)
\* There is or was such a negotiation.
Known(n, s, l) == n \in l \/ s[n] # None

\* It has an agreement.
Struck(n, s, l) == n \in l \/ (s[n] # None /\ s[n].state = "AGREED" /\ s[n].agreement # None)

\* Its agreement is g.
Enforced(n, g, s, l) ==
    n \in l \/ (s[n] # None /\ s[n].state = "AGREED" /\ s[n].agreement = g)

\* What an exception about it says.
Said(n, error, s, l) ==
    /\ error = "NegotiationStateError" => n \in l \/ (s[n] # None /\ s[n].state \in Settled)
    /\ error = "UnknownSkillError" => n \in l

\* A request about a negotiation names one that was there; a handler is awaited
\* for invocations only.
Addressed(r, s, l) ==
    /\ r.op \in NegotiateOps \cup AgreementOps => r.neg # None
    /\ r.neg # None => r.neg \in Negotiations /\ Known(r.neg, s, l)
    /\ r.op \in AgreementOps => Struck(r.neg, s, l)
    /\ r.phase = "running" => r.op \notin NegotiateOps

\* A reply, if there is one, says what is so.
Truthful(r, s, l) ==
    r.reply # None =>
        /\ r.reply.outcome = "ok" /\ r.reply.neg # None => Known(r.reply.neg, s, l)
        /\ r.reply.agreement # None =>
              r.op = "accept" /\ Enforced(r.neg, r.reply.agreement, s, l)
        /\ r.op \in NegotiateOps /\ r.reply.outcome # "ok" =>
              Said(r.neg, ErrorClass(r.reply.outcome), s, l)

LostAreGone == \A n \in lost : store[n] = None

\* No handler makes a record EXECUTING, DONE or ABORTED.
StatesInUse == {"PROPOSED", "AGREED", "REJECTED", "EXPIRED"}

InUse == \A n \in Negotiations : store[n] # None => store[n].state \in StatesInUse

ServerInv == ServerTypeOK /\ AgreementSound /\ LostAreGone /\ InUse

\* What is in flight is addressed and true.
ConnsInv ==
    /\ conns \in [Calls -> Connections \cup {None}]
    /\ \A c \in Calls : In(c, "running") <=> calls[c] # None
    /\ \A c \in Calls : In(c, "replied") <=> conns[c] # None /\ conns[c].reply # None
    /\ \A c \in Calls : conns[c] # None =>
          Addressed(conns[c], store, lost) /\ Truthful(conns[c], store, lost)

\* What was heard is true.
HeardInv ==
    /\ learnt \subseteq Negotiations
    /\ held \subseteq [neg : Negotiations, agreement : Agreements]
    /\ asked \in [Negotiations -> Nat] /\ delivered \in [Negotiations -> Nat]
    /\ \A n \in learnt : Known(n, store, lost)
    /\ \A h \in held : Enforced(h.neg, h.agreement, store, lost)
    /\ \A h \in heard : h.neg \in Negotiations /\ Said(h.neg, h.error, store, lost)

\* The inductive invariant.
SessionInv == ServerInv /\ ConnsInv /\ HeardInv

(***************************************************************************)
(* What is so stays so                                                     *)
(***************************************************************************)

\* A record stays, unless it goes with its process; a settled one unchanged.
Lasts(n) ==
    /\ n \in lost => n \in lost'
    /\ store[n] # None =>
          \/ n \in lost'
          \/ /\ store'[n] # None
             /\ store[n].state \in Settled => store'[n] = store[n]

LEMMA RecordsLast ==
    ASSUME ServerTypeOK, [ServerNext]_serverVars, NEW n \in Negotiations
    PROVE  Lasts(n)
<1>1. CASE Negotiate
  <2>1. lost' = lost
    BY <1>1 DEF Negotiate
  <2>2. ASSUME NEW m \in Negotiations, NEW r, Put(m, r), Successor(m, r)
        PROVE  Lasts(n)
    <3>1. store'[n] = IF n = m THEN r ELSE store[n]
      BY <2>2 DEF Put, ServerTypeOK, TypeOK
    <3>2. r # None
      BY <2>2, SuccessorIsRecord, NoneAssumption DEF ServerTypeOK
    <3>3. n = m /\ store[n] # None /\ store[n].state \in Settled => r = store[n]
      BY <2>2, SettledHasNoSuccessor
    <3> QED  BY <2>1, <3>1, <3>2, <3>3 DEF Lasts
  <2>3. CASE UNCHANGED store
    BY <2>1, <2>3 DEF Lasts
  <2> QED  BY <1>1, <2>2, <2>3, StoreSteps DEF Negotiate, ServerTypeOK
<1>2. CASE Restart
  BY <1>2 DEF Restart, Forgotten, Lasts
<1>3. CASE UNCHANGED <<store, lost>>
  BY <1>3 DEF Lasts
<1>4. CASE Transfer
  <2>1. UNCHANGED <<store, lost>>
    BY <1>4 DEF Transfer, InvokeAgreement, InvokeSkill, TransferTeach, TransferCompose,
       Complete, vars
  <2> QED  BY <2>1, <1>3
<1>5. CASE Register \/ UNCHANGED serverVars
  <2>1. UNCHANGED <<store, lost>>
    BY <1>5 DEF Register, RegisterSkill, RegisterTeachArtifact, serverVars, transferVars, vars
  <2> QED  BY <2>1, <1>3
<1> QED  BY <1>1, <1>2, <1>4, <1>5 DEF ServerNext

\* Hence each of the facts above, once it holds, holds for good.
LEMMA FactsStay ==
    ASSUME ServerTypeOK, [ServerNext]_serverVars, NEW n \in Negotiations
    PROVE  /\ Known(n, store, lost) => Known(n, store', lost')
           /\ Struck(n, store, lost) => Struck(n, store', lost')
           /\ \A g : Enforced(n, g, store, lost) => Enforced(n, g, store', lost')
           /\ \A e : Said(n, e, store, lost) => Said(n, e, store', lost')
<1>1. Lasts(n)
  BY RecordsLast
<1>2. "AGREED" \in Settled
  BY DEF Settled
<1>3. \A e : Said(n, e, store, lost) => Said(n, e, store', lost')
  BY <1>1 DEF Said, Lasts
<1> QED  BY <1>1, <1>2, <1>3 DEF Known, Struck, Enforced, Lasts

\* A step of the server keeps its part of the invariant.
LEMMA ServerInvStep == ServerInv /\ [ServerNext]_serverVars => ServerInv'
<1> SUFFICES ASSUME ServerInv, [ServerNext]_serverVars PROVE ServerInv'
  OBVIOUS
<1>1. ServerTypeOK' /\ AgreementSound'
  BY ServerTypeStep, ServerSoundStep DEF ServerInv
<1>2. LostAreGone' /\ InUse'
  <2>1. CASE Negotiate
    <3>1. LostAreGone'
      BY <2>1 DEF Negotiate, LostAreGone
    <3>2. ASSUME NEW m \in Negotiations, NEW r, Put(m, r), Successor(m, r)
          PROVE  InUse'
      <4>1. r.state \in StatesInUse
        <5>1. store[m] # None => store[m] \in Records /\ store[m].state \in StatesInUse
          BY DEF ServerInv, ServerTypeOK, TypeOK, InUse
        <5>2. CASE store[m] = None
          BY <3>2, <5>2 DEF Successor, Initial, StatesInUse
        <5>3. CASE store[m] # None
          <6>1. \A t : MaybeExpire(store[m], t).state \in StatesInUse
            BY <5>1, <5>3 DEF MaybeExpire, Records, StatesInUse
          <6>2. /\ \A a, t, ttl : Countered(store[m], a, t, ttl).state \in StatesInUse
                /\ \A t : Accepted(store[m], t).state \in StatesInUse
            BY <5>1, <5>3 DEF Countered, Accepted, Records, StatesInUse
          <6>3. /\ [store[m] EXCEPT !.state = "REJECTED"].state \in StatesInUse
                /\ [store[m] EXCEPT !.state = "EXPIRED"].state \in StatesInUse
            BY <5>1, <5>3 DEF Records, StatesInUse
          <6>4. store[m].state # "EXECUTING"
            BY <5>1, <5>3 DEF StatesInUse
          <6> QED  BY <3>2, <5>3, <6>1, <6>2, <6>3, <6>4 DEF Successor
        <5> QED  BY <5>2, <5>3
      <4> QED  BY <3>2, <4>1 DEF InUse, ServerInv, ServerTypeOK, TypeOK, Put
    <3>3. ASSUME UNCHANGED store PROVE InUse'
      BY <3>3 DEF InUse, ServerInv
    <3>4. \/ UNCHANGED store
          \/ \E m \in Negotiations : \E r : Put(m, r) /\ Successor(m, r)
      BY <2>1, StoreSteps DEF Negotiate, ServerInv, ServerTypeOK
    <3> QED  BY <3>1, <3>2, <3>3, <3>4
  <2>2. CASE Restart
    BY <2>2 DEF Restart, Forgotten, LostAreGone, InUse, ServerInv, ServerTypeOK
  <2>3. CASE UNCHANGED <<store, lost>>
    BY <2>3 DEF LostAreGone, InUse, ServerInv
  <2>4. Transfer \/ Register \/ UNCHANGED serverVars => UNCHANGED <<store, lost>>
    BY DEF Transfer, InvokeAgreement, InvokeSkill, TransferTeach, TransferCompose, Complete,
       Register, RegisterSkill, RegisterTeachArtifact, serverVars, transferVars, vars
  <2> QED  BY <2>1, <2>2, <2>3, <2>4 DEF ServerNext
<1> QED  BY <1>1, <1>2 DEF ServerInv

(***************************************************************************)
(* Steps of one connection                                                 *)
(***************************************************************************)

\* The facts stay where they are.
LEMMA HeardStays ==
    ASSUME SessionInv, [ServerNext]_serverVars, UNCHANGED <<learnt, held, heard>>,
           asked' \in [Negotiations -> Nat], delivered' \in [Negotiations -> Nat]
    PROVE  HeardInv'
<1>1. ServerTypeOK
  BY DEF SessionInv, ServerInv
<1>2. \A n \in learnt : Known(n, store', lost')
  BY <1>1, FactsStay DEF SessionInv, HeardInv
<1>3. \A h \in held : Enforced(h.neg, h.agreement, store', lost')
  BY <1>1, FactsStay DEF SessionInv, HeardInv
<1>4. \A h \in heard : h.neg \in Negotiations /\ Said(h.neg, h.error, store', lost')
  BY <1>1, FactsStay DEF SessionInv, HeardInv
<1> QED  BY <1>2, <1>3, <1>4 DEF SessionInv, HeardInv

\* So do a request's address and its reply.
LEMMA MessageStays ==
    ASSUME ServerTypeOK, [ServerNext]_serverVars, NEW r \in Connections
    PROVE  /\ Addressed(r, store, lost) => Addressed(r, store', lost')
           /\ Addressed(r, store, lost) /\ Truthful(r, store, lost) => Truthful(r, store', lost')
<1>1. Addressed(r, store, lost) => Addressed(r, store', lost')
  BY FactsStay, NoneAssumption DEF Addressed
<1>2. ASSUME Addressed(r, store, lost), Truthful(r, store, lost), r.reply # None
      PROVE  Truthful(r, store', lost')
  <2>1. r.reply.neg \in Negotiations \cup {None}
    BY <1>2 DEF Connections, HttpReplies
  <2>2. r.op \in NegotiateOps => r.neg \in Negotiations
    BY <1>2 DEF Addressed
  <2>3. r.op = "accept" => r.op \in NegotiateOps
    BY DEF NegotiateOps
  <2> QED  BY <1>2, <2>1, <2>2, <2>3, FactsStay DEF Truthful
<1> QED  BY <1>1, <1>2 DEF Truthful

\* A step that changes one connection, to a record that is in order.
LEMMA ConnectionStep ==
    ASSUME ServerTypeOK, ConnsInv, [ServerNext]_serverVars,
           NEW c \in Calls, NEW r \in Connections \cup {None},
           conns' = [conns EXCEPT ![c] = r],
           r # None => /\ Addressed(r, store', lost') /\ Truthful(r, store', lost')
                       /\ r.phase = "replied" <=> r.reply # None,
           (r # None /\ r.phase = "running") <=> calls'[c] # None,
           \A d \in Calls : d # c => calls'[d] = calls[d]
    PROVE  ConnsInv'
<1>1. \A d \in Calls : conns'[d] = IF d = c THEN r ELSE conns[d]
  BY DEF ConnsInv
<1>2. conns' \in [Calls -> Connections \cup {None}]
  BY DEF ConnsInv
<1>3. ASSUME NEW d \in Calls, conns'[d] # None
      PROVE  Addressed(conns'[d], store', lost') /\ Truthful(conns'[d], store', lost')
  <2>1. CASE d = c
    BY <1>1, <1>3, <2>1
  <2>2. CASE d # c
    <3>1. /\ conns'[d] = conns[d] /\ conns[d] \in Connections
          /\ Addressed(conns[d], store, lost) /\ Truthful(conns[d], store, lost)
      BY <1>1, <1>3, <2>2 DEF ConnsInv
    <3> QED  BY <3>1, MessageStays
  <2> QED  BY <2>1, <2>2
<1>4. ASSUME NEW d \in Calls
      PROVE  /\ In(d, "running")' <=> calls'[d] # None
             /\ In(d, "replied")' <=> conns'[d] # None /\ conns'[d].reply # None
  <2>1. CASE d = c
    BY <1>1, <2>1 DEF In
  <2>2. CASE d # c
    <3>1. conns'[d] = conns[d] /\ calls'[d] = calls[d]
      BY <1>1, <2>2
    <3> QED  BY <3>1 DEF ConnsInv, In
  <2> QED  BY <2>1, <2>2
<1> QED  BY <1>2, <1>3, <1>4 DEF ConnsInv

\* The same for a connection that is dropped when its exchange is over.
LEMMA BecomeStep ==
    ASSUME ServerTypeOK, ConnsInv, [ServerNext]_serverVars,
           NEW c \in Calls, NEW r \in Connections, Become(c, r),
           Addressed(r, store', lost'), Truthful(r, store', lost'),
           r.phase = "replied" <=> r.reply # None,
           r.phase = "running" <=> calls'[c] # None,
           \A d \in Calls : d # c => calls'[d] = calls[d]
    PROVE  ConnsInv'
<1>1. r # None
  BY SessionAssumption
<1>2. CASE Over(r)
  BY <1>2, ConnectionStep DEF Become, Over
<1>3. CASE ~ Over(r)
  BY <1>1, <1>3, ConnectionStep DEF Become
<1> QED  BY <1>2, <1>3

\* An open connection is a connection, in order.
LEMMA OpenConnection ==
    ASSUME SessionInv, NEW c \in Calls, conns[c] # None
    PROVE  /\ conns[c] \in Connections
           /\ conns[c].by \in Agents
           /\ conns[c].neg \in Negotiations \cup {None}
           /\ Addressed(conns[c], store, lost) /\ Truthful(conns[c], store, lost)
           /\ conns[c].phase = "replied" <=> conns[c].reply # None
           /\ conns[c].phase = "running" <=> calls[c] # None
<1>1. conns[c] \in Connections
  BY DEF SessionInv, ConnsInv
<1>2. conns[c].by \in Agents /\ conns[c].neg \in Negotiations \cup {None}
  BY <1>1, SessionAssumption DEF Connections
<1>3. /\ conns[c].phase = "replied" <=> conns[c].reply # None
      /\ conns[c].phase = "running" <=> calls[c] # None
  BY DEF SessionInv, ConnsInv, In
<1> QED  BY <1>1, <1>2, <1>3 DEF SessionInv, ConnsInv

\* A step of the client or the network is none of the server's.
LEMMA ClientStep ==
    ASSUME SessionInv, UNCHANGED serverVars, ConnsInv', HeardInv'
    PROVE  SessionInv'
BY ServerInvStep DEF SessionInv

LEMMA SendStep ==
    ASSUME SessionInv, NEW c \in Calls, NEW a \in Clients, NEW op \in Ops,
           NEW n \in Negotiations \cup {None}, Send(c, a, op, n)
    PROVE  UNCHANGED serverVars /\ SessionInv'
<1> DEFINE r == [op |-> op, by |-> a, neg |-> n, phase |-> "sent", reply |-> None,
                 waiting |-> TRUE]
<1>0. /\ UNCHANGED <<store, lost, calls>> /\ UNCHANGED serverVars /\ ServerTypeOK
      /\ ConnsInv /\ HeardInv
  BY DEF Send, serverVars, vars, transferVars, SessionInv, ServerInv
<1>1. r \in Connections
  BY DEF Connections
<1>2. Addressed(r, store, lost)
  <2>1. r.op = op /\ r.neg = n /\ r.phase = "sent"
    OBVIOUS
  <2> HIDE DEF r
  <2>2. CASE op \in NegotiateOps
    <3>1. n \in learnt /\ op \notin AgreementOps
      BY <2>2 DEF Send, Nameable, NegotiateOps, AgreementOps
    <3>2. n \in Negotiations /\ n # None /\ Known(n, store, lost)
      BY <1>0, <3>1, NoneAssumption DEF HeardInv
    <3> QED  BY <2>1, <3>1, <3>2 DEF Addressed
  <2>3. CASE op \in AgreementOps
    <3>1. PICK h \in held : h.neg = n
      BY <2>3 DEF Send, Nameable, NegotiateOps, AgreementOps
    <3>2. n \in Negotiations /\ h.agreement \in Agreements /\ Enforced(n, h.agreement, store, lost)
      BY <1>0, <3>1 DEF HeardInv
    <3>3. n # None /\ Known(n, store, lost) /\ Struck(n, store, lost)
      BY <3>2, NoneAssumption DEF Enforced, Known, Struck
    <3> QED  BY <2>1, <3>2, <3>3 DEF Addressed
  <2>4. CASE op \notin NegotiateOps \cup AgreementOps
    <3>1. n = None
      BY <2>4 DEF Send, Nameable, Ops
    <3> QED  BY <2>1, <2>4, <3>1 DEF Addressed
  <2> QED  BY <2>2, <2>3, <2>4
<1>3. Truthful(r, store, lost)
  BY DEF Truthful
<1>4. ConnsInv'
  <2>1. calls[c] = None
    BY <1>0 DEF Send, ConnsInv, In
  <2>2. conns' = [conns EXCEPT ![c] = r]
    BY DEF Send
  <2>3. r.phase = "sent" /\ r.reply = None
    OBVIOUS
  <2> HIDE DEF r
  <2> QED  BY <1>0, <1>1, <1>2, <1>3, <2>1, <2>2, <2>3, ConnectionStep
<1>5. asked' \in [Negotiations -> Nat] /\ UNCHANGED <<learnt, held, heard, delivered>>
  <2>1. op = "invoke" => n \in Negotiations
    BY <1>2 DEF Addressed, AgreementOps
  <2> QED  BY <1>0, <2>1 DEF Send, HeardInv
<1>6. HeardInv'
  BY <1>0, <1>5, HeardStays DEF HeardInv
<1> QED  BY <1>0, <1>4, <1>6, ClientStep

LEMMA LoseStep ==
    ASSUME SessionInv, NEW c \in Calls, Lose(c)
    PROVE  UNCHANGED serverVars /\ SessionInv'
<1> DEFINE r == [conns[c] EXCEPT !.phase = "lost", !.reply = None]
<1>0. /\ UNCHANGED <<store, lost, calls>> /\ UNCHANGED serverVars /\ ServerTypeOK
      /\ ConnsInv /\ HeardInv /\ UNCHANGED clientVars
  BY DEF Lose, serverVars, vars, transferVars, SessionInv, ServerInv
<1>1. /\ conns[c] \in Connections /\ Addressed(conns[c], store, lost) /\ calls[c] = None
  BY OpenConnection DEF Lose, In
<1>2. /\ r \in Connections /\ Addressed(r, store, lost) /\ Truthful(r, store, lost)
      /\ r.phase = "lost" /\ r.reply = None
  BY <1>1 DEF Connections, Addressed, Truthful
<1>3. Become(c, r)
  BY DEF Lose
<1> HIDE DEF r
<1>4. ConnsInv'
  BY <1>0, <1>1, <1>2, <1>3, BecomeStep
<1>5. HeardInv'
  BY <1>0, HeardStays DEF HeardInv, clientVars
<1> QED  BY <1>0, <1>4, <1>5, ClientStep

LEMMA GiveUpStep ==
    ASSUME SessionInv, NEW c \in Calls, GiveUp(c)
    PROVE  UNCHANGED serverVars /\ SessionInv'
<1> DEFINE r == [conns[c] EXCEPT !.waiting = FALSE]
<1>0. /\ UNCHANGED <<store, lost, calls>> /\ UNCHANGED serverVars /\ ServerTypeOK
      /\ ConnsInv /\ HeardInv /\ UNCHANGED clientVars
  BY DEF GiveUp, serverVars, vars, transferVars, SessionInv, ServerInv
<1>1. /\ conns[c] \in Connections
      /\ Addressed(conns[c], store, lost) /\ Truthful(conns[c], store, lost)
      /\ conns[c].phase = "replied" <=> conns[c].reply # None
      /\ conns[c].phase = "running" <=> calls[c] # None
  BY OpenConnection DEF GiveUp
<1>2. /\ r \in Connections
      /\ r.op = conns[c].op /\ r.neg = conns[c].neg /\ r.phase = conns[c].phase
      /\ r.reply = conns[c].reply
  BY <1>1 DEF Connections
<1>3. Become(c, r)
  BY DEF GiveUp
<1> HIDE DEF r
<1>4. Addressed(r, store, lost) /\ Truthful(r, store, lost)
  BY <1>1, <1>2 DEF Addressed, Truthful
<1>5. ConnsInv'
  BY <1>0, <1>1, <1>2, <1>3, <1>4, BecomeStep
<1>6. HeardInv'
  BY <1>0, HeardStays DEF HeardInv, clientVars
<1> QED  BY <1>0, <1>5, <1>6, ClientStep

\* What was heard was said.
LEMMA DeliverStep ==
    ASSUME SessionInv, NEW c \in Calls, Deliver(c)
    PROVE  UNCHANGED serverVars /\ SessionInv'
<1> DEFINE r == conns[c]
<1>0. /\ UNCHANGED <<store, lost, calls>> /\ UNCHANGED serverVars /\ ServerTypeOK
      /\ ConnsInv /\ HeardInv
  BY DEF Deliver, serverVars, vars, transferVars, SessionInv, ServerInv
<1>1. /\ r \in Connections /\ Addressed(r, store, lost) /\ Truthful(r, store, lost)
      /\ calls[c] = None /\ r.reply # None
  BY OpenConnection DEF Deliver, In
<1>2. /\ r.reply \in HttpReplies /\ r.reply.neg \in Negotiations \cup {None}
      /\ r.reply.agreement \in Agreements \cup {None}
  BY <1>1 DEF Connections, HttpReplies
<1>3. ConnsInv'
  <2>1. conns' = [conns EXCEPT ![c] = None]
    BY DEF Deliver
  <2> QED  BY <1>0, <1>1, <2>1, ConnectionStep
<1>4. CASE r.reply.outcome = "ok"
  <2>1. /\ learnt' = learnt \cup ({r.reply.neg} \ {None})
        /\ held' = IF r.reply.agreement = None THEN held
                   ELSE held \cup {[neg |-> r.neg, agreement |-> r.reply.agreement]}
        /\ delivered' = IF r.op = "invoke" THEN [delivered EXCEPT ![r.neg] = @ + 1]
                        ELSE delivered
        /\ UNCHANGED <<heard, asked, store, lost>>
    BY <1>0, <1>4 DEF Deliver
  <2>2. learnt' \subseteq Negotiations /\ \A n \in learnt' : Known(n, store, lost)
    BY <1>0, <1>1, <1>2, <1>4, <2>1 DEF Truthful, HeardInv
  <2>3. /\ held' \subseteq [neg : Negotiations, agreement : Agreements]
        /\ \A h \in held' : Enforced(h.neg, h.agreement, store, lost)
    <3>1. CASE r.reply.agreement = None
      BY <1>0, <2>1, <3>1 DEF HeardInv
    <3>2. CASE r.reply.agreement # None
      <4>1. /\ r.neg \in Negotiations /\ r.reply.agreement \in Agreements
            /\ Enforced(r.neg, r.reply.agreement, store, lost)
        BY <1>1, <1>2, <3>2 DEF Truthful, Addressed, NegotiateOps
      <4> QED  BY <1>0, <2>1, <3>2, <4>1 DEF HeardInv
    <3> QED  BY <3>1, <3>2
  <2>4. delivered' \in [Negotiations -> Nat]
    BY <1>0, <1>1, <2>1 DEF HeardInv, Addressed, AgreementOps
  <2> QED  BY <1>0, <1>3, <2>1, <2>2, <2>3, <2>4, ClientStep DEF HeardInv
<1>5. CASE r.reply.outcome # "ok"
  <2> DEFINE e == ErrorClass(r.reply.outcome)
  <2>1. /\ heard' = IF ~ Lasting(r) THEN heard
                    ELSE heard \cup {[neg |-> r.neg, error |-> e]}
        /\ UNCHANGED <<learnt, held, delivered, asked, store, lost>>
    BY <1>0, <1>5 DEF Deliver
  <2>2. Lasting(r) => r.neg \in Negotiations /\ Said(r.neg, e, store, lost)
    <3>1. CASE r.op \in NegotiateOps
      BY <1>1, <1>5, <3>1 DEF Truthful, Addressed
    <3>2. CASE r.op = "invoke" /\ e = "AgreementViolatedError"
      BY <1>1, <3>2 DEF Addressed, AgreementOps, Said
    <3> QED  BY <3>1, <3>2 DEF Lasting
  <2> HIDE DEF e
  <2>3. \A h \in heard' : h.neg \in Negotiations /\ Said(h.neg, h.error, store, lost)
    BY <1>0, <2>1, <2>2 DEF HeardInv
  <2> QED  BY <1>0, <1>3, <2>1, <2>3, ClientStep DEF HeardInv
<1> QED  BY <1>4, <1>5

\* The server's answer to a transfer request names no new negotiation and gives no
\* agreement.
LEMMA PlainReply ==
    ASSUME NEW r \in Connections, NEW s, NEW l, r.op \notin NegotiateOps,
           r.reply # None => r.reply.agreement = None,
           r.reply # None /\ r.reply.neg # None => Known(r.reply.neg, s, l)
    PROVE  Truthful(r, s, l)
BY DEF Truthful

\* Finish, and a transfer request that is answered at once.
LEMMA RepliedStep ==
    ASSUME SessionInv, [ServerNext]_serverVars, NEW c \in Calls, conns[c] # None,
           conns[c].op \notin NegotiateOps,
           NEW outcome \in Outcomes, ReplyWith(c, outcome, conns[c].neg, None),
           conns[c].neg # None => Known(conns[c].neg, store, lost),
           calls'[c] = None, \A d \in Calls : d # c => calls'[d] = calls[d]
    PROVE  ConnsInv'
<1> DEFINE reply == [outcome |-> outcome, neg |-> conns[c].neg, agreement |-> None,
                      byHandler |-> conns[c].phase = "running"]
           r == [conns[c] EXCEPT !.phase = "replied", !.reply = reply]
<1>1. /\ conns[c] \in Connections /\ conns[c].neg \in Negotiations \cup {None}
      /\ Addressed(conns[c], store, lost) /\ ServerTypeOK /\ ConnsInv
  BY OpenConnection DEF SessionInv, ServerInv
<1>2. reply \in HttpReplies /\ reply # None
  <2>1. (conns[c].phase = "running") \in BOOLEAN /\ None \in Agreements \cup {None}
    OBVIOUS
  <2>2. reply \in HttpReplies
    BY <1>1, <2>1, Zenon DEF HttpReplies
  <2> QED  BY <2>2, SessionAssumption
<1>3. /\ r \in Connections /\ r.op = conns[c].op /\ r.neg = conns[c].neg
      /\ r.phase = "replied" /\ r.reply = reply
  BY <1>1, <1>2 DEF Connections
<1>4. reply.neg = conns[c].neg /\ reply.agreement = None
  OBVIOUS
<1>5. Become(c, r)
  BY DEF ReplyWith
<1> HIDE DEF r, reply
<1>6. Addressed(r, store, lost)
  BY <1>1, <1>3 DEF Addressed
<1>7. Truthful(r, store, lost)
  BY <1>3, <1>4, PlainReply
<1>8. Addressed(r, store', lost') /\ Truthful(r, store', lost')
  BY <1>1, <1>3, <1>6, <1>7, MessageStays
<1> QED  BY <1>1, <1>2, <1>3, <1>5, <1>8, BecomeStep

\* A step of the server that tells the client nothing yet.
LEMMA ServerStep ==
    ASSUME SessionInv, [ServerNext]_serverVars, UNCHANGED clientVars, ConnsInv'
    PROVE  SessionInv'
<1>1. HeardInv'
  BY HeardStays DEF clientVars, SessionInv, HeardInv
<1> QED  BY <1>1, ServerInvStep DEF SessionInv

LEMMA FinishStep ==
    ASSUME SessionInv, NEW c \in Calls, Finish(c)
    PROVE  [ServerNext]_serverVars /\ SessionInv'
<1>1. [ServerNext]_serverVars
  BY DEF Finish, ServerNext, Transfer
<1>2. conns[c] # None /\ conns[c].phase = "running"
  BY DEF Finish, In
<1>3. rpc'.outcome \in Outcomes
  BY ServerAssumption DEF Finish, Complete, Reply, Outcomes
<1>4. /\ calls'[c] = None /\ \A d \in Calls : d # c => calls'[d] = calls[d]
  BY DEF Finish, Complete, SessionInv, ServerInv, ServerTypeOK
<1>5. UNCHANGED clientVars /\ ReplyWith(c, rpc'.outcome, conns[c].neg, None)
  BY DEF Finish
<1>6. Addressed(conns[c], store, lost)
  BY <1>2, OpenConnection
<1>7. conns[c].op \notin NegotiateOps /\ (conns[c].neg # None => Known(conns[c].neg, store, lost))
  BY <1>2, <1>6 DEF Addressed
<1>8. ConnsInv'
  BY <1>1, <1>2, <1>3, <1>4, <1>5, <1>7, RepliedStep
<1> QED  BY <1>1, <1>5, <1>8, ServerStep

\* A transfer handler answers at once or leaves its call waiting; no other call is
\* touched.
Answered(c) ==
    /\ calls'[c] # None <=> rpc'.outcome = "started"
    /\ \A d \in Calls : d # c => calls'[d] = calls[d]
    /\ rpc'.outcome \in Outcomes

LEMMA AnsweredAtOnce ==
    ASSUME NEW c \in Calls, calls[c] = None, UNCHANGED calls, NEW op, NEW a, NEW n,
           NEW outcome \in Outcomes \ {"started"}, Reply(op, a, n, outcome)
    PROVE  Answered(c)
BY DEF Answered, Reply

LEMMA StartAnswers ==
    ASSUME ServerTypeOK, NEW c \in Calls, calls[c] = None, NEW a \in Agents,
           NEW n \in Negotiations \cup {None}, NEW s \in Skills, Start(c, a, n, s)
    PROVE  Answered(c)
<1>1. CASE UNCHANGED calls /\ Reply("invoke", a, n, "UnknownSkillError")
  BY <1>1, AnsweredAtOnce DEF Outcomes, Errors
<1>2. CASE /\ calls' = [calls EXCEPT ![c] = [neg |-> n, skill |-> s, by |-> a]]
           /\ Reply("invoke", a, n, "started")
  <2>1. [neg |-> n, skill |-> s, by |-> a] # None
    BY ServerAssumption DEF CallRecords
  <2> QED  BY <1>2, <2>1 DEF Answered, Reply, Outcomes, ServerTypeOK
<1> QED  BY <1>1, <1>2 DEF Start

LEMMA InvokeAnswers ==
    ASSUME ServerTypeOK, NEW c \in Calls, NEW a \in Agents, NEW n \in Negotiations,
           InvokeAgreement(c, a, n)
    PROVE  Answered(c)
<1>1. calls[c] = None
  BY DEF InvokeAgreement, Idle
<1>2. CASE AgreementError(n, a) # None
  BY <1>1, <1>2, AgreementErrorValues, AnsweredAtOnce DEF InvokeAgreement, Outcomes, Errors
<1>3. CASE AgreementError(n, a) = None
  <2>1. store[n].skill \in Skills
    BY <1>3, InForce DEF Honoured, ServerTypeOK, TypeOK, Records
  <2>2. ASSUME Start(c, a, n, store[n].skill) PROVE Answered(c)
    BY <1>1, <2>1, <2>2, StartAnswers
  <2>3. ASSUME UNCHANGED calls, Reply("invoke", a, n, "AgreementViolatedError")
        PROVE  Answered(c)
    BY <1>1, <2>3, AnsweredAtOnce DEF Outcomes
  <2> QED  BY <1>3, <2>2, <2>3 DEF InvokeAgreement, LeaseInvoke
<1> QED  BY <1>2, <1>3

LEMMA ReleaseAnswers ==
    ASSUME ServerTypeOK, NEW c \in Calls, calls[c] = None, NEW a \in Agents,
           NEW n \in Negotiations, TransferTeach(a, n) \/ TransferCompose(a, n)
    PROVE  Answered(c)
<1>1. CASE TransferTeach(a, n)
  BY <1>1, AgreementErrorValues, AnsweredAtOnce DEF TransferTeach, Outcomes, Errors
<1>2. CASE TransferCompose(a, n)
  <2>1. CASE AgreementError(n, a) # None
    BY <1>2, <2>1, AgreementErrorValues, AnsweredAtOnce DEF TransferCompose, Outcomes, Errors
  <2>2. CASE AgreementError(n, a) = None
    <3>1. ComposeCheck[store[n].agreement.terms] \in Verdicts
      BY <2>2, InForce, ServerAssumption DEF Honoured, ServerTypeOK, TypeOK, Records, Agreements
    <3>2. CompositeError(store[n].agreement) \in Outcomes \ {"started"}
      BY <3>1 DEF CompositeError, Verdicts, Outcomes, Errors
    <3> HIDE DEF CompositeError
    <3> QED  BY <1>2, <2>2, <3>2, AnsweredAtOnce DEF TransferCompose, Outcomes
  <2> QED  BY <2>1, <2>2
<1> QED  BY <1>1, <1>2

\* task.invoke, transfer.teach and transfer.compose: answered, or running from now.
LEMMA TransferStep ==
    ASSUME SessionInv, NEW c \in Calls, ServeTransfer(c)
    PROVE  [ServerNext]_serverVars /\ SessionInv'
<1> DEFINE a == conns[c].by
           n == conns[c].neg
           op == conns[c].op
<1>1. /\ conns[c] # None /\ conns[c].phase = "sent" /\ op \notin NegotiateOps
      /\ conns[c] \in Connections /\ a \in Agents
      /\ Addressed(conns[c], store, lost) /\ calls[c] = None /\ conns[c].reply = None
  <2>1. conns[c] # None /\ conns[c].phase = "sent"
    BY DEF ServeTransfer, In
  <2> QED  BY <2>1, OpenConnection DEF ServeTransfer, AgreementOps, NegotiateOps
<1>2. op \in AgreementOps => n \in Negotiations
  BY <1>1 DEF Addressed
<1>3. \/ op = "invoke" /\ InvokeAgreement(c, a, n)
      \/ op = "invoke_skill" /\ \E s \in Skills : InvokeSkill(c, a, s)
      \/ op = "teach" /\ TransferTeach(a, n)
      \/ op = "compose" /\ TransferCompose(a, n)
  BY DEF ServeTransfer, AgreementOps
<1>4. ServerNext
  BY <1>1, <1>2, <1>3 DEF ServerNext, Transfer, AgreementOps
<1>5. ServerTypeOK
  BY DEF SessionInv, ServerInv
<1>6. Answered(c)
  <2>1. ASSUME NEW s \in Skills, InvokeSkill(c, a, s) PROVE Answered(c)
    BY <1>1, <1>5, <2>1, StartAnswers DEF InvokeSkill
  <2> QED  BY <1>1, <1>2, <1>3, <1>5, <2>1, InvokeAnswers, ReleaseAnswers DEF AgreementOps
<1>7. ConnsInv'
  <2>1. CASE rpc'.outcome = "started"
    <3> DEFINE r == [conns[c] EXCEPT !.phase = "running"]
    <3>1. /\ r \in Connections /\ r.op = op /\ r.neg = n /\ r.phase = "running"
          /\ r.reply = None
      BY <1>1 DEF Connections
    <3>2. Become(c, r)
      BY <2>1 DEF ServeTransfer
    <3> HIDE DEF r
    <3>3. Addressed(r, store, lost) /\ Truthful(r, store, lost)
      BY <1>1, <3>1 DEF Addressed, Truthful
    <3>4. Addressed(r, store', lost') /\ Truthful(r, store', lost')
      BY <1>4, <1>5, <3>1, <3>3, MessageStays
    <3> QED
      BY <1>4, <1>5, <1>6, <2>1, <3>1, <3>2, <3>4, BecomeStep DEF Answered, SessionInv
  <2>2. CASE rpc'.outcome # "started"
    <3>1. ReplyWith(c, rpc'.outcome, n, None)
      BY <2>2 DEF ServeTransfer
    <3>2. n # None => Known(n, store, lost)
      BY <1>1 DEF Addressed
    <3> HIDE DEF a, n, op
    <3> QED  BY <1>1, <1>4, <1>6, <2>2, <3>1, <3>2, RepliedStep DEF Answered, n, op
  <2> QED  BY <2>1, <2>2
<1>8. UNCHANGED clientVars
  BY DEF ServeTransfer
<1> QED  BY <1>4, <1>7, <1>8, ServerStep

\* A restart ends what was running, and loses nothing else that is in flight.
LEMMA RestartStep ==
    ASSUME SessionInv, SessionRestart
    PROVE  [ServerNext]_serverVars /\ SessionInv'
<1>1. /\ ServerNext /\ ServerTypeOK /\ UNCHANGED clientVars
      /\ \A c \in Calls : calls'[c] = None
  BY DEF SessionRestart, Restart, ServerNext, SessionInv, ServerInv
<1>2. ASSUME NEW c \in Calls
      PROVE  /\ conns'[c] \in Connections \cup {None}
             /\ ~ In(c, "running")'
             /\ In(c, "replied")' <=> conns'[c] # None /\ conns'[c].reply # None
             /\ conns'[c] # None =>
                  /\ Addressed(conns'[c], store', lost')
                  /\ Truthful(conns'[c], store', lost')
  <2>0. conns'[c] = IF ~ In(c, "running") THEN conns[c]
                    ELSE IF conns[c].waiting THEN [conns[c] EXCEPT !.phase = "lost"]
                    ELSE None
    BY DEF SessionRestart
  <2>1. CASE conns'[c] = None
    BY <2>1 DEF In
  <2>2. CASE ~ In(c, "running") /\ conns[c] # None
    <3>1. /\ conns[c] \in Connections /\ Addressed(conns[c], store, lost)
          /\ Truthful(conns[c], store, lost)
          /\ conns[c].phase = "replied" <=> conns[c].reply # None
      BY <2>2, OpenConnection
    <3>2. conns'[c] = conns[c]
      BY <2>0, <2>2
    <3>3. Addressed(conns[c], store', lost') /\ Truthful(conns[c], store', lost')
      BY <1>1, <3>1, MessageStays
    <3> QED  BY <2>2, <3>1, <3>2, <3>3 DEF In
  <2>3. CASE In(c, "running") /\ conns[c].waiting
    <3> DEFINE r == [conns[c] EXCEPT !.phase = "lost"]
    <3>1. /\ conns[c] # None /\ conns[c] \in Connections /\ conns[c].reply = None
          /\ Addressed(conns[c], store, lost)
      BY <2>3, OpenConnection DEF In
    <3>2. /\ r \in Connections /\ r.op = conns[c].op /\ r.neg = conns[c].neg
          /\ r.phase = "lost" /\ r.reply = None
      BY <3>1 DEF Connections
    <3>3. conns'[c] = r
      BY <2>0, <2>3
    <3> HIDE DEF r
    <3>4. Addressed(r, store, lost) /\ Truthful(r, store, lost)
      BY <3>1, <3>2 DEF Addressed, Truthful
    <3>5. Addressed(r, store', lost') /\ Truthful(r, store', lost')
      BY <1>1, <3>2, <3>4, MessageStays
    <3> QED  BY <3>2, <3>3, <3>5 DEF In
  <2>4. In(c, "running") \/ conns[c] # None \/ conns'[c] = None
    BY <2>0
  <2> QED  BY <2>0, <2>1, <2>2, <2>3, <2>4
<1>3. conns' \in [Calls -> Connections \cup {None}]
  <2>1. DOMAIN conns' = Calls /\ conns' = [c \in Calls |-> conns'[c]]
    BY DEF SessionRestart
  <2> QED  BY <1>2, <2>1
<1>4. ConnsInv'
  BY <1>1, <1>2, <1>3 DEF ConnsInv
<1> QED  BY <1>1, <1>4, ServerStep

\* A record that is put where no lost one was brings none back.
LEMMA LostStayLost ==
    ASSUME ServerInv, UNCHANGED store \/ \E n \in Negotiations \ lost : \E r : Put(n, r)
    PROVE  \A n \in lost : store'[n] = None
<1>1. \A n \in lost : store[n] = None /\ n \in Negotiations
  BY DEF ServerInv, LostAreGone, ServerTypeOK
<1>2. CASE UNCHANGED store
  BY <1>1, <1>2
<1>3. ASSUME NEW n \in Negotiations \ lost, NEW r, Put(n, r)
      PROVE  \A m \in lost : store'[m] = None
  BY <1>1, <1>3 DEF Put, ServerInv, ServerTypeOK, TypeOK
<1> QED  BY <1>2, <1>3

\* What the embedding program does is a step of the server that no connection sees.
LEMMA BackgroundStep ==
    ASSUME SessionInv, Background
    PROVE  [ServerNext]_serverVars /\ SessionInv'
<1>1. /\ ServerTypeOK /\ ServerInv /\ ConnsInv
      /\ \A n \in Negotiations : store[n] # None => n \in Negotiations \ lost
      /\ UNCHANGED <<conns, clientVars, calls>>
  BY DEF Background, SessionInv, ServerInv, LostAreGone, Register, RegisterSkill,
     RegisterTeachArtifact
<1>2. [ServerNext]_serverVars
  <2>1. CASE Register
    BY <2>1 DEF ServerNext
  <2>2. CASE /\ Local \/ Tick \/ StepBack
             /\ rpc' = None
             /\ UNCHANGED <<handlers, artifacts, lease, calls, ran, lost>>
    <3>1. ASSUME NEW n \in Negotiations, Get(n) \/ Expire(n)
          PROVE  UNCHANGED store \/ \E m \in Negotiations \ lost : \E r : Put(m, r)
      BY <1>1, <3>1 DEF Get, Expire, Refresh, Apply
    <3>2. Tick \/ StepBack => UNCHANGED store
      BY DEF Tick, StepBack
    <3>3. \A n \in lost : store'[n] = None
      BY <1>1, <2>2, <3>1, <3>2, LostStayLost DEF Local
    <3> QED  BY <2>2, <3>3 DEF ServerNext, Negotiate, Next
  <2> QED  BY <2>1, <2>2 DEF Background
<1>3. ConnsInv'
  <2>1. ASSUME NEW c \in Calls, conns[c] # None
        PROVE  Addressed(conns[c], store', lost') /\ Truthful(conns[c], store', lost')
    BY <1>1, <1>2, <2>1, OpenConnection, MessageStays
  <2> QED  BY <1>1, <2>1 DEF ConnsInv, In
<1> QED  BY <1>1, <1>2, <1>3, ServerStep

(***************************************************************************)
(* The negotiate requests                                                  *)
(***************************************************************************)

\* What the answer to a request of connection c says.
AnswerHolds(c) ==
    LET n == conns[c].neg  op == conns[c].op IN
    /\ answer'.outcome \in Errors \cup {"ok"} /\ answer'.neg \in Negotiations \cup {None}
    /\ answer'.outcome = "ok" /\ answer'.neg # None => store'[answer'.neg] # None
    /\ op = "accept" /\ answer'.outcome = "ok" =>
          /\ store'[n].state = "AGREED" /\ store'[n] # None
          /\ store'[n].agreement \in Agreements
    /\ op \in NegotiateOps /\ answer'.outcome # "ok" =>
          Said(n, ErrorClass(answer'.outcome), store', lost)

LEMMA ProposeAnswers ==
    ASSUME ServerInv, NEW c \in Calls, conns[c].op = "propose", NEW a \in Agents,
           NEW s \in Skills, NEW m \in TransferModes,
           \/ ProposeFails(a, s, m)
           \/ \E new \in Negotiations \ lost, t \in Terms, ttl \in Ttls :
                 Propose(new, a, s, m, t, ttl)
    PROVE  /\ Request /\ \A n \in lost : store'[n] = None
           /\ AnswerHolds(c)
<1>0. conns[c].op \notin NegotiateOps /\ conns[c].op # "accept"
  BY DEF NegotiateOps
<1>1. CASE ProposeFails(a, s, m)
  <2>1. Request
    BY <1>1 DEF Request
  <2>2. UNCHANGED store
    BY <1>1 DEF ProposeFails, ProposeRefused, ProposeOverflows
  <2>3. AnswerHolds(c)
    BY <1>0, <1>1 DEF AnswerHolds, ProposeFails, ProposeRefused, ProposeOverflows, Answer,
       Outcomes, Errors
  <2> QED  BY <2>1, <2>2, <2>3, LostStayLost
<1>2. ASSUME NEW new \in Negotiations \ lost, NEW t \in Terms, NEW ttl \in Ttls,
             Propose(new, a, s, m, t, ttl)
      PROVE  /\ Request /\ \A n \in lost : store'[n] = None
             /\ AnswerHolds(c)
  <2>1. Request
    BY <1>2 DEF Request
  <2>2. Put(new, Initial(a, s, m, t, ttl))
    BY <1>2 DEF Propose
  <2>3. store'[new] # None
    BY <1>2, <2>2, InitialIsRecord, NoneAssumption
    DEF Propose, Put, ServerInv, ServerTypeOK, TypeOK
  <2>4. AnswerHolds(c)
    BY <1>0, <1>2, <2>3 DEF AnswerHolds, Propose, Answer, Outcomes
  <2> QED  BY <2>1, <2>2, <2>4, LostStayLost
<1> QED  BY <1>1, <1>2

LEMMA RefusalAnswers ==
    ASSUME SessionInv, NEW c \in Calls, conns[c].op \in NegotiateOps,
           NEW n \in Negotiations, conns[c].neg = n, Known(n, store, lost), NEW a \in Agents,
           RequestFails(n, a, conns[c].op)
    PROVE  /\ UNCHANGED store \/ (n \notin lost /\ \E r : Put(n, r))
           /\ AnswerHolds(c)
<1> DEFINE op == conns[c].op
<1>0. /\ store[n] \in Records \cup {None} /\ now \in Int
      /\ store[n] # None => store[n].state \in StatesInUse /\ n \notin lost
  BY DEF SessionInv, ServerInv, ServerTypeOK, TypeOK, InUse, LostAreGone
<1>1. CASE store[n] = None /\ answer' = Answer(op, a, n, "UnknownSkillError", None)
           /\ UNCHANGED store
  <2>1. n \in lost
    BY <1>1 DEF Known
  <2> QED  BY <1>1, <2>1 DEF AnswerHolds, Answer, ErrorClass, Said, Outcomes, Errors
<1>2. CASE answer' = Answer(op, a, n, "AuthorizationFailedError", None) /\ UNCHANGED store
  BY <1>2 DEF AnswerHolds, Answer, ErrorClass, Said, Outcomes, Errors
<1>3. CASE TooLate(n, a, op)
  <2>1. /\ store[n] # None /\ store[n] \in Records /\ n \notin lost
        /\ store' = [store EXCEPT ![n] = MaybeExpire(store[n], now)]
        /\ ~ Permits(store[n], op, now)
        /\ answer'.outcome = "NegotiationStateError" /\ answer'.neg = n
    BY <1>0, <1>3 DEF TooLate, Refresh, Put, Answer
  <2>2. MaybeExpire(store[n], now).state \in Settled /\ MaybeExpire(store[n], now) # None
    <3>1. MaybeExpire(store[n], now).state \in StatesInUse
      BY <1>0, <2>1 DEF MaybeExpire, Records, StatesInUse
    <3>2. MaybeExpire(store[n], now).state # "PROPOSED"
      BY <2>1 DEF Permits, AcceptedIn, TerminalStates, NegotiateOps
    <3>3. MaybeExpire(store[n], now) \in Records
      BY <1>0, <2>1, MaybeExpireIsRecord
    <3> QED  BY <3>1, <3>2, <3>3, NoneAssumption DEF StatesInUse, Settled, TerminalStates
  <2>3. store'[n] = MaybeExpire(store[n], now)
    BY <2>1 DEF SessionInv, ServerInv, ServerTypeOK, TypeOK
  <2>4. AnswerHolds(c)
    BY <2>1, <2>2, <2>3 DEF AnswerHolds, ErrorClass, Said, Outcomes, Errors
  <2> QED  BY <2>1, <2>4 DEF Put
<1>4. CASE DeadlineOverflows(n, a, op)
  <2>1. answer' = Answer(op, a, n, "InternalError", None) /\ UNCHANGED store
    BY <1>4 DEF DeadlineOverflows
  <2> QED  BY <2>1 DEF AnswerHolds, Answer, ErrorClass, Said, Outcomes, Errors
<1> QED  BY <1>1, <1>2, <1>3, <1>4 DEF RequestFails, Refused

LEMMA TransitionAnswers ==
    ASSUME SessionInv, NEW c \in Calls, NEW n \in Negotiations, conns[c].neg = n,
           NEW a \in Agents,
           \/ /\ conns[c].op = "counter_propose"
              /\ \E t \in Terms, ttl \in Ttls : CounterPropose(n, a, t, ttl)
           \/ conns[c].op = "accept" /\ Accept(n, a)
           \/ conns[c].op = "reject" /\ Reject(n, a)
    PROVE  /\ n \notin lost /\ \E r : Put(n, r)
           /\ AnswerHolds(c)
<1>0. /\ store \in [Negotiations -> Records \cup {None}] /\ now \in Dates
      /\ store[n] # None => n \notin lost
  BY ConstantsAssumption DEF SessionInv, ServerInv, ServerTypeOK, TypeOK, LostAreGone
<1>1. CASE conns[c].op = "accept" /\ Accept(n, a)
  <2>1. /\ store[n] \in Records /\ n \notin lost
        /\ Put(n, Accepted(store[n], now)) /\ ValidUntil(store[n], now) \in Dates
        /\ answer'.outcome = "ok" /\ answer'.neg = n
    BY <1>0, <1>1 DEF Accept, Admits, Apply, Answer
  <2>2. /\ Accepted(store[n], now) \in Records /\ Accepted(store[n], now).state = "AGREED"
        /\ Accepted(store[n], now).agreement = BuildAgreement(store[n], now)
        /\ BuildAgreement(store[n], now) \in Agreements
    BY <1>0, <2>1, AcceptedIsRecord, BuildAgreementSound
  <2>3. store'[n] = Accepted(store[n], now) /\ store'[n] # None
    BY <1>0, <2>1, <2>2, NoneAssumption DEF Put
  <2>4. AnswerHolds(c)
    BY <2>1, <2>2, <2>3 DEF AnswerHolds, Outcomes
  <2> QED  BY <2>1, <2>4
<1>2. CASE conns[c].op = "reject" /\ Reject(n, a)
  <2> DEFINE r == [store[n] EXCEPT !.state = "REJECTED"]
  <2>1. /\ store[n] \in Records /\ n \notin lost /\ Put(n, r)
        /\ answer'.outcome = "ok" /\ answer'.neg = n
    BY <1>0, <1>2 DEF Reject, Admits, Apply, Answer
  <2>2. r \in Records
    BY <2>1 DEF Records, States
  <2> HIDE DEF r
  <2>3. store'[n] # None
    BY <1>0, <2>1, <2>2, NoneAssumption DEF Put
  <2>4. AnswerHolds(c)
    BY <1>2, <2>1, <2>3 DEF AnswerHolds, Outcomes
  <2> QED  BY <2>1, <2>4
<1>3. ASSUME conns[c].op = "counter_propose", NEW t \in Terms, NEW ttl \in Ttls,
             CounterPropose(n, a, t, ttl)
      PROVE  n \notin lost /\ (\E r : Put(n, r)) /\ AnswerHolds(c)
  <2> DEFINE r == Countered(store[n], a, t, ttl)
  <2>1. /\ store[n] \in Records /\ n \notin lost /\ Put(n, r) /\ now + ttl \in Dates
        /\ answer'.outcome = "ok" /\ answer'.neg = n
    BY <1>0, <1>3 DEF CounterPropose, Admits, Apply, Answer
  <2>2. r \in Records
    BY <1>0, <2>1, CounteredIsRecord
  <2> HIDE DEF r
  <2>3. store'[n] # None
    BY <1>0, <2>1, <2>2, NoneAssumption DEF Put
  <2>4. AnswerHolds(c)
    BY <1>3, <2>1, <2>3 DEF AnswerHolds, Outcomes
  <2> QED  BY <2>1, <2>4
<1> QED  BY <1>1, <1>2, <1>3

\* negotiate.*: what the answer says.
LEMMA NegotiateAnswers ==
    ASSUME SessionInv, NEW c \in Calls, ServeNegotiate(c)
    PROVE  Request /\ (\A m \in lost : store'[m] = None) /\ AnswerHolds(c)
<1> DEFINE a == conns[c].by
           n == conns[c].neg
           op == conns[c].op
<1>1. /\ conns[c] # None /\ conns[c].phase = "sent" /\ op \in {"propose"} \cup NegotiateOps
      /\ conns[c] \in Connections /\ a \in Agents /\ n \in Negotiations \cup {None}
      /\ Addressed(conns[c], store, lost) /\ calls[c] = None
  <2>1. conns[c] # None /\ conns[c].phase = "sent"
    BY DEF ServeNegotiate, In
  <2> QED  BY <2>1, OpenConnection DEF ServeNegotiate
<1>2. op \in NegotiateOps => n \in Negotiations /\ Known(n, store, lost)
  BY <1>1 DEF Addressed
<1>3. /\ ServerInv /\ ServerTypeOK
      /\ UNCHANGED <<handlers, artifacts, lease, calls, ran, lost, clientVars>> /\ rpc' = None
  BY DEF SessionInv, ServerInv, ServeNegotiate
<1>4. CASE op = "propose"
  BY <1>1, <1>3, <1>4, ProposeAnswers DEF ServeNegotiate, NegotiateOps
<1>5. CASE op \in NegotiateOps /\ RequestFails(n, a, op)
  <2>1. Request
    BY <1>1, <1>2, <1>5 DEF Request, NegotiateOps
  <2> QED  BY <1>1, <1>2, <1>3, <1>5, <2>1, RefusalAnswers, LostStayLost
<1>6. CASE \/ /\ op = "counter_propose"
              /\ \E t \in Terms, ttl \in Ttls : CounterPropose(n, a, t, ttl)
           \/ op = "accept" /\ Accept(n, a)
           \/ op = "reject" /\ Reject(n, a)
  <2>1. n \in Negotiations
    BY <1>2, <1>6 DEF NegotiateOps
  <2>2. Request
    BY <1>1, <1>6, <2>1 DEF Request
  <2> QED  BY <1>1, <1>3, <1>6, <2>1, <2>2, TransitionAnswers, LostStayLost
<1> QED  BY <1>1, <1>4, <1>5, <1>6 DEF ServeNegotiate

\* negotiate.*: the server takes a step of its own, and the reply says what it did.
LEMMA NegotiateStep ==
    ASSUME SessionInv, NEW c \in Calls, ServeNegotiate(c)
    PROVE  [ServerNext]_serverVars /\ SessionInv'
<1> DEFINE a == conns[c].by
           n == conns[c].neg
           op == conns[c].op
<1>1. /\ conns[c] # None /\ conns[c].phase = "sent" /\ op \in {"propose"} \cup NegotiateOps
      /\ conns[c] \in Connections /\ a \in Agents /\ n \in Negotiations \cup {None}
      /\ Addressed(conns[c], store, lost) /\ calls[c] = None
  <2>1. conns[c] # None /\ conns[c].phase = "sent"
    BY DEF ServeNegotiate, In
  <2> QED  BY <2>1, OpenConnection DEF ServeNegotiate
<1>2. op \in NegotiateOps => n \in Negotiations /\ Known(n, store, lost)
  BY <1>1 DEF Addressed
<1>3. /\ ServerInv /\ ServerTypeOK
      /\ UNCHANGED <<handlers, artifacts, lease, calls, ran, lost, clientVars>> /\ rpc' = None
  BY DEF SessionInv, ServerInv, ServeNegotiate
<1>4. Request /\ (\A m \in lost : store'[m] = None) /\ AnswerHolds(c)
  BY NegotiateAnswers
<1>5. ServerNext
  BY <1>3, <1>4 DEF ServerNext, Negotiate, Next
<1> DEFINE g == IF op = "accept" /\ answer'.outcome = "ok" THEN store'[n].agreement ELSE None
           reply == [outcome |-> answer'.outcome, neg |-> answer'.neg, agreement |-> g,
                      byHandler |-> conns[c].phase = "running"]
           r == [conns[c] EXCEPT !.phase = "replied", !.reply = reply]
<1>6. Become(c, r)
  BY DEF ServeNegotiate, ReplyWith
<1>7. reply \in HttpReplies /\ reply # None
  <2>1. /\ answer'.outcome \in Outcomes /\ answer'.neg \in Negotiations \cup {None}
        /\ g \in Agreements \cup {None} /\ (conns[c].phase = "running") \in BOOLEAN
    BY <1>4 DEF AnswerHolds, Outcomes
  <2> HIDE DEF g
  <2>2. reply \in HttpReplies
    BY <2>1, Zenon DEF HttpReplies
  <2> QED  BY <2>2, SessionAssumption
<1>8. /\ r \in Connections /\ r.op = op /\ r.neg = n /\ r.phase = "replied" /\ r.reply = reply
  BY <1>1, <1>7 DEF Connections
<1>9. Addressed(r, store', lost')
  <2>1. Addressed(r, store, lost)
    BY <1>1, <1>8 DEF Addressed
  <2> QED  BY <1>3, <1>5, <1>8, <2>1, MessageStays
<1>10. Truthful(r, store', lost')
  <2>1. answer'.outcome = "ok" /\ answer'.neg # None => Known(answer'.neg, store', lost')
    BY <1>4 DEF AnswerHolds, Known
  <2>2. g # None => op = "accept" /\ Enforced(n, g, store', lost')
    BY <1>4 DEF AnswerHolds, Enforced
  <2>3. op \in NegotiateOps /\ answer'.outcome # "ok" =>
            Said(n, ErrorClass(answer'.outcome), store', lost')
    BY <1>3, <1>4 DEF AnswerHolds
  <2>4. /\ reply.outcome = answer'.outcome /\ reply.neg = answer'.neg
        /\ reply.agreement = g
    OBVIOUS
  <2> HIDE DEF r, reply, g
  <2> QED  BY <1>8, <2>1, <2>2, <2>3, <2>4 DEF Truthful
<1>11. ConnsInv'
  <2> HIDE DEF r, reply
  <2> QED
    BY <1>1, <1>3, <1>5, <1>6, <1>7, <1>8, <1>9, <1>10, BecomeStep DEF SessionInv
<1> QED  BY <1>3, <1>5, <1>11, ServerStep

(***************************************************************************)
(* The theorems                                                            *)
(***************************************************************************)

LEMMA SessionStep ==
    SessionInv /\ [SessionNext]_sessionVars => SessionInv' /\ [ServerNext]_serverVars
<1> SUFFICES ASSUME SessionInv, [SessionNext]_sessionVars
             PROVE  SessionInv' /\ [ServerNext]_serverVars
  OBVIOUS
<1>1. CASE UNCHANGED sessionVars
  <2>1. UNCHANGED serverVars /\ UNCHANGED <<conns, clientVars>> /\ UNCHANGED <<store, lost, calls>>
    BY <1>1 DEF sessionVars, serverVars, vars, transferVars
  <2>2. ConnsInv'
    BY <2>1 DEF ConnsInv, SessionInv, In
  <2> QED  BY <2>1, <2>2, ServerStep
<1>2. CASE SessionNext
  BY <1>2, SendStep, NegotiateStep, TransferStep, FinishStep, LoseStep, DeliverStep,
     GiveUpStep, RestartStep, BackgroundStep DEF SessionNext
<1> QED  BY <1>1, <1>2

LEMMA SessionInvariant == SessionSpec => []SessionInv
<1>1. SessionInit => SessionInv
  <2> SUFFICES ASSUME SessionInit PROVE SessionInv
    OBVIOUS
  <2>1. ServerInv
    <3>1. TypeOK
      BY ConstantsAssumption DEF SessionInit, ServerInit, Init, TypeOK
    <3> QED
      BY <3>1 DEF SessionInit, ServerInit, Init, ServerInv, ServerTypeOK, AgreementSound, Exists,
         LostAreGone, InUse
  <2>2. ConnsInv /\ HeardInv
    BY DEF SessionInit, ServerInit, ConnsInv, HeardInv, In
  <2> QED  BY <2>1, <2>2 DEF SessionInv
<1> QED  BY <1>1, SessionStep, PTL DEF SessionSpec

\* Behind connections that lose, delay and give up requests, PolypactServer takes
\* no other steps than its own: what is proved of ServerSpec holds here.
THEOREM SessionImplementsServer == SessionSpec => ServerSpec
<1>1. SessionInit => ServerInit
  BY DEF SessionInit
<1> QED  BY <1>1, SessionInvariant, SessionStep, PTL DEF SessionSpec, ServerSpec

\* So the promises made about negotiations and leases reach the clients' world: no
\* retry, time-out or lost reply takes a negotiation off its course or an account
\* out of balance.
THEOREM SessionKeepsThePromises ==
    ASSUME ~ ClockStepsBack, ~ StoreSurvives
    PROVE  SessionSpec => ServerImplementsLifecycle /\ ImplementsLedger
BY SessionImplementsServer, ServerKeepsTheLifecycle, LeasesImplementLedger

\* Connections and what the clients hold keep their types.
THEOREM SessionTypeCorrect == SessionSpec => []SessionTypeOK
<1>1. SessionInv => SessionTypeOK
  BY DEF SessionInv, ConnsInv, HeardInv, SessionTypeOK
<1> QED  BY <1>1, SessionInvariant, PTL

\* PolypactClient.accept: the agreement a caller was handed is the one in force.
THEOREM HeldAgreementsAreEnforced == SessionSpec => []HeldIsEnforced
<1>1. SessionInv => HeldIsEnforced
  BY DEF SessionInv, HeardInv, HeldIsEnforced, Enforced
<1> QED  BY <1>1, SessionInvariant, PTL

\* PolypactClient._call: a NegotiationStateError or UnknownSkillError of a negotiate
\* call is still true when it is raised.
THEOREM ErrorsHeardAreFinal == SessionSpec => []HeardIsFinal
<1>1. SessionInv => HeardIsFinal
  BY DEF SessionInv, HeardInv, HeardIsFinal, Said
<1> QED  BY <1>1, SessionInvariant, PTL

(***************************************************************************)
(* Refused for its agreement, refused for good                             *)
(*                                                                         *)
(* The server itself raises an AgreementViolatedError for one of four      *)
(* reasons: the agreement is gone, its window is over, its mode is not one *)
(* of task.invoke, or its lease has no terms or no units left.  Each of    *)
(* them lasts, if the clock only goes forward, units are not given back,   *)
(* and counts are not forgotten without the agreements they belong to.     *)
(***************************************************************************)
\* r is a record under which no invocation can start any more, at the instant t
\* and with the lease state ls.
Spent(r, ls, t) ==
    \/ r.agreement.validUntil < t
    \/ r.mode \in {"teach", "compose"}
    \/ /\ r.mode = "lease"
       /\ \/ Lease[r.agreement.terms] = None
          \/ ls # None /\ ls.used >= ls.max

Closed(n, s, l, ls, t) ==
    n \in l \/ (s[n] # None /\ s[n].agreement # None /\ Spent(s[n], ls[n], t))

\* Windows open when they are agreed, so that none lies ahead of the clock.
WindowsOpen ==
    \A n \in Negotiations :
        store[n] # None /\ store[n].agreement # None => store[n].agreement.validFrom =< now

\* The server refused, before any handler ran.
Violated(r) ==
    r.reply # None /\ r.reply.outcome = "AgreementViolatedError" /\ ~ r.reply.byHandler

ClosedInv ==
    /\ WindowsOpen
    /\ \A c \in Calls :
          conns[c] # None /\ Violated(conns[c]) /\ conns[c].op = "invoke" =>
             Closed(conns[c].neg, store, lost, lease, now)
    /\ \A h \in heard :
          h.error = "AgreementViolatedError" => Closed(h.neg, store, lost, lease, now)

LEMMA ClockIsMonotone ==
    ASSUME ~ ClockStepsBack, ServerTypeOK, [ServerNext]_serverVars
    PROVE  now \in Int /\ now' \in Int /\ now =< now'
<1>1. now \in Int
  BY DEF ServerTypeOK, TypeOK
<1>2. CASE Negotiate
  BY <1>1, <1>2, ClockSteps DEF Negotiate, Tick, StepBack
<1>3. CASE UNCHANGED now
  BY <1>1, <1>3
<1>4. ~ Negotiate => UNCHANGED now
  BY DEF ServerNext, Restart, Transfer, InvokeAgreement, InvokeSkill, TransferTeach,
     TransferCompose, Complete, Register, RegisterSkill, RegisterTeachArtifact, serverVars, vars
<1> QED  BY <1>2, <1>3, <1>4

\* What is closed stays closed.
LEMMA ClosedStays ==
    ASSUME ~ ClockStepsBack, ~ StoreSurvives, ServerInv, LeaseInv, [ServerNext]_serverVars,
           NEW n \in Negotiations, Closed(n, store, lost, lease, now)
    PROVE  Closed(n, store', lost', lease', now')
<1>0. ServerTypeOK
  BY DEF ServerInv
<1>1. CASE n \in lost
  BY <1>0, <1>1, RecordsLast DEF Lasts, Closed
<1>2. CASE /\ store[n] # None /\ store[n].agreement # None
           /\ Spent(store[n], lease[n], now)
  <2>1. store[n].state \in Settled
    BY <1>2 DEF ServerInv, AgreementSound, Exists, SoundRecord, Settled
  <2>2. n \in lost' \/ store'[n] = store[n]
    BY <1>0, <1>2, <2>1, RecordsLast DEF Lasts
  <2>3. \/ n \in lost' \/ lease[n] = None
        \/ lease'[n] # None /\ lease'[n].max = lease[n].max /\ lease'[n].used >= lease[n].used
    BY <1>0, KeepUnits DEF UnitsKept
  <2>4. /\ lease[n] # None => lease[n].max \in Nat /\ lease[n].used \in Nat
        /\ lease'[n] # None => lease'[n].max \in Nat /\ lease'[n].used \in Nat
        /\ store[n].agreement.validUntil \in Int
    BY <1>0, <1>2, ServerTypeStep, ConstantsAssumption
    DEF ServerTypeOK, TypeOK, LeaseStates, Records, Agreements
  <2>5. now \in Int /\ now' \in Int /\ now =< now'
    BY <1>0, ClockIsMonotone
  <2>6. Spent(store[n], lease[n], now) => n \in lost' \/ Spent(store[n], lease'[n], now')
    BY <2>3, <2>4, <2>5 DEF Spent
  <2> QED  BY <1>2, <2>2, <2>6 DEF Closed
<1> QED  BY <1>1, <1>2 DEF Closed

\* An agreement opens at the instant it is struck.
LEMMA WindowsOpenStep ==
    ASSUME ~ ClockStepsBack, ServerInv, WindowsOpen, [ServerNext]_serverVars
    PROVE  WindowsOpen'
<1>0. ServerTypeOK /\ ServerTypeOK'
  BY ServerTypeStep DEF ServerInv
<1>1. now \in Int /\ now' \in Int /\ now =< now'
  BY <1>0, ClockIsMonotone
<1> SUFFICES ASSUME NEW n \in Negotiations, store'[n] # None, store'[n].agreement # None
             PROVE  store'[n].agreement.validFrom =< now'
  BY DEF WindowsOpen
<1>2. CASE store'[n] = store[n]
  <2>1. store[n].agreement.validFrom \in Int
    BY <1>0, <1>2, ConstantsAssumption DEF ServerTypeOK, TypeOK, Records, Agreements
  <2> QED  BY <1>1, <1>2, <2>1 DEF WindowsOpen
<1>3. CASE Negotiate
  <2>1. ASSUME NEW m \in Negotiations, NEW r, Put(m, r), Successor(m, r), now' = now
        PROVE  store'[n].agreement.validFrom =< now'
    <3>1. CASE n # m
      BY <1>2, <2>1, <3>1 DEF Put
    <3>2. CASE n = m
      <4>1. store'[n] = r /\ (store[n] # None => store[n] \in Records)
        BY <1>0, <2>1, <3>2 DEF Put, ServerTypeOK, TypeOK
      <4>2. r = Accepted(store[n], now) /\ store[n] # None => r.agreement.validFrom = now
        BY <4>1 DEF Accepted, BuildAgreement, Records
      <4>3. \A a, s, md, t, ttl : Initial(a, s, md, t, ttl).agreement = None
        BY DEF Initial
      <4>4. ASSUME store[n] # None
            PROVE  /\ \A a, t, ttl : Countered(store[n], a, t, ttl).agreement = store[n].agreement
                   /\ MaybeExpire(store[n], now).agreement = store[n].agreement
                   /\ [store[n] EXCEPT !.state = "REJECTED"].agreement = store[n].agreement
                   /\ [store[n] EXCEPT !.state = "EXPIRED"].agreement = store[n].agreement
        BY <4>1, <4>4 DEF Countered, MaybeExpire, Records
      <4>5. r.agreement = None \/ r.agreement.validFrom = now
              \/ (store[n] # None /\ r.agreement = store[n].agreement)
        <5>1. CASE store[n] = None
          BY <2>1, <3>2, <4>3, <5>1 DEF Successor
        <5>2. CASE store[n] # None
          <6>1. /\ \A a, t, ttl : Countered(store[n], a, t, ttl).agreement = store[n].agreement
                /\ MaybeExpire(store[n], now).agreement = store[n].agreement
                /\ \A s \in {"REJECTED", "EXPIRED"} :
                      [store[n] EXCEPT !.state = s].agreement = store[n].agreement
            BY <4>4, <5>2
          <6>2. \/ r = MaybeExpire(store[n], now) \/ r = Accepted(store[n], now)
                \/ \E a, t, ttl : r = Countered(store[n], a, t, ttl)
                \/ \E s \in {"REJECTED", "EXPIRED"} : r = [store[n] EXCEPT !.state = s]
            BY <2>1, <3>2, <5>2 DEF Successor
          <6>3. r = Accepted(store[n], now) => r.agreement.validFrom = now
            BY <4>2, <5>2
          <6> QED  BY <5>2, <6>1, <6>2, <6>3
        <5> QED  BY <5>1, <5>2
      <4> QED  BY <1>1, <2>1, <4>1, <4>5 DEF WindowsOpen
    <3> QED  BY <3>1, <3>2
  <2>2. CASE UNCHANGED store
    BY <1>2, <2>2
  <2> QED  BY <1>0, <1>3, <2>1, <2>2, StoreSteps DEF Negotiate, ServerTypeOK
<1>4. CASE Restart
  BY <1>2, <1>4 DEF Restart
<1>5. CASE Transfer \/ Register \/ UNCHANGED serverVars
  <2>1. UNCHANGED store
    BY <1>5 DEF Transfer, InvokeAgreement, InvokeSkill, TransferTeach, TransferCompose, Complete,
       Register, RegisterSkill, RegisterTeachArtifact, serverVars, transferVars, vars
  <2> QED  BY <1>2, <2>1
<1> QED  BY <1>3, <1>4, <1>5 DEF ServerNext

\* What is closed starts nothing.
LEMMA ClosedIsIdle ==
    ASSUME ServerInv, [ServerNext]_serverVars, NEW n \in Negotiations,
           Closed(n, store, lost, lease, now)
    PROVE  ran'[n] = ran[n]
<1>0. /\ ServerTypeOK /\ ran \in [Negotiations -> Nat] /\ now \in Int
      /\ \A m \in lost : store[m] = None
      /\ lease \in [Negotiations -> LeaseStates \cup {None}]
  BY DEF ServerInv, ServerTypeOK, TypeOK, LostAreGone
<1>1. ASSUME NEW c \in Calls, NEW a \in Agents, NEW m \in Negotiations \cup {None}, NEW s,
             m # n, Start(c, a, m, s)
      PROVE  ran'[n] = ran[n]
  BY <1>0, <1>1 DEF Start
<1>2. ASSUME NEW c \in Calls, NEW a \in Agents, NEW m \in Negotiations,
             InvokeAgreement(c, a, m)
      PROVE  ran'[n] = ran[n]
  <2>1. CASE m # n
    BY <1>1, <1>2, <2>1 DEF InvokeAgreement, LeaseInvoke
  <2>2. CASE m = n /\ AgreementError(n, a) # None
    BY <1>2, <2>2 DEF InvokeAgreement
  <2>3. CASE m = n /\ AgreementError(n, a) = None
    <3>1. /\ n \notin lost /\ store[n].agreement \in Agreements
          /\ now =< store[n].agreement.validUntil
      BY <1>0, <2>3, InForce DEF Honoured, InWindow, ServerTypeOK, TypeOK, Records
    <3>2. ~ (store[n].agreement.validUntil < now)
      <4>1. store[n].agreement.validUntil \in Int /\ now \in Int
        BY <1>0, <3>1, ConstantsAssumption DEF Agreements, ServerTypeOK, TypeOK
      <4> QED  BY <3>1, <4>1
    <3>3. CASE store[n].mode \in {"teach", "compose"}
      BY <1>2, <2>3, <3>3 DEF InvokeAgreement
    <3>4. CASE store[n].mode = "lease" /\ Lease[store[n].agreement.terms] = None
      BY <1>2, <2>3, <3>4 DEF InvokeAgreement, LeaseInvoke
    <3>5. CASE store[n].mode = "lease" /\ lease[n] # None /\ lease[n].used >= lease[n].max
      BY <1>2, <2>3, <3>5 DEF InvokeAgreement, LeaseInvoke, Exhausted, LeaseState
    <3> QED  BY <3>1, <3>2, <3>3, <3>4, <3>5 DEF Closed, Spent
  <2> QED  BY <2>1, <2>2, <2>3
<1>3. ASSUME NEW c \in Calls, NEW a \in Agents, NEW s \in Skills, InvokeSkill(c, a, s)
      PROVE  ran'[n] = ran[n]
  BY <1>1, <1>3, NoneAssumption DEF InvokeSkill
<1>4. CASE \/ Negotiate \/ Register \/ Restart \/ UNCHANGED serverVars
           \/ \E c \in Calls : Complete(c)
           \/ \E a \in Agents, m \in Negotiations :
                 TransferTeach(a, m) \/ TransferCompose(a, m)
  BY <1>4 DEF Negotiate, Register, RegisterSkill, RegisterTeachArtifact, Restart, Complete,
     TransferTeach, TransferCompose, serverVars, transferVars
<1> QED  BY <1>2, <1>3, <1>4 DEF ServerNext, Transfer

\* An invocation that is refused for its agreement was refused for one of the reasons.
LEMMA ViolatedIsClosed ==
    ASSUME ServerInv, WindowsOpen, NEW c \in Calls, NEW a \in Agents, NEW n \in Negotiations,
           Struck(n, store, lost), InvokeAgreement(c, a, n),
           rpc'.outcome = "AgreementViolatedError"
    PROVE  Closed(n, store', lost', lease', now')
<1>0. /\ ServerTypeOK /\ now \in Int /\ UNCHANGED <<now, store, lost>>
      /\ lease \in [Negotiations -> LeaseStates \cup {None}]
  BY DEF ServerInv, ServerTypeOK, TypeOK, InvokeAgreement, vars
<1>1. CASE n \in lost
  BY <1>0, <1>1 DEF Closed
<1>2. CASE n \notin lost
  <2>1. /\ store[n] # None /\ store[n] \in Records /\ Honoured(n)
        /\ store[n].agreement # None /\ store[n].agreement \in Agreements
        /\ store[n].agreement.validFrom =< now
    BY <1>0, <1>2 DEF Struck, Honoured, ServerTypeOK, TypeOK, Records, WindowsOpen
  <2>2. store[n].agreement.validFrom \in Int /\ store[n].agreement.validUntil \in Int
    BY <2>1, ConstantsAssumption DEF Agreements
  <2>3. ASSUME Spent(store[n], lease'[n], now) PROVE Closed(n, store', lost', lease', now')
    BY <1>0, <2>1, <2>3 DEF Closed
  <2>4. CASE AgreementError(n, a) # None
    <3>1. AgreementError(n, a) = "AgreementViolatedError"
      BY <2>4 DEF InvokeAgreement, Reply
    <3>2. None # "AgreementViolatedError"
      BY ServerAssumption DEF Outcomes, Errors
    <3>3. ~ InWindow(store[n].agreement)
      BY <2>1, <3>1, <3>2 DEF AgreementError
    <3>4. store[n].agreement.validUntil < now
      BY <1>0, <2>1, <2>2, <3>3 DEF InWindow
    <3> QED  BY <2>3, <3>4 DEF Spent
  <2>5. CASE AgreementError(n, a) = None
    <3>1. ~ \E s : Start(c, a, n, s)
      BY DEF Start, Reply
    <3>2. CASE store[n].mode \in {"teach", "compose"}
      BY <2>3, <3>2 DEF Spent
    <3>3. CASE store[n].mode = "lease" /\ LeaseInvoke(c, a, n)
      <4>1. CASE Lease[store[n].agreement.terms] = None
        BY <2>3, <3>3, <4>1 DEF Spent
      <4>2. CASE Lease[store[n].agreement.terms] # None
        <5>1. Exhausted(n) /\ lease' = [lease EXCEPT ![n] = LeaseState(n)]
          BY <3>1, <3>3, <4>2 DEF LeaseInvoke
        <5>2. LeaseState(n) \in LeaseStates
          BY <1>0, <2>1, <4>2, LeaseStateType
        <5>3. lease'[n] = LeaseState(n) /\ lease'[n] # None
          BY <1>0, <5>1, <5>2, ServerAssumption
        <5> QED  BY <2>3, <3>3, <5>1, <5>3 DEF Spent, Exhausted
      <4> QED  BY <4>1, <4>2
    <3> QED  BY <2>5, <3>1, <3>2, <3>3 DEF InvokeAgreement
  <2> QED  BY <2>4, <2>5
<1> QED  BY <1>1, <1>2

\* What a connection may change: its reply is the one it had, or a new one that
\* says nothing of a violated agreement, or a true one.
Unsaid(c) ==
    conns'[c] # None /\ Violated(conns'[c]) =>
        /\ conns[c] # None /\ Violated(conns[c])
        /\ conns'[c].op = conns[c].op /\ conns'[c].neg = conns[c].neg

Shown(c) ==
    conns'[c] # None /\ Violated(conns'[c])
      /\ conns'[c].op = "invoke" =>
          Closed(conns'[c].neg, store', lost', lease', now')

\* A reply that is written says what the server answered.
LEMMA WrittenReply ==
    ASSUME SessionInv, NEW c \in Calls, conns[c] # None, NEW outcome, NEW n, NEW g,
           ReplyWith(c, outcome, n, g)
    PROVE  /\ conns'[c] # None => /\ conns'[c].op = conns[c].op /\ conns'[c].neg = conns[c].neg
                                  /\ conns'[c].reply.outcome = outcome
                                  /\ conns[c].phase = "running" => conns'[c].reply.byHandler
           /\ \A d \in Calls : d # c => conns'[d] = conns[d]
<1> DEFINE reply == [outcome |-> outcome, neg |-> n, agreement |-> g,
                      byHandler |-> conns[c].phase = "running"]
           r == [conns[c] EXCEPT !.phase = "replied", !.reply = reply]
<1>1. conns[c] \in Connections /\ conns \in [Calls -> Connections \cup {None}]
  BY OpenConnection DEF SessionInv, ConnsInv
<1>2. /\ r.op = conns[c].op /\ r.neg = conns[c].neg /\ r.reply.outcome = outcome
      /\ conns[c].phase = "running" => r.reply.byHandler
  BY <1>1 DEF Connections
<1>3. Become(c, r)
  BY DEF ReplyWith
<1> HIDE DEF r
<1> QED  BY <1>1, <1>2, <1>3 DEF Become

\* A connection that is marked keeps its reply.
LEMMA MarkedReply ==
    ASSUME SessionInv, NEW c \in Calls, conns[c] # None, NEW r,
           r.op = conns[c].op, r.neg = conns[c].neg, r.reply = conns[c].reply \/ r.reply = None,
           Become(c, r)
    PROVE  \A d \in Calls : Unsaid(d)
<1>1. conns \in [Calls -> Connections \cup {None}]
  BY DEF SessionInv, ConnsInv
<1> QED  BY <1>1 DEF Become, Unsaid, Violated

\* Only task.invoke writes a reply about a violated agreement, and it is true.
LEMMA RepliesAreShown ==
    ASSUME SessionInv, WindowsOpen, SessionNext, NEW d \in Calls
    PROVE  Unsaid(d) \/ Shown(d)
<1>1. conns \in [Calls -> Connections \cup {None}]
  BY DEF SessionInv, ConnsInv
<1>2. ASSUME NEW c \in Calls, NEW a \in Clients, NEW op \in Ops,
             NEW n \in Negotiations \cup {None}, Send(c, a, op, n)
      PROVE  Unsaid(d)
  BY <1>1, <1>2 DEF Send, Unsaid, Violated
<1>3. ASSUME NEW c \in Calls, ServeNegotiate(c)
      PROVE  Unsaid(d)
  <2>1. conns[c] # None /\ answer'.outcome # "AgreementViolatedError"
    BY <1>3, NegotiateAnswers DEF ServeNegotiate, In, AnswerHolds, Errors
  <2> QED  BY <1>3, <2>1, WrittenReply DEF ServeNegotiate, Unsaid, Violated
<1>4. ASSUME NEW c \in Calls, ServeTransfer(c)
      PROVE  Unsaid(d) \/ Shown(d)
  <2>1. /\ conns[c] # None /\ conns[c] \in Connections /\ conns[c].by \in Agents
        /\ Addressed(conns[c], store, lost)
    BY <1>4, OpenConnection DEF ServeTransfer, In
  <2>2. CASE rpc'.outcome = "started"
    <3> DEFINE r == [conns[c] EXCEPT !.phase = "running"]
    <3>1. r.op = conns[c].op /\ r.neg = conns[c].neg /\ r.reply = conns[c].reply
      BY <2>1 DEF Connections
    <3>2. Become(c, r)
      BY <1>4, <2>2 DEF ServeTransfer
    <3> HIDE DEF r
    <3> QED  BY <2>1, <3>1, <3>2, MarkedReply
  <2>3. CASE rpc'.outcome # "started"
    <3>1. ReplyWith(c, rpc'.outcome, conns[c].neg, None)
      BY <1>4, <2>3 DEF ServeTransfer
    <3>2. /\ conns'[c] # None => /\ conns'[c].op = conns[c].op /\ conns'[c].neg = conns[c].neg
                                 /\ conns'[c].reply.outcome = rpc'.outcome
          /\ \A e \in Calls : e # c => conns'[e] = conns[e]
      BY <2>1, <3>1, WrittenReply
    <3>3. CASE d # c
      BY <3>2, <3>3 DEF Unsaid
    <3>4. CASE conns[c].op # "invoke"
      BY <1>4, <3>2, <3>3, <3>4 DEF ServeTransfer, AgreementOps, NegotiateOps, Shown
    <3>5. CASE conns[c].op = "invoke" /\ rpc'.outcome = "AgreementViolatedError"
      <4>1. /\ conns[c].neg \in Negotiations /\ Struck(conns[c].neg, store, lost)
            /\ InvokeAgreement(c, conns[c].by, conns[c].neg)
        BY <1>4, <2>1, <3>5 DEF Addressed, AgreementOps, ServeTransfer
      <4>2. Closed(conns[c].neg, store', lost', lease', now')
        BY <2>1, <3>5, <4>1, ViolatedIsClosed DEF SessionInv
      <4> QED  BY <3>2, <3>3, <4>2 DEF Shown
    <3>6. CASE rpc'.outcome # "AgreementViolatedError"
      BY <3>2, <3>3, <3>6 DEF Shown, Violated
    <3> QED  BY <3>4, <3>5, <3>6
  <2> QED  BY <2>2, <2>3
<1>5. ASSUME NEW c \in Calls, Finish(c)
      PROVE  Unsaid(d)
  <2>1. conns[c] # None /\ conns[c].phase = "running"
    BY <1>5 DEF Finish, In
  <2> QED  BY <1>5, <2>1, WrittenReply DEF Finish, Unsaid, Violated
<1>6. ASSUME NEW c \in Calls, Lose(c)
      PROVE  Unsaid(d)
  <2> DEFINE r == [conns[c] EXCEPT !.phase = "lost", !.reply = None]
  <2>1. conns[c] # None /\ r.op = conns[c].op /\ r.neg = conns[c].neg /\ r.reply = None
    BY <1>6, OpenConnection DEF Lose, In, Connections
  <2>2. Become(c, r)
    BY <1>6 DEF Lose
  <2> HIDE DEF r
  <2> QED  BY <2>1, <2>2, MarkedReply
<1>7. ASSUME NEW c \in Calls, Deliver(c)
      PROVE  Unsaid(d)
  BY <1>1, <1>7 DEF Deliver, Unsaid
<1>8. ASSUME NEW c \in Calls, GiveUp(c)
      PROVE  Unsaid(d)
  <2> DEFINE r == [conns[c] EXCEPT !.waiting = FALSE]
  <2>1. /\ conns[c] # None /\ r.op = conns[c].op /\ r.neg = conns[c].neg
        /\ r.reply = conns[c].reply
    BY <1>8, OpenConnection DEF GiveUp, Connections
  <2>2. Become(c, r)
    BY <1>8 DEF GiveUp
  <2> HIDE DEF r
  <2> QED  BY <2>1, <2>2, MarkedReply
<1>9. CASE SessionRestart
  <2>1. conns[d] # None => conns[d] \in Connections
    BY OpenConnection
  <2>2. conns'[d] = IF ~ In(d, "running") THEN conns[d]
                    ELSE IF conns[d].waiting THEN [conns[d] EXCEPT !.phase = "lost"] ELSE None
    BY <1>9 DEF SessionRestart
  <2> QED  BY <2>1, <2>2 DEF Unsaid, In, Connections, Violated
<1>10. CASE Background
  BY <1>10 DEF Background, Unsaid
<1> QED
  BY <1>2, <1>3, <1>4, <1>5, <1>6, <1>7, <1>8, <1>9, <1>10 DEF SessionNext

\* What is heard was in a reply.
LEMMA HeardFromReplies ==
    ASSUME SessionInv, SessionNext, NEW h \in heard', h.error = "AgreementViolatedError"
    PROVE  \/ h \in heard
           \/ \E c \in Calls :
                 /\ conns[c] # None /\ Violated(conns[c]) /\ conns[c].neg = h.neg
                 /\ conns[c].op = "invoke"
<1>1. ASSUME NEW c \in Calls, Deliver(c), h \notin heard
      PROVE  /\ conns[c] # None /\ Violated(conns[c]) /\ conns[c].neg = h.neg
             /\ conns[c].op = "invoke"
  <2> DEFINE e == ErrorClass(conns[c].reply.outcome)
  <2>1. conns[c] # None /\ conns[c].reply # None
    BY <1>1, OpenConnection DEF Deliver, In
  <2>2. /\ Lasting(conns[c])
        /\ h = [neg |-> conns[c].neg, error |-> e]
    BY <1>1 DEF Deliver
  <2>3. conns[c].reply.outcome = "AgreementViolatedError"
    BY <2>2 DEF ErrorClass
  <2> QED  BY <2>1, <2>2, <2>3 DEF Violated, Lasting
<1>2. ASSUME NEW c \in Calls,
             ServeNegotiate(c) \/ ServeTransfer(c) \/ Finish(c) \/ Lose(c) \/ GiveUp(c)
      PROVE  UNCHANGED heard
  <2>1. UNCHANGED clientVars
    BY <1>2 DEF ServeNegotiate, ServeTransfer, Finish, Lose, GiveUp
  <2> QED  BY <2>1 DEF clientVars
<1>3. SessionRestart \/ Background => UNCHANGED heard
  BY DEF SessionRestart, Background, clientVars
<1>4. \A c \in Calls, a \in Clients, op \in Ops, n \in Negotiations \cup {None} :
         Send(c, a, op, n) => UNCHANGED heard
  BY DEF Send
<1>5. UNCHANGED heard \/ \E c \in Calls : Deliver(c)
  BY <1>2, <1>3, <1>4 DEF SessionNext
<1>6. CASE h \notin heard
  <2>1. PICK c \in Calls : Deliver(c)
    BY <1>5, <1>6
  <2> QED  BY <1>1, <1>6, <2>1
<1> QED  BY <1>6

LEMMA ClosedInvStep ==
    ASSUME ~ ClockStepsBack, ~ StoreSurvives, SessionInv, LeaseInv, ClosedInv,
           [SessionNext]_sessionVars
    PROVE  ClosedInv'
<1>1. [ServerNext]_serverVars /\ ServerInv /\ SessionInv'
  BY SessionStep DEF SessionInv
<1>2. WindowsOpen'
  BY <1>1, WindowsOpenStep DEF ClosedInv
<1>3. \A n \in Negotiations :
         Closed(n, store, lost, lease, now) => Closed(n, store', lost', lease', now')
  BY <1>1, ClosedStays
<1>4. ASSUME NEW d \in Calls, conns'[d] # None, Violated(conns'[d]),
             conns'[d].op = "invoke"
      PROVE  Closed(conns'[d].neg, store', lost', lease', now')
  <2>1. Unsaid(d) \/ Shown(d)
    BY RepliesAreShown DEF ClosedInv, Unsaid, sessionVars
  <2>2. CASE Unsaid(d)
    <3>1. /\ conns[d] # None /\ Violated(conns[d]) /\ conns'[d].neg = conns[d].neg
          /\ conns[d].op = "invoke"
      BY <1>4, <2>2 DEF Unsaid
    <3>2. conns[d].neg \in Negotiations
      BY <3>1, OpenConnection DEF Addressed, AgreementOps
    <3> QED  BY <1>3, <3>1, <3>2 DEF ClosedInv
  <2> QED  BY <1>4, <2>1, <2>2 DEF Shown
<1>5. ASSUME NEW h \in heard', h.error = "AgreementViolatedError"
      PROVE  Closed(h.neg, store', lost', lease', now')
  <2>1. h.neg \in Negotiations
    BY <1>1, <1>5 DEF SessionInv, HeardInv
  <2>2. Closed(h.neg, store, lost, lease, now)
    <3>1. CASE h \in heard
      BY <1>5, <3>1 DEF ClosedInv
    <3>2. CASE SessionNext /\ h \notin heard
      BY <1>5, <3>2, HeardFromReplies DEF ClosedInv
    <3> QED  BY <3>1, <3>2 DEF sessionVars, clientVars
  <2> QED  BY <1>3, <2>1, <2>2
<1> QED  BY <1>2, <1>4, <1>5 DEF ClosedInv

\* task.invoke: whom the server refused for the agreement, before any handler ran,
\* will not be served under it any more, nor will anybody else.
THEOREM ViolationsAreFinal ==
    ASSUME ~ ClockStepsBack, ~ StoreSurvives
    PROVE  SessionSpec => ViolationIsFinal
<1>1. SessionInit => ClosedInv
  BY DEF SessionInit, ServerInit, Init, ClosedInv, WindowsOpen
<1>2. SessionSpec => []LeaseInv
  BY SessionImplementsServer, LeaseInvariant
<1>3. SessionInv /\ LeaseInv /\ ClosedInv /\ [SessionNext]_sessionVars
        => ClosedInv' /\ [\A h \in heard :
                h.error = "AgreementViolatedError" => ran'[h.neg] = ran[h.neg]]_sessionVars
  <2> SUFFICES ASSUME SessionInv, LeaseInv, ClosedInv, [SessionNext]_sessionVars
               PROVE  /\ ClosedInv'
                      /\ \A h \in heard :
                            h.error = "AgreementViolatedError" => ran'[h.neg] = ran[h.neg]
    OBVIOUS
  <2>1. ASSUME NEW h \in heard, h.error = "AgreementViolatedError"
        PROVE  ran'[h.neg] = ran[h.neg]
    <3>1. /\ h.neg \in Negotiations /\ Closed(h.neg, store, lost, lease, now)
          /\ ServerInv /\ [ServerNext]_serverVars
      BY <2>1, SessionStep DEF SessionInv, HeardInv, ClosedInv
    <3> QED  BY <3>1, ClosedIsIdle
  <2> QED  BY <2>1, ClosedInvStep
<1> QED
  BY <1>1, <1>2, <1>3, SessionInvariant, PTL DEF SessionSpec, ViolationIsFinal
=============================================================================
