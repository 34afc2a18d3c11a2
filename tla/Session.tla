------------------------------- MODULE Session -------------------------------
(***************************************************************************)
(* PolypactClient and HttpTransport in front of a PolypactServer: requests *)
(* over HTTP connections that may lose the request or the reply, a client  *)
(* that waits until its timeout and never repeats a call, and what its     *)
(* program has been told.                                                  *)
(*                                                                         *)
(* A request is in one of four phases; the server's step is the one of     *)
(* PolypactServer, and "calls" is indexed by the connection.  What a       *)
(* request carries besides its negotiation (terms, skill, payload) is      *)
(* chosen when it is served, as nothing looks at it before.                *)
(***************************************************************************)
EXTENDS PolypactServer

CONSTANTS
    Clients,     \* the agents that call the server
    MaxAsked     \* bound: invocations sent under one agreement

NegotiateOps == {"counter_propose", "accept", "reject"}

AgreementOps == {"invoke", "teach", "compose"}

Ops == {"propose", "invoke_skill"} \cup NegotiateOps \cup AgreementOps

\* What comes back: a result or an error; propose answers the negotiation's
\* name, accept the agreement.  byHandler is not on the wire: the skill handler had
\* been started, so that the error is one it let through.
HttpReplies ==
    [outcome : Outcomes, neg : Negotiations \cup {None},
     agreement : Agreements \cup {None}, byHandler : BOOLEAN]

\* sent: on its way to the server, or to nobody any more; running: its skill
\* handler is awaited; replied: the answer is on its way; lost: none will come.
Connections ==
    [op : Ops, by : Clients, neg : Negotiations \cup {None},
     phase : {"sent", "running", "replied", "lost"},
     reply : HttpReplies \cup {None}, waiting : BOOLEAN]

ASSUME SessionAssumption ==
    /\ Clients \subseteq Agents /\ MaxAsked \in Nat
    /\ None \notin Connections /\ None \notin HttpReplies

VARIABLES
    conns,       \* the HTTP exchanges that are open
    learnt,      \* negotiations that some client has been told the name of
    held,        \* the agreements that clients were given
    heard,       \* the lasting exceptions that calls raised, by negotiation
    asked,       \* how often an invocation under each agreement was sent
    delivered    \* how often its result reached the caller

clientVars == <<learnt, held, heard, asked, delivered>>

sessionVars == <<serverVars, conns, clientVars>>

(***************************************************************************)
(* PolypactClient, the sending half of its methods                         *)
(***************************************************************************)
\* A negotiation or an agreement is named by who was told of it, and by those
\* they tell: names and agreements are plain data.
Nameable(op, n) ==
    CASE op \in {"propose", "invoke_skill"} -> n = None
      [] op \in NegotiateOps -> n \in learnt
      [] op \in AgreementOps -> \E h \in held : h.neg = n

Send(c, a, op, n) ==
    /\ conns[c] = None /\ Nameable(op, n)
    /\ op = "invoke" => asked[n] < MaxAsked   \* bound
    /\ conns' = [conns EXCEPT ![c] =
          [op |-> op, by |-> a, neg |-> n, phase |-> "sent", reply |-> None,
           waiting |-> TRUE]]
    /\ asked' = IF op = "invoke" THEN [asked EXCEPT ![n] = @ + 1] ELSE asked
    /\ UNCHANGED <<serverVars, learnt, held, heard, delivered>>

(***************************************************************************)
(* The server's end of a connection                                        *)
(***************************************************************************)
In(c, phase) == conns[c] # None /\ conns[c].phase = phase

\* Nobody waits at the other end: the exchange is over.
Over(r) == ~ r.waiting /\ r.phase \in {"replied", "lost"}

Become(c, r) == conns' = [conns EXCEPT ![c] = IF Over(r) THEN None ELSE r]

ReplyWith(c, outcome, n, agreement) ==
    Become(c, [conns[c] EXCEPT !.phase = "replied",
                  !.reply = [outcome |-> outcome, neg |-> n, agreement |-> agreement,
                             byHandler |-> conns[c].phase = "running"]])

\* negotiate_propose, negotiate_counter_propose, negotiate_accept, negotiate_reject.
ServeNegotiate(c) ==
    LET a == conns[c].by  n == conns[c].neg  op == conns[c].op IN
    /\ In(c, "sent") /\ op \in {"propose"} \cup NegotiateOps
    /\ \/ /\ op = "propose"
          /\ \E s \in Skills, m \in TransferModes :
                \/ ProposeFails(a, s, m)
                \/ \E new \in Negotiations \ lost, t \in Terms, ttl \in Ttls :
                      Propose(new, a, s, m, t, ttl)
       \/ /\ op = "counter_propose"
          /\ \E t \in Terms, ttl \in Ttls : CounterPropose(n, a, t, ttl)
       \/ op = "accept" /\ Accept(n, a)
       \/ op = "reject" /\ Reject(n, a)
       \/ op \in NegotiateOps /\ RequestFails(n, a, op)
    /\ rpc' = None
    /\ UNCHANGED <<handlers, artifacts, lease, calls, ran, lost>>
    /\ ReplyWith(c, answer'.outcome, answer'.neg,
                 IF op = "accept" /\ answer'.outcome = "ok" THEN store'[n].agreement ELSE None)
    /\ UNCHANGED clientVars

\* task_invoke, transfer_teach, transfer_compose.
ServeTransfer(c) ==
    LET a == conns[c].by  n == conns[c].neg  op == conns[c].op IN
    /\ In(c, "sent") /\ op \in {"invoke_skill"} \cup AgreementOps
    /\ CASE op = "invoke" -> InvokeAgreement(c, a, n)
         [] op = "invoke_skill" -> \E s \in Skills : InvokeSkill(c, a, s)
         [] op = "teach" -> TransferTeach(a, n)
         [] op = "compose" -> TransferCompose(a, n)
    /\ IF rpc'.outcome = "started"
         THEN Become(c, [conns[c] EXCEPT !.phase = "running"])
         ELSE ReplyWith(c, rpc'.outcome, n, None)
    /\ UNCHANGED clientVars

\* Mutant: the answer is written and the exchange still counts as running.
FinishUnmarked(c) ==
    /\ In(c, "running")
    /\ Complete(c)
    /\ Become(c, [conns[c] EXCEPT !.reply =
                    [outcome |-> rpc'.outcome, neg |-> conns[c].neg, agreement |-> None,
                     byHandler |-> TRUE]])
    /\ UNCHANGED clientVars

\* The skill handler ends, whether or not its caller still waits.
Finish(c) ==
    /\ In(c, "running")
    /\ Complete(c)
    /\ ReplyWith(c, rpc'.outcome, conns[c].neg, None)
    /\ UNCHANGED clientVars

(***************************************************************************)
(* The network                                                             *)
(***************************************************************************)
\* A request never arrives, or a reply never comes back.
Lose(c) ==
    /\ In(c, "sent") \/ In(c, "replied")
    /\ Become(c, [conns[c] EXCEPT !.phase = "lost", !.reply = None])
    /\ UNCHANGED <<serverVars, clientVars>>

\* The connections of a process end with it; requests on their way may reach the
\* next one.
SessionRestart ==
    /\ Restart
    /\ conns' = [c \in Calls |->
          IF ~ In(c, "running") THEN conns[c]
          ELSE IF conns[c].waiting THEN [conns[c] EXCEPT !.phase = "lost"] ELSE None]
    /\ UNCHANGED clientVars

(***************************************************************************)
(* PolypactClient and HttpTransport, the receiving half                    *)
(***************************************************************************)
\* _KNOWN_DOMAIN_CODES; any other code is raised as a RemoteError.
ErrorClass(outcome) ==
    IF outcome \in {"UnknownSkillError", "NegotiationStateError", "AuthorizationFailedError",
                    "AgreementViolatedError", "CapabilityMismatchError"}
      THEN outcome ELSE "RemoteError"

\* The errors that speak of how things stand: the negotiation is settled or unknown,
\* the agreement does not cover the invocation.
Lasting(r) ==
    \/ r.op \in NegotiateOps
         /\ ErrorClass(r.reply.outcome) \in {"NegotiationStateError", "UnknownSkillError"}
    \/ r.op = "invoke"
         /\ ErrorClass(r.reply.outcome) = "AgreementViolatedError" /\ ~ r.reply.byHandler

\* _call returns the result or raises the error's class.
Deliver(c) ==
    LET r == conns[c] IN
    /\ In(c, "replied") /\ r.waiting
    /\ conns' = [conns EXCEPT ![c] = None]
    /\ IF r.reply.outcome = "ok"
         THEN /\ learnt' = learnt \cup ({r.reply.neg} \ {None})
              /\ held' = IF r.reply.agreement = None THEN held
                         ELSE held \cup {[neg |-> r.neg, agreement |-> r.reply.agreement]}
              /\ delivered' = IF r.op = "invoke" THEN [delivered EXCEPT ![r.neg] = @ + 1]
                              ELSE delivered
              /\ UNCHANGED heard
         ELSE /\ heard' = IF ~ Lasting(r) THEN heard
                          ELSE heard \cup {[neg |-> r.neg, error |-> ErrorClass(r.reply.outcome)]}
              /\ UNCHANGED <<learnt, held, delivered>>
    /\ UNCHANGED <<serverVars, asked>>

\* Mutant: the transport sends a request again when it has timed out.
GiveUpRetrying(c) ==
    /\ conns[c] # None /\ conns[c].waiting
    /\ ~ In(c, "running")
    /\ conns' = [conns EXCEPT ![c] = [@ EXCEPT !.phase = "sent", !.reply = None]]
    /\ UNCHANGED <<serverVars, clientVars>>

\* httpx raises a timeout or a network error, which no method catches.  A request
\* that is on its way or running goes on.
GiveUp(c) ==
    /\ conns[c] # None /\ conns[c].waiting
    /\ Become(c, [conns[c] EXCEPT !.waiting = FALSE])
    /\ UNCHANGED <<serverVars, clientVars>>

(***************************************************************************)
(* The whole                                                               *)
(***************************************************************************)
\* The embedding program, its janitor, and the clock.
Background ==
    /\ \/ /\ Local \/ Tick \/ StepBack
          /\ rpc' = None
          /\ UNCHANGED <<handlers, artifacts, lease, calls, ran, lost>>
       \/ Register
    /\ UNCHANGED <<conns, clientVars>>

SessionInit ==
    /\ ServerInit
    /\ conns = [c \in Calls |-> None]
    /\ learnt = {} /\ held = {} /\ heard = {}
    /\ asked = [n \in Negotiations |-> 0]
    /\ delivered = [n \in Negotiations |-> 0]

SessionNext ==
    \/ \E c \in Calls :
          \/ \E a \in Clients, op \in Ops, n \in Negotiations \cup {None} : Send(c, a, op, n)
          \/ ServeNegotiate(c) \/ ServeTransfer(c) \/ Finish(c)
          \/ Lose(c) \/ Deliver(c) \/ GiveUp(c)
    \/ SessionRestart
    \/ Background

SessionSpec == SessionInit /\ [][SessionNext]_sessionVars

-----------------------------------------------------------------------------
(***************************************************************************)
(* Properties                                                              *)
(***************************************************************************)
\* Connections and what clients were told are as the client's types allow, and a
\* connection runs exactly when the server awaits its handler.
SessionTypeOK ==
    /\ conns \in [Calls -> Connections \cup {None}]
    /\ \A c \in Calls : In(c, "running") <=> calls[c] # None
    /\ \A c \in Calls : In(c, "replied") <=> conns[c] # None /\ conns[c].reply # None
    /\ learnt \subseteq Negotiations
    /\ held \subseteq [neg : Negotiations, agreement : Agreements]
    /\ asked \in [Negotiations -> Nat] /\ delivered \in [Negotiations -> Nat]

\* The agreement a client was given, however late the reply came and whatever was
\* asked or timed out since, is the one the server enforces for as long as the
\* negotiation outlives its process.
HeldIsEnforced ==
    \A h \in held :
        \/ h.neg \in lost
        \/ /\ store[h.neg] # None /\ store[h.neg].state = "AGREED"
           /\ store[h.neg].agreement = h.agreement

\* What these two exceptions of negotiate.* say stays true, although they were
\* raised at an earlier time than they are heard: after a NegotiationStateError the
\* negotiation is settled, after an UnknownSkillError on a negotiation one was told
\* of it went with its process.
HeardIsFinal ==
    \A h \in heard :
        /\ h.error = "NegotiationStateError" =>
              h.neg \in lost \/ (store[h.neg] # None /\ store[h.neg].state \in Settled)
        /\ h.error = "UnknownSkillError" => h.neg \in lost

\* A call that is lost or given up on may or may not be executed, but no call is
\* executed twice: results delivered, handlers run, units of a lease spent and
\* calls sent come in this order, whatever was lost.
UnitsAreAskedFor ==
    \A n \in Negotiations :
        /\ delivered[n] =< ran[n] /\ ran[n] =< asked[n]
        /\ lease[n] # None => lease[n].used =< asked[n]

\* Once a caller has heard that the server refused an invocation for its agreement,
\* no call, its own or another client's, given up or not, starts a handler under
\* that agreement again.  An AgreementViolatedError that a skill handler let through
\* looks the same to the caller and is not meant: it says nothing of this agreement.
\* The clock only goes forward and negotiations go with the process.
ViolationIsFinal ==
    [][\A h \in heard :
          h.error = "AgreementViolatedError" => ran'[h.neg] = ran[h.neg]]_sessionVars
=============================================================================
