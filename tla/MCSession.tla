------------------------------ MODULE MCSession ------------------------------
(* One negotiation about a skill that can be leased, two connections. *)
EXTENDS Session, TLC

CONSTANTS alice, prov, extract, leased, c1, c2

MCAgents == {alice, prov}

MCCalls == {c1, c2}

MCSupports == [s \in {extract} |-> {"delegate", "lease"}]

MCLease == [t \in {leased} |-> [maxInvocations |-> 1, ttl |-> 1]]

MCComposeCheck == [t \in {leased} |-> "no terms"]

\* A skill handler raises an exception of its own, or what a provider it called in
\* turn answered.
MCHandlerErrors == {"InternalError", "AgreementViolatedError"}

\* The last instant the clock reaches is the last one there is.
MCDates == 0 .. MaxTime

\* The two connections are interchangeable.
MCSymmetry == Permutations(MCCalls)

\* No guard of the session reads the log or the last answers; they are copied into
\* the replies before the next step.
MCView == <<now, store, handlers, artifacts, lease, calls, ran, lost, conns, clientVars>>
=============================================================================
