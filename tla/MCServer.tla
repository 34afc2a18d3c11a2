------------------------------ MODULE MCServer ------------------------------
(* A small server for TLC: one skill, in every mode it can be agreed on. *)
EXTENDS PolypactServer, TLC

CONSTANTS alice, bob, prov, extract, plain, leased, c1, c2

MCAgents == {alice, bob, prov}

MCParties == {alice, prov}

MCCalls == {c1, c2}

MCOneCall == {c1}

MCExtract == {extract}

MCExtractSupports == [s \in MCExtract |-> TransferModes]

\* Two terms blocks: with a lease and steps that compose, and with neither.
MCTerms == {plain, leased}

MCLease ==
    [t \in MCTerms |-> IF t = leased THEN [maxInvocations |-> 2, ttl |-> 1] ELSE None]

MCComposeCheck == [t \in MCTerms |-> IF t = leased THEN "compatible" ELSE "incompatible"]

\* A skill handler raises an exception of its own, or what a provider it called in
\* turn answered.
MCHandlerErrors == {"InternalError", "AgreementViolatedError"}

\* The last instant the clock reaches is the last one there is.
MCDates == 0 .. MaxTime

\* The two call slots are interchangeable.
MCSymmetry == Permutations(MCCalls)

\* The negotiation's log and answers are written and never read; the properties
\* of the server mention them only in TypeOK, which MCNegotiation checks in full.
MCView == <<now, store, transferVars>>
=============================================================================
