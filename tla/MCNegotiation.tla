--------------------------- MODULE MCNegotiation ---------------------------
(* A small provider for TLC: one published skill, one unpublished one. *)
EXTENDS Negotiation

CONSTANTS alice, bob, prov, extract, hidden, plain, leased

MCAgents == {alice, bob, prov}

MCSkills == {extract, hidden}

MCSupports == [s \in MCSkills |-> IF s = extract THEN {"delegate", "lease"} ELSE {}]

MCTerms == {plain, leased}

MCLease ==
    [t \in MCTerms |-> IF t = leased THEN [maxInvocations |-> 1, ttl |-> 2] ELSE None]

\* Born expired, and gone after one or two units.
MCTtls == 0 .. 2

MCShortTtls == 0 .. 1

\* The last instant the clock reaches is the last one there is.
MCDates == 0 .. MaxTime

\* The two parties alone, over one skill offered in one mode.
MCParties == {alice, prov}

MCOneSkill == {extract}

\* The log and the answers are written and never read: a property that mentions
\* neither needs only one state for each clock and store.
MCView == <<now, store>>

MCLeaseOnly == [s \in MCOneSkill |-> {"lease"}]
============================================================================
