----------------------------- MODULE LeaseLedger -----------------------------
(***************************************************************************)
(* What the lease primitive promises, with no requests, windows or callers:*)
(* an account is opened with the agreed limit, each run of the skill       *)
(* handler costs a unit, a unit may be spent without a run, and none comes *)
(* back.  The end of the process ends the accounts, and never is one opened*)
(* again.                                                                  *)
(***************************************************************************)
EXTENDS Integers

CONSTANTS
    Leases, None,
    Limits    \* the numbers of units an agreement may set

VARIABLES
    limit,    \* the units an account was opened with; None before and after
    spent,    \* the units spent
    runs,     \* the runs started
    ended     \* accounts that are never opened again

ledgerVars == <<limit, spent, runs, ended>>

Init ==
    /\ limit = [n \in Leases |-> None]
    /\ spent = [n \in Leases |-> 0]
    /\ runs = [n \in Leases |-> 0]
    /\ ended = {}

\* An agreement without a lease block is an account without a unit.
Open(n, units) ==
    /\ limit[n] = None /\ n \notin ended
    /\ limit' = [limit EXCEPT ![n] = units]
    /\ UNCHANGED <<spent, runs, ended>>

\* The unit is spent whether or not there is a handler to run.
Spend(n) ==
    /\ limit[n] # None /\ spent[n] < limit[n]
    /\ spent' = [spent EXCEPT ![n] = @ + 1]
    /\ \E k \in {0, 1} : runs' = [runs EXCEPT ![n] = @ + k]
    /\ UNCHANGED <<limit, ended>>

Restart ==
    /\ limit' = [n \in Leases |-> None]
    /\ spent' = [n \in Leases |-> 0]
    /\ runs' = [n \in Leases |-> 0]
    /\ \E gone \in SUBSET Leases :
          /\ \A n \in Leases : limit[n] # None => n \in gone
          /\ ended' = ended \cup gone

Next ==
    \/ Restart
    \/ \E n \in Leases : Spend(n) \/ \E units \in Limits : Open(n, units)

Spec == Init /\ [][Next]_ledgerVars

\* No account is overdrawn, and no run is unpaid.
Solvent ==
    \A n \in Leases : limit[n] # None => runs[n] =< spent[n] /\ spent[n] =< limit[n]
=============================================================================
