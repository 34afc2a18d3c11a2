------------------------ MODULE NegotiationLifecycle ------------------------
(***************************************************************************)
(* What polypact.negotiate.* promises about a negotiation, with no clock,  *)
(* no store and no callers: an offer is on the table, may be replaced, and *)
(* is either agreed as it stands or closed for good.  Where negotiations   *)
(* are not durable they all may be forgotten at once, and none comes back. *)
(***************************************************************************)
CONSTANTS
    Negotiations, Terms, None,
    Durable   \* negotiations outlive the process that keeps them

VARIABLES
    phase,   \* "none", "open", "agreed", "closed" or "lost"
    offer,   \* the terms last put on the table
    bound    \* the terms the parties are bound to, or None

lifecycleVars == <<phase, offer, bound>>

Init ==
    /\ phase = [n \in Negotiations |-> "none"]
    /\ offer = [n \in Negotiations |-> None]
    /\ bound = [n \in Negotiations |-> None]

\* An offer whose time to live is zero or less is closed from the start.
Offer(n, t) ==
    /\ phase[n] \in {"none", "open"}
    /\ \E p \in {"open", "closed"} : phase' = [phase EXCEPT ![n] = p]
    /\ offer' = [offer EXCEPT ![n] = t]
    /\ UNCHANGED bound

Agree(n) ==
    /\ phase[n] = "open"
    /\ phase' = [phase EXCEPT ![n] = "agreed"]
    /\ bound' = [bound EXCEPT ![n] = offer[n]]
    /\ UNCHANGED offer

\* A rejection or a timeout closes one offer; the clock may close several.
Close(closing) ==
    /\ \A n \in closing : phase[n] = "open"
    /\ phase' = [n \in Negotiations |->
                    IF n \in closing THEN "closed" ELSE phase[n]]
    /\ UNCHANGED <<offer, bound>>

\* What is forgotten is not offered again under its name.
Forget ==
    /\ ~ Durable
    /\ phase' = [n \in Negotiations |-> IF phase[n] = "none" THEN "none" ELSE "lost"]
    /\ offer' = [n \in Negotiations |-> None]
    /\ bound' = [n \in Negotiations |-> None]

Next ==
    \/ Forget
    \/ \E n \in Negotiations : Agree(n) \/ \E t \in Terms : Offer(n, t)
    \/ \E closing \in SUBSET Negotiations : Close(closing)

Spec == Init /\ [][Next]_lifecycleVars
=============================================================================
