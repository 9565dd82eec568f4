-------------------------- MODULE AssignmentBoard --------------------------
(***************************************************************************)
(* What the runner directory promises about the place of an assignment,    *)
(* without claims, ledger, sessions, counters or requests.  An assignment  *)
(* is with one runner at most, and goes from one to another only through   *)
(* the queue; what a runner has leased is never offered to anyone before   *)
(* it was taken off the board; no runner is given more than its capacity.  *)
(***************************************************************************)
EXTENDS Integers, FiniteSets

CONSTANTS Tasks, Runners, Capacity, Nobody

VARIABLES
    place,   \* "away", "queued", "claimed" or "leased"
    holder   \* the runner the assignment is with, or Nobody

vars == <<place, holder>>

With(r) == {t \in Tasks : holder[t] = r}

Init ==
    /\ place = [t \in Tasks |-> "away"]
    /\ holder = [t \in Tasks |-> Nobody]

\* The assignments of T are put to p, with h.
Put(T, p, h) ==
    /\ place' = [t \in Tasks |-> IF t \in T THEN p ELSE place[t]]
    /\ holder' = [t \in Tasks |-> IF t \in T THEN h ELSE holder[t]]

Offer(t) == place[t] = "away" /\ Put({t}, "queued", Nobody)

Claim(r, t) ==
    /\ place[t] = "queued"
    /\ Cardinality(With(r)) < Capacity
    /\ Put({t}, "claimed", r)

Lease(t) == place[t] = "claimed" /\ Put({t}, "leased", holder[t])

\* A runner's claims, one or several, go back to the queue.
Return(r, T) ==
    /\ \A t \in T : place[t] = "claimed" /\ holder[t] = r
    /\ Put(T, "queued", Nobody)

Remove(t) == place[t] # "away" /\ Put({t}, "away", Nobody)

Next ==
    \/ \E t \in Tasks : Offer(t) \/ Lease(t) \/ Remove(t) \/ \E r \in Runners : Claim(r, t)
    \/ \E r \in Runners, T \in SUBSET Tasks : Return(r, T)

Spec == Init /\ [][Next]_vars
=============================================================================
