--------------------------- MODULE DurableOutbox ---------------------------
(***************************************************************************)
(* What the outbox promises to whoever appends an intent, without claims,  *)
(* leases, visibility, attempts, receipts or crashes: an intent waits      *)
(* until it was consumed and is then settled for good, or is set aside as  *)
(* a dead letter, from which only a replay brings it back.  It may be      *)
(* consumed again while it is not settled: delivery is at least once.      *)
(***************************************************************************)
CONSTANT Entries

VARIABLES
    put,       \* intents appended so far
    waiting,   \* intents still to be settled
    dead,      \* dead letters
    consumed   \* intents that reached their consumer, or lost it

vars == <<put, waiting, dead, consumed>>

Init == put = {} /\ waiting = {} /\ dead = {} /\ consumed = {}

Append(e) ==
    /\ e \notin put
    /\ put' = put \cup {e}
    /\ waiting' = waiting \cup {e}
    /\ UNCHANGED <<dead, consumed>>

Consume(e) ==
    /\ e \in (waiting \cup dead) \ consumed
    /\ consumed' = consumed \cup {e}
    /\ UNCHANGED <<put, waiting, dead>>

Settle(e) ==
    /\ e \in waiting \cap consumed
    /\ waiting' = waiting \ {e}
    /\ UNCHANGED <<put, dead, consumed>>

GiveUp(e) ==
    /\ e \in waiting
    /\ waiting' = waiting \ {e}
    /\ dead' = dead \cup {e}
    /\ UNCHANGED <<put, consumed>>

Replay(e) ==
    /\ e \in dead
    /\ dead' = dead \ {e}
    /\ waiting' = waiting \cup {e}
    /\ UNCHANGED <<put, consumed>>

Next ==
    \E e \in Entries :
        Append(e) \/ Consume(e) \/ Settle(e) \/ GiveUp(e) \/ Replay(e)

Spec == Init /\ [][Next]_vars
=============================================================================
