---------------------------- MODULE Announcement ----------------------------
(***************************************************************************)
(* What the delivery of webhooks promises for every event it announces,    *)
(* whatever is lost, retried, claimed twice or rolled back on the way:     *)
(* an event is sent only once it has happened, an outcome is recorded only *)
(* after it was sent, no more attempts are counted than were made, and a   *)
(* deleted event stays deleted. How often it is sent is not promised, nor  *)
(* that a success is never put in doubt again: overlapping sweeps can.     *)
(***************************************************************************)
EXTENDS Naturals

CONSTANT Event

VARIABLES
    fate,       \* "unknown" until its transaction commits, if it ever does
    sent,       \* how often it has been sent
    counted     \* the attempts its record shows

promise == <<fate, sent, counted>>

Fate == {"unknown", "due", "delivered", "deleted"}

Init ==
    /\ fate = [e \in Event |-> "unknown"]
    /\ sent = [e \in Event |-> 0]
    /\ counted = [e \in Event |-> 0]

Happen(e) ==
    /\ fate[e] = "unknown"
    /\ fate' = [fate EXCEPT ![e] = "due"]
    /\ UNCHANGED <<sent, counted>>

\* A worker that has the event goes on with it even when it is deleted.
Send(e) ==
    /\ fate[e] # "unknown"
    /\ sent' = [sent EXCEPT ![e] = @ + 1]
    /\ UNCHANGED <<fate, counted>>

\* An outcome is recorded, perhaps by someone who has counted fewer attempts.
Record(e) ==
    /\ fate[e] \in {"due", "delivered"}
    /\ \E f \in {"due", "delivered"}, n \in 1 .. sent[e] :
         /\ fate' = [fate EXCEPT ![e] = f]
         /\ counted' = [counted EXCEPT ![e] = n]
    /\ UNCHANGED sent

\* Events are due to be sent again.
Renew(E) ==
    /\ \A e \in E : fate[e] \in {"due", "delivered"}
    /\ fate' = [e \in Event |-> IF e \in E THEN "due" ELSE fate[e]]
    /\ UNCHANGED <<sent, counted>>

\* The subscription is deleted with the events that have happened.
Delete ==
    /\ fate' = [e \in Event |-> IF fate[e] = "unknown" THEN "unknown" ELSE "deleted"]
    /\ UNCHANGED <<sent, counted>>

Next == \/ \E e \in Event : Happen(e) \/ Send(e) \/ Record(e)
        \/ \E E \in SUBSET Event : Renew(E)
        \/ Delete

Spec == Init /\ [][Next]_promise
=============================================================================
