----------------------------- MODULE AtLeastOnce -----------------------------
(***************************************************************************)
(* What the durable queue promises for each delivery, whatever crashes: it *)
(* is pending until the relay has taken it or it has been given up, and it *)
(* is forgotten only after that.  Sending it again is allowed.             *)
(***************************************************************************)
CONSTANT Delivery

VARIABLES
  st,        \* where each delivery stands
  sent,      \* deliveries the relay has taken at least once
  given_up   \* deliveries that failed for good

avars == <<st, sent, given_up>>

State == {"none", "pending", "settled", "gone"}

TypeInv == /\ st \in [Delivery -> State]
           /\ sent \subseteq Delivery
           /\ given_up \subseteq Delivery

AInit == /\ st = [d \in Delivery |-> "none"]
         /\ sent = {}
         /\ given_up = {}

\* Every delivery in D moves from one state to another.
Move(D, from, to) == /\ \A d \in D : st[d] = from
                     /\ st' = [d \in Delivery |-> IF d \in D THEN to ELSE st[d]]

Enqueue(d) == Move({d}, "none", "pending") /\ UNCHANGED <<sent, given_up>>

\* The relay takes a pending delivery.
Hand(d) == /\ st[d] = "pending"
           /\ sent' = sent \cup {d}
           /\ UNCHANGED <<st, given_up>>

\* The delivery is given up, and may be settled by the same step.
GiveUp(d) == /\ st[d] = "pending"
             /\ given_up' = given_up \cup {d}
             /\ UNCHANGED sent
             /\ Move({d}, "pending", "settled") \/ UNCHANGED st

\* Only what was sent or given up is settled.
Settle(d) == /\ d \in sent \cup given_up
             /\ Move({d}, "pending", "settled")
             /\ UNCHANGED <<sent, given_up>>

\* Settled deliveries are driven again, or forgotten.
Again(D) == Move(D, "settled", "pending") /\ UNCHANGED <<sent, given_up>>
Prune(D) == Move(D, "settled", "gone") /\ UNCHANGED <<sent, given_up>>

ANext == \/ \E d \in Delivery : Enqueue(d) \/ Hand(d) \/ GiveUp(d) \/ Settle(d)
         \/ \E D \in SUBSET Delivery : Again(D) \/ Prune(D)

ASpec == AInit /\ [][ANext]_avars
=============================================================================
