---------------------------- MODULE DeliveryOnce -----------------------------
(***************************************************************************)
(* What the delivery ledger promises, with no Redis, lease, clock or       *)
(* crash: every delivery identity crosses the dispatch boundary at most    *)
(* once, reaches WhatsApp at most once and only after crossing, and is     *)
(* settled at most once, as completed only when its operation returned.    *)
(***************************************************************************)
EXTENDS Naturals

CONSTANT Deliveries

VARIABLES
  phase,      \* "open", "dispatching", "completed" or "ambiguous"
  writes,     \* WhatsApp messages written for the delivery
  returned    \* deliveries whose operation returned normally

onceVars == <<phase, writes, returned>>

OnceInit ==
  /\ phase = [d \in Deliveries |-> "open"]
  /\ writes = [d \in Deliveries |-> 0]
  /\ returned = {}

Cross(d) ==
  /\ phase[d] = "open"
  /\ phase' = [phase EXCEPT ![d] = "dispatching"]
  /\ UNCHANGED <<writes, returned>>

\* A write may also follow a settlement as ambiguous: that is what the
\* ambiguity is about.  It never follows a completed one.
Write(d) ==
  /\ phase[d] \in {"dispatching", "ambiguous"}
  /\ writes[d] = 0
  /\ d \notin returned
  /\ writes' = [writes EXCEPT ![d] = 1]
  /\ UNCHANGED <<phase, returned>>

Return(d) ==
  /\ phase[d] = "dispatching"
  /\ d \notin returned
  /\ returned' = returned \cup {d}
  /\ UNCHANGED <<phase, writes>>

Settle(d) ==
  /\ phase[d] = "dispatching"
  /\ phase' = [phase EXCEPT ![d] = IF d \in returned THEN "completed" ELSE "ambiguous"]
  /\ UNCHANGED <<writes, returned>>

OnceNext == \E d \in Deliveries : Cross(d) \/ Write(d) \/ Return(d) \/ Settle(d)

OnceSpec == OnceInit /\ [][OnceNext]_onceVars
=============================================================================
