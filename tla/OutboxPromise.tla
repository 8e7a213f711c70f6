---------------------------- MODULE OutboxPromise ----------------------------
(***************************************************************************)
(* What a durable event outbox promises about each event, with no database *)
(* row, lease, clock, timer, process or HTTP: an event is delivered only   *)
(* after it was recorded and only in counted attempts, of which there are  *)
(* MaxAttempts at most; it is settled once, as acknowledged only if the    *)
(* application took it, and given up only when its attempts or its time    *)
(* are spent.  A delivery may outlive the attempt it belongs to.           *)
(***************************************************************************)
EXTENDS Naturals

CONSTANTS Events, MaxAttempts

VARIABLES
  state,      \* "absent", "open", or how it was settled
  attempts,   \* attempts counted, per event
  posts,      \* deliveries sent to the application, per event
  taken,      \* events the application took
  old         \* events whose time is spent

outboxVars == <<state, attempts, posts, taken, old>>

Settlements == {"acknowledged", "refused", "given_up", "unbound"}

OutboxInit ==
  /\ state = [e \in Events |-> "absent"]
  /\ attempts = [e \in Events |-> 0] /\ posts = [e \in Events |-> 0]
  /\ taken = {} /\ old = {}

Record(e) ==
  /\ state[e] = "absent"
  /\ state' = [state EXCEPT ![e] = "open"]
  /\ UNCHANGED <<attempts, posts, taken, old>>

Attempt(e) ==
  /\ state[e] = "open" /\ attempts[e] < MaxAttempts
  /\ attempts' = [attempts EXCEPT ![e] = @ + 1]
  /\ UNCHANGED <<state, posts, taken, old>>

Post(e) ==
  /\ posts[e] < attempts[e]
  /\ posts' = [posts EXCEPT ![e] = @ + 1]
  /\ UNCHANGED <<state, attempts, taken, old>>

Take(e) ==
  /\ posts[e] > 0
  /\ taken' = taken \cup {e}
  /\ UNCHANGED <<state, attempts, posts, old>>

Age ==
  /\ old' \in SUBSET Events /\ old \subseteq old'
  /\ \A e \in old' : state[e] # "absent"
  /\ UNCHANGED <<state, attempts, posts, taken>>

Settles(e, s) ==
  /\ state[e] = "open"
  /\ s = "acknowledged" => e \in taken
  /\ s = "given_up" => attempts[e] = MaxAttempts \/ e \in old

\* Several events may be settled by one statement.
Settle ==
  /\ state' \in [Events -> Settlements \cup {"absent", "open"}]
  /\ \A e \in Events : state'[e] # state[e] =>
       state'[e] \in Settlements /\ Settles(e, state'[e])
  /\ UNCHANGED <<attempts, posts, taken, old>>

OutboxNext ==
  \/ \E e \in Events : Record(e) \/ Attempt(e) \/ Post(e) \/ Take(e)
  \/ Age \/ Settle

OutboxSpec == OutboxInit /\ [][OutboxNext]_outboxVars
=============================================================================
