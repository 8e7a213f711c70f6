----------------------------- MODULE GroupsOutbox -----------------------------
(***************************************************************************)
(* The durable event outbox of the groups module (nexi-groups.cjs:         *)
(* expireOutbox, drain and the timer of installRoutes).  Every fifteen     *)
(* seconds a sweep puts aside what is too old or too often tried, for all  *)
(* instances, then drains the loaded ones: lease the oldest due event,     *)
(* post it, settle it, until one delivery is not answered.  The timer does *)
(* not wait for a sweep to end, so sweeps of one process overlap as those  *)
(* of several processes do.                                                *)
(***************************************************************************)
EXTENDS Naturals, FiniteSets

CONSTANTS
  Events,       \* the ids of rows of NexiGroupEventOutbox, numbers
  Instances,
  InstanceOf,   \* InstanceOf[e]
  Loaded,       \* instances with a service in the monitor
  Sweeps,       \* sweeps of the timer that run at one time
  NoSweep, NoInstance,
  MaxAttempts,  \* MAX_ATTEMPTS
  MaxAge,       \* MAX_AGE_MS
  Lease,        \* 30 s
  Backoff,      \* Backoff[a]: the delay after a failure with a attempts before
  Limit,        \* events per drain
  MaxNow,       \* bound on the clock
  MaxFaults     \* bound on faults

ASSUME GroupsOutboxConstants ==
  /\ Events \subseteq Nat /\ InstanceOf \in [Events -> Instances]
  /\ Loaded \subseteq Instances
  /\ IsFiniteSet(Sweeps) /\ NoSweep \notin Sweeps /\ NoInstance \notin Instances
  /\ MaxAttempts \in Nat \ {0} /\ MaxAge \in Nat \ {0} /\ Lease \in Nat \ {0}
  /\ Backoff \in [0 .. MaxAttempts -> Nat \ {0}] /\ Limit \in Nat \ {0}
  /\ MaxNow \in Nat /\ MaxFaults \in Nat

VARIABLES
  now,       \* one clock for processes and database
  row,       \* row[e]
  usable,    \* instances whose webhook is enabled and of the right form
  at,        \* where a sweep is, with its local variables
  posts,     \* POST requests sent, per event
  taken,     \* events the application persisted
  faults     \* failed statements, dead processes and edited webhooks so far

outside == <<posts, taken>>
vars    == <<now, row, usable, at, outside, faults>>

RowStates == {"absent", "queued", "delivered", "rejected", "quarantined"}

Rows == [state: RowStates, attempts: 0 .. MaxAttempts, next: Nat,
         token: Sweeps \cup {NoSweep}, until: Nat, created: Nat]

\* The sweep holds, or believes to hold, the lease of its event.
Holding == {"claimed", "waiting", "delivering", "rejecting", "releasing"}
Stages  == Holding \cup {"idle", "retain", "next", "expire", "endpoint", "find", "claim"}

\* todo are the instances left to drain; clock is what a statement compares
\* with, asked when it was issued; seen and born are of the row that was read.
Locals == [pc: Stages, todo: SUBSET Instances, inst: Instances \cup {NoInstance},
           turn: 0 .. Limit, clock: Nat, asked: Nat, event: Events \cup {0},
           seen: 0 .. MaxAttempts, born: Nat]

Asleep == [pc |-> "idle", todo |-> {}, inst |-> NoInstance, turn |-> 0, clock |-> 0,
           asked |-> 0, event |-> 0, seen |-> 0, born |-> 0]

TypeOK ==
  /\ now \in Nat /\ row \in [Events -> Rows] /\ usable \subseteq Instances
  /\ at \in [Sweeps -> Locals]
  /\ posts \in [Events -> Nat] /\ taken \subseteq Events /\ faults \in Nat

Init ==
  /\ now = 0 /\ usable = Instances /\ faults = 0
  /\ row = [e \in Events |-> [state |-> "absent", attempts |-> 0, next |-> 0,
                              token |-> NoSweep, until |-> 0, created |-> 0]]
  /\ at = [w \in Sweeps |-> Asleep]
  /\ posts = [e \in Events |-> 0] /\ taken = {}

GoTo(w, stage)  == at' = [at EXCEPT ![w].pc = stage]
GoWith(w, d)    == at' = [at EXCEPT ![w] = d]
\* The drain of this instance is over, by its end or by an exception.
NextInstance(w) == GoWith(w, [Asleep EXCEPT !.pc = "next", !.todo = at[w].todo])

NextTurn(w) ==
  IF at[w].turn + 1 < Limit
  THEN GoWith(w, [at[w] EXCEPT !.pc = "find", !.turn = @ + 1, !.clock = now, !.event = 0,
                               !.seen = 0, !.born = 0, !.asked = 0])
  ELSE NextInstance(w)

\* createdAt lies MAX_AGE_MS back at the time t, or more.
Aged(e, t)     == row[e].created + MaxAge <= t
Unleased(e, t) == row[e].until <= t

\* What findFirst and the claim ask of a row at the time t.
Eligible(e, i, t) ==
  /\ InstanceOf[e] = i /\ row[e].state = "queued"
  /\ row[e].next <= t /\ row[e].attempts < MaxAttempts
  /\ ~ Aged(e, t) /\ Unleased(e, t)

-----------------------------------------------------------------------------
\* enqueue, as part of the transaction that admits the event.
Enqueue(e) ==
  /\ row[e].state = "absent"
  /\ row' = [row EXCEPT ![e] = [@ EXCEPT !.state = "queued", !.next = now, !.created = now]]
  /\ UNCHANGED <<now, usable, at, outside, faults>>

Timer(w) ==
  /\ at[w].pc = "idle"
  /\ GoWith(w, [Asleep EXCEPT !.pc = "retain", !.todo = Loaded, !.clock = now])
  /\ UNCHANGED <<now, row, usable, outside, faults>>

Settled(r, state) == [r EXCEPT !.state = state, !.token = NoSweep, !.until = 0]

\* What-if variant: the age of an event is not looked at.
ExpiredSpent(is, t) ==
  [e \in Events |-> IF /\ InstanceOf[e] \in is /\ row[e].state = "queued"
                       /\ row[e].attempts >= MaxAttempts /\ Unleased(e, t)
                    THEN Settled(row[e], "quarantined") ELSE row[e]]

Expired(is, t) ==
  [e \in Events |->
     IF /\ InstanceOf[e] \in is /\ row[e].state = "queued"
        /\ row[e].attempts >= MaxAttempts \/ Aged(e, t)
        /\ Unleased(e, t)
     THEN Settled(row[e], "quarantined") ELSE row[e]]

\* expireOutbox, of all instances by the timer and of one by its drain.
ExpireOutbox(w) ==
  /\ \/ at[w].pc = "retain" /\ row' = Expired(Instances, at[w].clock) /\ NextInstance(w)
     \/ at[w].pc = "expire" /\ row' = Expired({at[w].inst}, at[w].clock) /\ GoTo(w, "endpoint")
  /\ UNCHANGED <<now, usable, outside, faults>>

\* The loop over the services of the monitor.
TakeInstance(w) ==
  /\ at[w].pc = "next"
  /\ \/ at[w].todo = {} /\ GoWith(w, Asleep)
     \/ \E i \in at[w].todo :
          GoWith(w, [at[w] EXCEPT !.pc = "expire", !.todo = @ \ {i}, !.inst = i, !.clock = now])
  /\ UNCHANGED <<now, row, usable, outside, faults>>

\* endpoint: without a usable webhook the drain ends here, its events stay.
Endpoint(w) ==
  /\ at[w].pc = "endpoint"
  /\ IF at[w].inst \in usable THEN GoWith(w, [at[w] EXCEPT !.pc = "find", !.clock = now])
     ELSE NextInstance(w)
  /\ UNCHANGED <<now, row, usable, outside, faults>>

\* The due event with the lowest id, or the end of the drain.
Find(w) ==
  LET eligible == {e \in Events : Eligible(e, at[w].inst, at[w].clock)} IN
  /\ at[w].pc = "find"
  /\ \/ eligible = {} /\ NextInstance(w)
     \/ \E e \in eligible :
          /\ \A f \in eligible : e <= f
          /\ GoWith(w, [at[w] EXCEPT !.pc = "claim", !.event = e, !.asked = now,
                                     !.seen = row[e].attempts, !.born = row[e].created])
  /\ UNCHANGED <<now, row, usable, outside, faults>>

Leased(w) ==
  LET r == row[at[w].event] IN
  [row EXCEPT ![at[w].event] =
     [r EXCEPT !.token = w, !.until = at[w].asked + Lease, !.attempts = r.attempts + 1]]

\* The claim asks again for all that made the row eligible, with the same clock.
Claimable(w) == Eligible(at[w].event, at[w].inst, at[w].clock)

Claim(w) ==
  /\ at[w].pc = "claim"
  /\ IF Claimable(w) THEN row' = Leased(w) /\ GoTo(w, "claimed")
     ELSE UNCHANGED row /\ NextTurn(w)
  /\ UNCHANGED <<now, usable, outside, faults>>

Asked(w, stage) == GoWith(w, [at[w] EXCEPT !.pc = stage, !.asked = now])

\* The event is signed and posted; a payload that cannot be signed throws.
Post(w) ==
  /\ at[w].pc = "claimed"
  /\ \/ posts' = [posts EXCEPT ![at[w].event] = @ + 1] /\ GoTo(w, "waiting")
     \/ UNCHANGED posts /\ Asked(w, "releasing")
  /\ UNCHANGED <<now, row, usable, taken, faults>>

\* The application persists an event it was sent, maybe after the timeout.
Take(e) ==
  /\ posts[e] > 0 /\ e \notin taken
  /\ taken' = taken \cup {e}
  /\ UNCHANGED <<now, row, usable, at, posts, faults>>

\* A success, a final refusal, or another status, an error or the timeout.
Response(w) ==
  /\ at[w].pc = "waiting"
  /\ \/ at[w].event \in taken /\ Asked(w, "delivering")
     \/ Asked(w, "rejecting") \/ Asked(w, "releasing")
  /\ UNCHANGED <<now, row, usable, outside, faults>>

\* What-if variant: a settling asks for a running lease, not whose it is.
MineOrNot(w) == LET r == row[at[w].event] IN r.state = "queued" /\ r.until > at[w].asked

\* Both settling updates ask for one's own lease, running when they were issued.
Mine(w) ==
  LET r == row[at[w].event] IN r.state = "queued" /\ r.token = w /\ r.until > at[w].asked

AsAnswered(w) ==
  [row EXCEPT ![at[w].event] = Settled(@, IF at[w].pc = "delivering" THEN "delivered" ELSE "rejected")]

Settle(w) ==
  /\ at[w].pc \in {"delivering", "rejecting"}
  /\ row' = IF Mine(w) THEN AsAnswered(w) ELSE row
  /\ NextTurn(w)
  /\ UNCHANGED <<now, usable, outside, faults>>

\* What-if variant: the last attempt is given up before it is made.
TerminalEarly(w) == at[w].seen + 2 >= MaxAttempts

\* The attempts and the age decided on are those of the row that was read.
Terminal(w) == at[w].seen + 1 >= MaxAttempts \/ at[w].born + MaxAge <= at[w].asked

Released(w) ==
  [row EXCEPT ![at[w].event] =
     [Settled(@, IF Terminal(w) THEN "quarantined" ELSE "queued")
        EXCEPT !.next = at[w].asked + Backoff[at[w].seen]]]

\* The update after an unanswered delivery ends the drain of this instance.
Release(w) ==
  /\ at[w].pc = "releasing"
  /\ row' = IF Mine(w) THEN Released(w) ELSE row
  /\ NextInstance(w)
  /\ UNCHANGED <<now, usable, outside, faults>>

-----------------------------------------------------------------------------
\* A statement fails, with or without its effect.  The settling of an answered
\* delivery stands inside the try, so the release follows.
AfterFailure(w) ==
  /\ IF at[w].pc \in {"delivering", "rejecting"} THEN Asked(w, "releasing") ELSE NextInstance(w)
  /\ faults < MaxFaults /\ faults' = faults + 1

Fails(w) ==
  /\ at[w].pc \in Stages \ {"idle", "next", "claimed", "waiting"}
  /\ AfterFailure(w)
  /\ UNCHANGED <<now, row, usable, outside>>

ReplyLost(w) ==
  /\ \/ at[w].pc = "claim" /\ Claimable(w) /\ row' = Leased(w)
     \/ at[w].pc \in {"delivering", "rejecting"} /\ Mine(w) /\ row' = AsAnswered(w)
     \/ at[w].pc = "releasing" /\ Mine(w) /\ row' = Released(w)
  /\ AfterFailure(w)
  /\ UNCHANGED <<now, usable, outside>>

Crash(w) ==
  /\ at[w].pc # "idle" /\ faults < MaxFaults
  /\ faults' = faults + 1 /\ GoWith(w, Asleep)
  /\ UNCHANGED <<now, row, usable, outside>>

\* The webhook of an instance is edited.
Rebind(i) ==
  /\ faults < MaxFaults /\ faults' = faults + 1
  /\ usable' = IF i \in usable THEN usable \ {i} ELSE usable \cup {i}
  /\ UNCHANGED <<now, row, at, outside>>

Tick ==
  /\ now < MaxNow /\ now' = now + 1
  /\ UNCHANGED <<row, usable, at, outside, faults>>

Progress(w) ==
  \/ ExpireOutbox(w) \/ TakeInstance(w) \/ Endpoint(w) \/ Find(w) \/ Claim(w)
  \/ Post(w) \/ Response(w) \/ Settle(w) \/ Release(w)

Next ==
  \/ Tick
  \/ \E i \in Instances : Rebind(i)
  \/ \E e \in Events : Enqueue(e) \/ Take(e)
  \/ \E w \in Sweeps : Timer(w) \/ Progress(w) \/ Fails(w) \/ ReplyLost(w) \/ Crash(w)

Spec == Init /\ [][Next]_vars

\* Time passes, the timer fires, Node runs the continuations of a sweep and
\* every request is answered or times out.
FairSpec == Spec /\ WF_vars(Tick) /\ \A w \in Sweeps : WF_vars(Progress(w)) /\ WF_vars(Timer(w))

-----------------------------------------------------------------------------
Held(e) == row[e].state = "queued" /\ row[e].token # NoSweep /\ now < row[e].until

\* While a lease runs only its holder settles or releases the event, so neither
\* the retention of another sweep nor a holder that outlived an earlier lease
\* takes a delivery under way from it (expireOutbox, drain).
LeaseRespected ==
  [][\A e \in Events : Held(e) /\ row'[e] # row[e] =>
       \E w \in Sweeps : /\ row[e].token = w /\ at[w].event = e
                         /\ at[w].pc \in {"delivering", "rejecting", "releasing"}
                         /\ at'[w] # at[w]]_vars

\* "Retention must not depend on a live WhatsApp socket or a successfully
\* configured webhook" (nexi-groups.cjs:1058): however deliveries fail, events
\* are leased to the dead or webhooks are taken away, an event that spent its
\* time does not stay in the queue.  A lease beyond the bounded clock is
\* excepted, since it never ends there.
RetentionKept ==
  \A e \in Events : row[e].state = "queued" /\ Aged(e, now)
                      ~> row[e].state # "queued" \/ row[e].until > MaxNow

-----------------------------------------------------------------------------
Fate(s) ==
  CASE s = "absent" -> "absent"          [] s = "queued" -> "open"
    [] s = "delivered" -> "acknowledged" [] s = "rejected" -> "refused"
    [] s = "quarantined" -> "given_up"

Promise == INSTANCE OutboxPromise WITH
  state    <- [e \in Events |-> Fate(row[e].state)],
  attempts <- [e \in Events |-> row[e].attempts],
  old      <- {e \in Events : row[e].state # "absent" /\ Aged(e, now)}

\* The sweeps over the rows keep what a durable outbox promises: counted and
\* bounded deliveries of recorded events, one truthful settlement, and no event
\* given up before its attempts or its time are spent.
KeepsPromise == Promise!OutboxSpec
=============================================================================
