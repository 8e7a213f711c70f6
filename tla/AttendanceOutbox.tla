--------------------------- MODULE AttendanceOutbox ---------------------------
(***************************************************************************)
(* The durable event outbox of the attendance modules                      *)
(* (nexi-attendance.cjs: enqueue, drain, wakeOutbox and the poll timer).   *)
(* Every process keeps one drainer per repository, woken by hints and by a *)
(* poll, that leases one due event at a time, posts it to the application  *)
(* and settles it.  Several processes drain the same rows; a drainer may   *)
(* stall past its lease, and the process, the database or the application  *)
(* may fail before or after a command took effect.                         *)
(***************************************************************************)
EXTENDS Naturals, FiniteSets, Sequences, SequencesExt

CONSTANTS
  Events,       \* rows of NexiAttendanceEventOutbox
  Instances,
  InstanceOf,   \* InstanceOf[e]
  Readable,     \* events whose version and fingerprint this build accepts
  Procs,        \* Evolution processes
  NoProc, NoInstance, NoEvent,
  MaxAttempts,  \* MAX_ATTEMPTS
  Lease,        \* 30 s
  Backoff,      \* Backoff[a]: the delay after a failure with a attempts before
  Limit,        \* events per drain
  Capacity,     \* OUTBOX_WAKE_CAPACITY
  Window,       \* instances the poll takes
  MaxNow,       \* bound on the clock
  MaxFaults     \* bound on faults

ASSUME OutboxConstants ==
  /\ InstanceOf \in [Events -> Instances]
  /\ Readable \subseteq Events
  /\ IsFiniteSet(Procs) /\ IsFiniteSet(Instances)
  /\ NoProc \notin Procs /\ NoInstance \notin Instances /\ NoEvent \notin Events
  /\ MaxAttempts \in Nat \ {0} /\ Lease \in Nat \ {0}
  /\ Backoff \in [0 .. MaxAttempts -> Nat \ {0}]
  /\ Limit \in Nat \ {0} /\ Capacity \in Nat \ {0}
  /\ Window \in Nat \ {0}
  /\ MaxNow \in Nat /\ MaxFaults \in Nat

VARIABLES
  now,       \* one clock for processes and database
  row,       \* row[e]
  binding,   \* what the webhook of an instance says
  ready,     \* ready[p]: instances hinted at, in order
  at,        \* where p's drainer is, with its local variables
  posts,     \* POST requests sent, per event
  taken,     \* events the application persisted
  faults     \* crashes, failures of the database and changed webhooks so far

outside == <<posts, taken>>
vars    == <<now, row, binding, ready, at, outside, faults>>

RowStates == {"absent", "pending", "acknowledged", "unsupported", "quarantined",
              "binding_unavailable"}
\* A webhook is enabled; disabled, removed or of another path; or malformed.
Bindings == {"enabled", "unavailable", "invalid"}

Rows == [state: RowStates, attempts: 0 .. MaxAttempts, next: Nat,
         token: Procs \cup {NoProc}, until: Nat, created: Nat]

\* The drainer holds, or believes to hold, the lease of its event.
Holding == {"claimed", "waiting", "acknowledging", "refusing", "releasing"}
Stages  == Holding \cup
  {"idle", "loop", "boundary", "unbind", "sweep", "find", "discard", "claim"}

\* turn counts the events of this drain; clock is what its statements compare
\* with; asked is when it issued the statement it awaits; seen is the attempts
\* it read of its event.
Drainers == [pc: Stages, inst: Instances \cup {NoInstance}, turn: 0 .. Limit,
             clock: Nat, asked: Nat, event: Events \cup {NoEvent},
             seen: 0 .. MaxAttempts]

Asleep == [pc |-> "idle", inst |-> NoInstance, turn |-> 0, clock |-> 0, asked |-> 0,
           event |-> NoEvent, seen |-> 0]

TypeOK ==
  /\ now \in Nat
  /\ row \in [Events -> Rows]
  /\ binding \in [Instances -> Bindings]
  /\ ready \in [Procs -> Seq(Instances)]
  /\ at \in [Procs -> Drainers]
  /\ posts \in [Events -> Nat] /\ taken \in SUBSET Events
  /\ faults \in Nat

Init ==
  /\ now = 0
  /\ row = [e \in Events |-> [state |-> "absent", attempts |-> 0, next |-> 0,
                              token |-> NoProc, until |-> 0, created |-> 0]]
  /\ binding = [i \in Instances |-> "enabled"]
  /\ ready = [p \in Procs |-> <<>>]
  /\ at = [p \in Procs |-> Asleep]
  /\ posts = [e \in Events |-> 0] /\ taken = {}
  /\ faults = 0

\* The drainer goes on at a stage, with the same or with new locals.
GoTo(p, stage)      == at' = [at EXCEPT ![p].pc = stage]
GoWith(p, drainer)  == at' = [at EXCEPT ![p] = drainer]

\* The drain is over, its locals are gone.
Looping == [Asleep EXCEPT !.pc = "loop"]

\* leaseUntil is null (0 here), or not after t.
Unleased(e, t) == row[e].until <= t

\* What findFirst and the claim ask of a row at the time t.
Eligible(e, i, t) ==
  /\ InstanceOf[e] = i /\ row[e].state = "pending"
  /\ row[e].next <= t /\ row[e].attempts < MaxAttempts
  /\ Unleased(e, t)

\* The next event of this drain, or the end of it.
NextTurn(p) ==
  GoWith(p, IF at[p].turn + 1 < Limit
            THEN [Looping EXCEPT !.pc = "find", !.inst = at[p].inst,
                                 !.turn = at[p].turn + 1, !.clock = now]
            ELSE Looping)

-----------------------------------------------------------------------------
\* enqueue, inside the transaction of what the event reports; the same source
\* key finds the row that is there.
Enqueue(e) ==
  /\ row[e].state = "absent"
  /\ row' = [row EXCEPT ![e] = [@ EXCEPT !.state = "pending", !.next = now,
                                         !.created = now]]
  /\ UNCHANGED <<now, binding, ready, at, outside, faults>>

Hinted(p) == {ready[p][k] : k \in 1 .. Len(ready[p])}

\* The hints is, all new to p, are taken as far as there is room, and the
\* drainer runs.
Wake(p, is) ==
  /\ Len(ready[p]) + Len(is) <= Capacity
  /\ ready' = [ready EXCEPT ![p] = @ \o is]
  /\ GoTo(p, IF at[p].pc = "idle" THEN "loop" ELSE at[p].pc)
  /\ UNCHANGED <<now, row, binding, outside, faults>>

\* wakeOutbox: a hint at hand keeps its place, a full map drops a new one.
WakeOutbox(p) == \E i \in Instances \ Hinted(p) : Wake(p, <<i>>)

\* The poll timer wakes instances with pending work that is due, at most Window
\* of them in no promised order, as far as the map of hints has room.
Poll(p) ==
  LET due  == {i \in Instances : \E e \in Events :
                 InstanceOf[e] = i /\ row[e].state = "pending" /\ row[e].next <= now}
      room == Capacity - Len(ready[p])
  IN
  \E polled \in SUBSET due :
    LET new == polled \ Hinted(p) IN
    /\ Cardinality(polled) = Min({Window, Cardinality(due)})
    /\ \E hints \in kSubset(Min({room, Cardinality(new)}), new) :
         hints # {} /\ \E is \in SetToSeqs(hints) : Wake(p, is)

-----------------------------------------------------------------------------
\* The consumer's loop: the oldest hint is taken off, then drained.
TakeHint(p) ==
  /\ at[p].pc = "loop"
  /\ IF ready[p] = <<>>
     THEN GoWith(p, Asleep) /\ UNCHANGED ready
     ELSE /\ GoWith(p, [at[p] EXCEPT !.pc = "boundary", !.inst = Head(ready[p])])
          /\ ready' = [ready EXCEPT ![p] = Tail(@)]
  /\ UNCHANGED <<now, row, binding, outside, faults>>

\* boundary: the webhook's binding at this moment; a malformed one throws, and
\* ends the drain with nothing done.
Boundary(p) ==
  /\ at[p].pc = "boundary"
  /\ GoWith(p, CASE binding[at[p].inst] = "enabled" ->
                      [at[p] EXCEPT !.pc = "sweep", !.clock = now]
                 [] binding[at[p].inst] = "unavailable" ->
                      [at[p] EXCEPT !.pc = "unbind", !.clock = now]
                 [] binding[at[p].inst] = "invalid" -> Looping)
  /\ UNCHANGED <<now, row, binding, ready, outside, faults>>

\* An instance without a boundary: its unleased events are put aside.
Unbind(p) ==
  /\ at[p].pc = "unbind"
  /\ row' = [e \in Events |->
               IF /\ InstanceOf[e] = at[p].inst /\ row[e].state = "pending"
                  /\ Unleased(e, at[p].clock)
               THEN [row[e] EXCEPT !.state = "binding_unavailable"] ELSE row[e]]
  /\ GoWith(p, Looping)
  /\ UNCHANGED <<now, binding, ready, outside, faults>>

Swept(p) == GoWith(p, [at[p] EXCEPT !.pc = "find", !.clock = now])

\* What-if variant: events are only given up where their last attempt failed.
SweepNothing(p) ==
  /\ at[p].pc = "sweep"
  /\ Swept(p)
  /\ UNCHANGED <<now, row, binding, ready, outside, faults>>

\* Events whose last attempt was never settled are given up.
Sweep(p) ==
  /\ at[p].pc = "sweep"
  /\ row' = [e \in Events |->
               IF /\ InstanceOf[e] = at[p].inst /\ row[e].state = "pending"
                  /\ row[e].attempts >= MaxAttempts /\ Unleased(e, at[p].clock)
               THEN [row[e] EXCEPT !.state = "quarantined", !.token = NoProc, !.until = 0]
               ELSE row[e]]
  /\ Swept(p)
  /\ UNCHANGED <<now, binding, ready, outside, faults>>

\* findFirst: the oldest eligible event.
Find(p) ==
  LET eligible == {e \in Events : Eligible(e, at[p].inst, at[p].clock)} IN
  /\ at[p].pc = "find"
  /\ \/ eligible = {} /\ GoWith(p, Looping)
     \/ \E e \in eligible :
          /\ \A f \in eligible : row[e].created <= row[f].created
          /\ GoWith(p, [at[p] EXCEPT !.pc = IF e \in Readable THEN "claim" ELSE "discard",
                                     !.event = e, !.seen = row[e].attempts,
                                     !.asked = now])
  /\ UNCHANGED <<now, row, binding, ready, outside, faults>>

\* An event that this build does not understand is kept, but not delivered.
Discard(p) ==
  LET e == at[p].event IN
  /\ at[p].pc = "discard"
  /\ row' = IF row[e].state = "pending"
            THEN [row EXCEPT ![e].state = "unsupported"] ELSE row
  /\ NextTurn(p)
  /\ UNCHANGED <<now, binding, ready, outside, faults>>

\* The rows with the event of p leased to it, and the attempt counted.
Leased(p) ==
  LET r == row[at[p].event] IN
  [row EXCEPT ![at[p].event] =
     [r EXCEPT !.token = p, !.until = at[p].asked + Lease,
               !.attempts = r.attempts + 1]]

\* The claim counts the attempt and leases the event, if it is still eligible
\* at the time findFirst was asked for.
Claim(p) ==
  /\ at[p].pc = "claim"
  /\ IF Eligible(at[p].event, at[p].inst, at[p].clock)
     THEN row' = Leased(p) /\ GoTo(p, "claimed")
     ELSE UNCHANGED row /\ NextTurn(p)
  /\ UNCHANGED <<now, binding, ready, outside, faults>>

Answered(p, stage) == GoWith(p, [at[p] EXCEPT !.pc = stage, !.asked = now])

\* fetch is called, or the request cannot be made.
Post(p) ==
  /\ at[p].pc = "claimed"
  /\ \/ posts' = [posts EXCEPT ![at[p].event] = @ + 1] /\ GoTo(p, "waiting")
     \/ UNCHANGED posts /\ Answered(p, "releasing")
  /\ UNCHANGED <<now, row, binding, ready, taken, faults>>

\* The application persists an event it was sent, maybe long after the request
\* timed out.
Take(e) ==
  /\ posts[e] > 0 /\ e \notin taken
  /\ taken' = taken \cup {e}
  /\ UNCHANGED <<now, row, binding, ready, at, posts, faults>>

\* What-if variant: any successful response counts as an acknowledgement.
ResponseOfAny(p) ==
  /\ at[p].pc = "waiting"
  /\ Answered(p, "acknowledging")
  /\ UNCHANGED <<now, row, binding, ready, outside, faults>>

\* The response: an acknowledgement of this very event, a refusal of its
\* schema, or anything else, a timeout included.
Response(p) ==
  /\ at[p].pc = "waiting"
  /\ \/ at[p].event \in taken /\ Answered(p, "acknowledging")
     \/ Answered(p, "refusing")
     \/ Answered(p, "releasing")
  /\ UNCHANGED <<now, row, binding, ready, outside, faults>>

-----------------------------------------------------------------------------
\* What-if variant: a holder settles without asking whose lease runs.
MineOrNot(p) == row[at[p].event].state = "pending"

\* The settling updates ask that the event is pending and the lease one's own.
Mine(p) == row[at[p].event].state = "pending" /\ row[at[p].event].token = p

Settled(e, state) ==
  [row EXCEPT ![e] = [@ EXCEPT !.state = state, !.token = NoProc, !.until = 0]]

AsAnswered(p) ==
  Settled(at[p].event, IF at[p].pc = "refusing" THEN "unsupported" ELSE "acknowledged")

\* The update that settles the event as answered.
Settle(p) ==
  /\ at[p].pc \in {"acknowledging", "refusing"}
  /\ row' = IF Mine(p) THEN AsAnswered(p) ELSE row
  /\ NextTurn(p)
  /\ UNCHANGED <<now, binding, ready, outside, faults>>

Released(p) ==
  LET n == at[p].seen IN
  [Settled(at[p].event, IF n + 1 >= MaxAttempts THEN "quarantined" ELSE "pending")
     EXCEPT ![at[p].event].next = at[p].asked + Backoff[n]]

\* The update after an unsettled delivery: its backoff, or its end.
Release(p) ==
  /\ at[p].pc = "releasing"
  /\ row' = IF Mine(p) THEN Released(p) ELSE row
  /\ NextTurn(p)
  /\ UNCHANGED <<now, binding, ready, outside, faults>>

-----------------------------------------------------------------------------
\* A statement fails without effect, or its effect remains and only the reply
\* is lost.  A failed settling falls through to the release; anything else
\* ends the drain, and the consumer goes on with its next hint.
AfterFailure(p) ==
  /\ IF at[p].pc \in {"acknowledging", "refusing"}
     THEN Answered(p, "releasing") ELSE GoWith(p, Looping)
  /\ faults < MaxFaults /\ faults' = faults + 1

Fails(p) ==
  /\ at[p].pc \in Stages \ {"idle", "loop", "claimed", "waiting"}
  /\ AfterFailure(p)
  /\ UNCHANGED <<now, row, binding, ready, outside>>

ReplyLost(p) ==
  /\ \/ /\ at[p].pc = "claim" /\ Eligible(at[p].event, at[p].inst, at[p].clock)
        /\ row' = Leased(p)
     \/ /\ at[p].pc \in {"acknowledging", "refusing"} /\ Mine(p)
        /\ row' = AsAnswered(p)
     \/ at[p].pc = "releasing" /\ Mine(p) /\ row' = Released(p)
  /\ AfterFailure(p)
  /\ UNCHANGED <<now, binding, ready, outside>>

\* The process dies with its hints and starts again.
Crash(p) ==
  /\ at[p].pc # "idle" /\ faults < MaxFaults
  /\ faults' = faults + 1
  /\ GoWith(p, Asleep)
  /\ ready' = [ready EXCEPT ![p] = <<>>]
  /\ UNCHANGED <<now, row, binding, outside>>

\* The webhook of an instance is changed.
Rebind(i) ==
  /\ faults < MaxFaults /\ faults' = faults + 1
  /\ \E b \in Bindings : binding' = [binding EXCEPT ![i] = b]
  /\ UNCHANGED <<now, row, ready, at, outside>>

Tick ==
  /\ now < MaxNow
  /\ now' = now + 1
  /\ UNCHANGED <<row, binding, ready, at, outside, faults>>

-----------------------------------------------------------------------------
\* The continuations of a drainer, and the timer that starts it.
Progress(p) ==
  \/ TakeHint(p) \/ Boundary(p) \/ Unbind(p) \/ Sweep(p) \/ Find(p) \/ Discard(p)
  \/ Claim(p) \/ Post(p) \/ Response(p) \/ Settle(p) \/ Release(p)

Next ==
  \/ Tick
  \/ \E i \in Instances : Rebind(i)
  \/ \E e \in Events : Enqueue(e) \/ Take(e)
  \/ \E p \in Procs :
       \/ Progress(p) \/ Poll(p) \/ WakeOutbox(p)
       \/ Fails(p) \/ ReplyLost(p) \/ Crash(p)

Spec == Init /\ [][Next]_vars

\* Time passes, Node runs the drainer's continuations, every request is answered
\* or times out, and the poll timer fires.
FairSpec ==
  Spec /\ WF_vars(Tick) /\ \A p \in Procs : WF_vars(Progress(p)) /\ WF_vars(Poll(p))

-----------------------------------------------------------------------------
\* The drainers about to post an event.
Sending(e) == {p \in Procs : at[p].pc = "claimed" /\ at[p].event = e}

\* What the drainer p knows of its event is not ahead of the row.
DrainerSound(p) ==
  LET d == at[p] IN
  /\ d.pc \notin {"idle", "loop"} => d.inst \in Instances
  /\ d.pc \in Holding \cup {"claim", "discard"} => d.event \in Events
  /\ d.clock <= now
  /\ d.pc \in Holding \cup {"claim"} => d.event \in Readable
  /\ d.pc = "discard" => d.event \notin Readable
  /\ d.pc = "claim" => d.seen <= row[d.event].attempts
  /\ d.pc \in Holding => d.seen + 1 <= row[d.event].attempts
  /\ d.pc = "acknowledging" => d.event \in taken

RowSound(e) ==
  /\ row[e].state = "quarantined" => row[e].attempts = MaxAttempts
  /\ row[e].token # NoProc => e \in Readable
  /\ posts[e] + Cardinality(Sending(e)) <= row[e].attempts

IndInv ==
  TypeOK /\ (\A p \in Procs : DrainerSound(p)) /\ (\A e \in Events : RowSound(e))

Held(e) == row[e].state = "pending" /\ row[e].token # NoProc /\ now < row[e].until

\* While a lease runs nobody but its holder settles, releases or puts aside the
\* event, and a holder that outlived its lease changes nothing under the next
\* one.
LeaseRespected ==
  [][\A e \in Events : Held(e) /\ row'[e] # row[e] =>
       \E p \in Procs : /\ row[e].token = p /\ at[p].event = e
                        /\ at[p].pc \in {"acknowledging", "refusing", "releasing"}
                        /\ at'[p] # at[p]]_vars

\* However many processes, crashes and lost replies: an event is sent no more
\* often than its attempts were counted, and no more than MAX_ATTEMPTS times
\* (ATTENDANCE-WAVE1B.md: "bounds HTTP retries to the existing 12-attempt
\* ceiling").
PostsBounded ==
  \A e \in Events : posts[e] <= row[e].attempts /\ row[e].attempts <= MaxAttempts

\* An event is only given up when all its attempts are spent, although the
\* count decided on was read before the lease was taken.
GivenUpExhausted ==
  \A e \in Events : row[e].state = "quarantined" => row[e].attempts = MaxAttempts

\* Whom the poll counts in although it cannot get on with it: an instance with
\* a malformed webhook, or a lease that the bounded clock never sees expire.
Hindered ==
  \/ \E i \in Instances : binding[i] = "invalid"
  \/ \E e \in Events : row[e].until > MaxNow

\* No due event is forgotten by hints, crashes, limits, a poll that takes some
\* of the instances only, or a lease nobody holds any more: it is leased again,
\* or settled.
Due(e) == row[e].state = "pending" /\ row[e].next <= now /\ row[e].until <= now

NoEventStranded == \A e \in Events : Due(e) ~> ~ Due(e) \/ Hindered

-----------------------------------------------------------------------------
\* The outbox keeps what it promises for every event.
Fate(s) ==
  CASE s = "absent"              -> "absent"
    [] s = "pending"             -> "open"
    [] s = "acknowledged"        -> "acknowledged"
    [] s = "unsupported"         -> "refused"
    [] s = "quarantined"         -> "given_up"
    [] s = "binding_unavailable" -> "unbound"

Promise == INSTANCE OutboxPromise WITH
  state    <- [e \in Events |-> Fate(row[e].state)],
  attempts <- [e \in Events |-> row[e].attempts],
  old      <- {}

KeepsPromise == Promise!OutboxSpec
=============================================================================
