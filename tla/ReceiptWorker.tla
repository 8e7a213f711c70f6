----------------------------- MODULE ReceiptWorker ------------------------------
(***************************************************************************)
(* The receipt worker of nexi-attendance (trip, append, ReceiptWorker,     *)
(* capture).  A native receipt is to be journaled before Baileys goes on   *)
(* with it and acknowledges it.  The worker appends through a bounded      *)
(* queue and a few slots; an append that is refused, fails or outlives its *)
(* deadline makes the worker unhealthy for good and goes to a bounded      *)
(* recovery buffer, from which a timer submits it again while nothing else *)
(* is in work.  The handler goes on in any case.                           *)
(***************************************************************************)
EXTENDS Naturals, Sequences, SequencesExt

CONSTANTS
  Keys,          \* source keys of receipts
  Size,          \* their bytes
  Packets,       \* the receipts of one packet, in order
  QueueItems, QueueBytes, Concurrent, RecoveryItems, RecoveryBytes,
  MaxPlace,      \* the receipts of a packet are at most (128 in the code)
  MaxPackets,    \* bound on packets
  MaxFaults      \* bound on faults

ASSUME ReceiptConstants ==
  /\ Size \in [Keys -> Nat \ {0}] /\ \A p \in Packets : p \in Seq(Keys) /\ Len(p) \in 1 .. MaxPlace
  /\ {QueueItems, QueueBytes, Concurrent, RecoveryItems, RecoveryBytes} \subseteq Nat \ {0}
  /\ MaxPlace \in Nat /\ Concurrent <= QueueItems /\ MaxPackets \in Nat /\ MaxFaults \in Nat

VARIABLES
  worker,     \* the ReceiptWorker of this process, there once it was needed
  packets,    \* packets[h]: what the h-th call of capture still waits for
  waits,      \* jobs whose promise is not resolved yet
  recovering, \* the timer waits for its recover
  health,     \* the stored row, and whether a write of it is under way
  journal,    \* keys with a row and its event
  taken,      \* keys whose handler went on
  lost,       \* keys let go by a full buffer, a blind capture or a crash
  unrecorded, \* a gap was forgotten: its health write failed, or a crash came first
  faults

books == <<taken, lost, unrecorded, faults>>
vars  == <<worker, packets, waits, recovering, health, journal, books>>

\* A job is known by its call (0 is the timer's) and its place; found tells that
\* its append begins with the key already there.
Calls == 0 .. MaxPackets
Job   == [call : Calls, place : Nat, key : Keys, expired : BOOLEAN, found : BOOLEAN]
Id(j) == <<j.call, j.place>>
NewJob(h, i, k) == [call |-> h, place |-> i, key |-> k, expired |-> FALSE, found |-> FALSE]
NewWorker == [there |-> FALSE, unhealthy |-> FALSE, queue |-> <<>>, bytes |-> 0,
              active |-> <<>>, activeBytes |-> 0, recovery |-> <<>>, recoveryBytes |-> 0]

TypeOK ==
  /\ worker.there \in BOOLEAN /\ worker.unhealthy \in BOOLEAN
  /\ worker.queue \in Seq(Job) /\ worker.active \in Seq(Job) /\ worker.recovery \in Seq(Keys)
  /\ {worker.bytes, worker.activeBytes, worker.recoveryBytes} \subseteq Nat
  /\ packets \in Seq(Packets \cup {<<>>}) /\ waits \subseteq Calls \X Nat /\ recovering \in BOOLEAN
  /\ health \in [unhealthy : BOOLEAN, writing : BOOLEAN]
  /\ journal \subseteq Keys /\ taken \subseteq Keys /\ lost \subseteq Keys
  /\ unrecorded \in BOOLEAN /\ faults \in Nat

Init ==
  /\ worker = NewWorker /\ packets = <<>> /\ waits = {} /\ recovering = FALSE
  /\ health = [unhealthy |-> FALSE, writing |-> FALSE]
  /\ journal = {} /\ taken = {} /\ lost = {} /\ unrecorded = FALSE /\ faults = 0

Fault == faults < MaxFaults /\ faults' = faults + 1

-----------------------------------------------------------------------------
\* The worker, with what it waits for and lets go, and whether it met a gap.
Now == [w |-> worker, waits |-> waits, lost |-> lost, gap |-> FALSE]
\* With a gap comes trip, which starts a health write unless one is under way.
Becomes(c) ==
  /\ worker' = c.w /\ waits' = c.waits /\ lost' = c.lost
  /\ health' = [health EXCEPT !.writing = @ \/ c.gap]

Resolved(c, id) == [c EXCEPT !.waits = @ \ {id}]

Retained(w, k) == \E i \in DOMAIN w.recovery : w.recovery[i] = k
Fits(w, k) == Len(w.recovery) < RecoveryItems /\ w.recoveryBytes + Size[k] <= RecoveryBytes

\* gap
Gap(c, k) ==
  LET d == [c EXCEPT !.gap = TRUE, !.w.unhealthy = TRUE] IN
  IF Retained(c.w, k) THEN d
  ELSE IF Fits(c.w, k) THEN [d EXCEPT !.w.recovery = Append(@, k), !.w.recoveryBytes = @ + Size[k]]
  ELSE [d EXCEPT !.lost = @ \cup {k}]

\* What-if variant: an expired job leaves the queue, but not its bytes.
TurnKeepsBytes(w, j) ==
  IF Len(w.active) >= Concurrent THEN [w EXCEPT !.queue = Append(@, j)]
  ELSE IF j.expired THEN w
  ELSE [w EXCEPT !.bytes = @ - Size[j.key], !.activeBytes = @ + Size[j.key],
                 !.active = Append(@, [j EXCEPT !.found = j.key \in journal])]

\* One turn of pump: a job is left where it is, dropped, or begun.
Turn(w, j) ==
  IF Len(w.active) >= Concurrent THEN [w EXCEPT !.queue = Append(@, j)]
  ELSE IF j.expired THEN [w EXCEPT !.bytes = @ - Size[j.key]]
  ELSE [w EXCEPT !.bytes = @ - Size[j.key], !.activeBytes = @ + Size[j.key],
                 !.active = Append(@, [j EXCEPT !.found = j.key \in journal])]

Pump(w) == FoldLeft(Turn, [w EXCEPT !.queue = <<>>], w.queue)

\* What-if variant: appends in work are not counted.
SaturatedQueue(w, k) == Len(w.queue) >= QueueItems \/ w.bytes + Size[k] > QueueBytes

Saturated(w, k) ==
  \/ Len(w.queue) + Len(w.active) >= QueueItems
  \/ w.bytes + w.activeBytes + Size[k] > QueueBytes

\* submit
Submit(c, j) ==
  IF Saturated(c.w, j.key) THEN Gap(c, j.key)
  ELSE [c EXCEPT !.waits = @ \cup {Id(j)},
                 !.w = Pump([c.w EXCEPT !.queue = Append(@, j), !.bytes = @ + Size[j.key]])]

-----------------------------------------------------------------------------
\* capture of a packet: its receipts are submitted at once.
Capture(p) ==
  LET h == Len(packets) + 1 IN
  /\ h <= MaxPackets /\ packets' = Append(packets, p)
  /\ Becomes(FoldLeft(Submit, [Now EXCEPT !.w.there = TRUE], [i \in DOMAIN p |-> NewJob(h, i, p[i])]))
  /\ UNCHANGED <<recovering, journal, taken, unrecorded, faults>>

\* capture without a context, a repository or limits: trip, and the handler goes on.
Blind(p) ==
  /\ Len(packets) < MaxPackets /\ packets' = Append(packets, <<>>)
  /\ Becomes([Now EXCEPT !.w.unhealthy = @ \/ worker.there, !.gap = TRUE, !.lost = @ \cup ToSet(p)])
  /\ taken' = taken \cup ToSet(p) /\ UNCHANGED <<recovering, journal, unrecorded, faults>>

\* All receipts of the packet are settled: the handler goes on.
Return(h) ==
  /\ h \in DOMAIN packets /\ packets[h] # <<>>
  /\ \A i \in DOMAIN packets[h] : <<h, i>> \notin waits
  /\ taken' = taken \cup ToSet(packets[h]) /\ packets' = [packets EXCEPT ![h] = <<>>]
  /\ UNCHANGED <<worker, waits, recovering, health, journal, lost, unrecorded, faults>>

\* The job of an id, marked, and its key.
Marked(js, id) == [i \in DOMAIN js |-> IF Id(js[i]) = id THEN [js[i] EXCEPT !.expired = TRUE] ELSE js[i]]
Pending(id) == {i \in DOMAIN worker.queue : Id(worker.queue[i]) = id /\ ~ worker.queue[i].expired}
Running(id) == {i \in DOMAIN worker.active : Id(worker.active[i]) = id}
Live(id)    == {worker.queue[i].key : i \in Pending(id)} \cup
               {worker.active[i].key : i \in {n \in Running(id) : ~ worker.active[n].expired}}
Late(id)    == [Now EXCEPT !.w.queue = Marked(@, id), !.w.active = Marked(@, id)]

\* What-if variants: the deadline is not a gap; the promise waits for the append.
ExpireSilently(id) ==
  /\ Live(id) # {} /\ Becomes(Resolved(Late(id), id))
  /\ UNCHANGED <<packets, recovering, journal, taken, unrecorded, faults>>
ExpireUnresolved(id) ==
  /\ \E k \in Live(id) : Becomes(Gap(Late(id), k))
  /\ UNCHANGED <<packets, recovering, journal, taken, unrecorded, faults>>

\* The deadline of a queued or an active job: it keeps its place or its slot.
Expire(id) ==
  /\ \E k \in Live(id) : Becomes(Gap(Resolved(Late(id), id), k))
  /\ UNCHANGED <<packets, recovering, journal, taken, unrecorded, faults>>

\* What-if variants: the end of an append gives the queue's bytes back; it does
\* not start the next one.
FreedQueued(c, i) ==
  [c EXCEPT !.w = Pump([c.w EXCEPT !.active = RemoveAt(@, i), !.bytes = @ - Size[worker.active[i].key]])]
FreedOnly(c, i) ==
  [c EXCEPT !.w.active = RemoveAt(@, i), !.w.activeBytes = @ - Size[worker.active[i].key]]

\* The finally of an append: its slot is free, and pump goes on.
Freed(c, i) ==
  [c EXCEPT !.w = Pump([c.w EXCEPT !.active = RemoveAt(@, i), !.activeBytes = @ - Size[worker.active[i].key]])]

\* append found the key, or created it with its event in one transaction.
Appended(id) ==
  \E i \in Running(id) :
    LET k == worker.active[i].key IN
    /\ worker.active[i].found \/ k \notin journal
    /\ journal' = journal \cup {k} /\ Becomes(Freed(Resolved(Now, id), i))
    /\ UNCHANGED <<packets, recovering, taken, unrecorded, faults>>

\* append failed: another one created the key meanwhile, or the database failed,
\* perhaps after the commit.
AppendFailed(id) ==
  \E i \in Running(id) :
    LET k == worker.active[i].key IN
    /\ \/ ~ worker.active[i].found /\ k \in journal /\ UNCHANGED <<journal, faults>>
       \/ Fault /\ journal' \in {journal, journal \cup {k}}
    /\ Becomes(Freed(Resolved(Gap(Now, k), id), i))
    /\ UNCHANGED <<packets, recovering, taken, unrecorded>>

\* recover, called by the timer: one item, while nothing else is in work.
Recover ==
  LET k == Head(worker.recovery)
      c == [Now EXCEPT !.w.recovery = Tail(@), !.w.recoveryBytes = @ - Size[k]]
  IN /\ ~ recovering /\ worker.active = <<>> /\ worker.queue = <<>> /\ worker.recovery # <<>>
     /\ Becomes(Submit(c, NewJob(0, 1, k))) /\ recovering' = TRUE
     /\ UNCHANGED <<packets, journal, taken, unrecorded, faults>>

Recovered ==
  /\ recovering /\ <<0, 1>> \notin waits /\ recovering' = FALSE
  /\ UNCHANGED <<worker, packets, waits, health, journal, books>>

HealthWritten ==
  /\ health.writing /\ health' = [unhealthy |-> TRUE, writing |-> FALSE]
  /\ UNCHANGED <<worker, packets, waits, recovering, journal, books>>

\* The failure of a health write is swallowed.
HealthFails ==
  /\ health.writing /\ Fault /\ health' = [health EXCEPT !.writing = FALSE]
  /\ unrecorded' = (unrecorded \/ ~ (worker.unhealthy \/ health.unhealthy))
  /\ UNCHANGED <<worker, packets, waits, recovering, journal, taken, lost>>

Held == ToSet(worker.recovery) \cup
        {worker.queue[i].key : i \in DOMAIN worker.queue} \cup
        {worker.active[i].key : i \in DOMAIN worker.active}

Crash ==
  /\ Fault /\ worker' = NewWorker /\ packets' = [h \in DOMAIN packets |-> <<>>] /\ waits' = {}
  /\ recovering' = FALSE /\ health' = [health EXCEPT !.writing = FALSE]
  /\ lost' = lost \cup Held
  /\ unrecorded' = (unrecorded \/ (~ health.unhealthy /\ (worker.unhealthy \/ health.writing)))
  /\ UNCHANGED <<journal, taken>>

Ids == Calls \X (1 .. MaxPlace)

Next ==
  \/ \E p \in Packets : Capture(p) \/ Blind(p)
  \/ \E h \in Calls : Return(h)
  \/ \E id \in Ids : Expire(id) \/ Appended(id) \/ AppendFailed(id)
  \/ Recover \/ Recovered \/ HealthWritten \/ HealthFails \/ Crash

Spec == Init /\ [][Next]_vars

\* The timers of the process run; the database may hang for ever.
FairSpec ==
  /\ Spec /\ \A h \in Calls : WF_vars(Return(h))
  /\ \A id \in Ids : WF_vars(Expire(id))

-----------------------------------------------------------------------------
Waiting(h) == h \in DOMAIN packets /\ packets[h] # <<>>
Total(ks) == FoldLeft(LAMBDA sum, k : sum + Size[k], 0, ks)
KeysOf(js) == [i \in DOMAIN js |-> js[i].key]

\* Evidence in memory is bounded: "Timed-out work retains its concurrency slot
\* until settlement, preventing an unbounded unresolved promise tail"
\* (ATTENDANCE-WAVE1B.md:158), expired jobs wait in the queue, and nothing is
\* retained twice.
Bounded ==
  /\ Len(worker.queue) + Len(worker.active) <= QueueItems /\ Len(worker.active) <= Concurrent
  /\ Total(KeysOf(worker.queue)) + Total(KeysOf(worker.active)) <= QueueBytes
  /\ Len(worker.recovery) <= RecoveryItems /\ Total(worker.recovery) <= RecoveryBytes
  /\ \A i, j \in DOMAIN worker.recovery : worker.recovery[i] = worker.recovery[j] => i = j

\* The byte counters follow what is there, through expiry, failure, recovery and
\* the slots' turns, so that capacity neither leaks away nor grows.
Accounted ==
  /\ worker.bytes = Total(KeysOf(worker.queue)) /\ worker.activeBytes = Total(KeysOf(worker.active))
  /\ worker.recoveryBytes = Total(worker.recovery)

\* A receipt the handler went on with is journaled, or still held for its append,
\* or was let go by a full buffer or a crash; and what is not journaled is known
\* as a gap (trip: "explicit gap remains", nexi-attendance.cjs:883) as long as
\* its health write did not fail and no crash overtook it.
NoneForgotten ==
  \A k \in taken \ journal :
    /\ k \in Held \cup lost
    /\ worker.unhealthy \/ health.unhealthy \/ health.writing \/ unrecorded

\* The three of them, and the types of the state.
WorkerInv == TypeOK /\ Bounded /\ Accounted /\ NoneForgotten

\* Appends end, and the timer comes for what is retained.
AppendsEnd ==
  /\ WF_vars(Recover) /\ WF_vars(Recovered)
  /\ \A id \in Ids : WF_vars(Appended(id) \/ AppendFailed(id))

\* "Socket capture returns after commit or finite deadline"
\* (ATTENDANCE-WAVE1B.md:157), even when the database never answers again; and if
\* appends do end, however often they expire or fail, what the buffer retains is
\* journaled in the end or let go.
EvidenceEnds ==
  /\ \A h \in Calls : Waiting(h) ~> ~ Waiting(h)
  /\ AppendsEnd => \A k \in Keys : k \in ToSet(worker.recovery) ~> k \in journal \cup lost
=============================================================================
