------------------------ MODULE GroupsOutbox_proofs -------------------------
(***************************************************************************)
(* Theorems about the groups outbox, for any events, instances, sweeps,    *)
(* limits, delays and faults.                                              *)
(***************************************************************************)
EXTENDS GroupsOutbox, FiniteSetTheorems, TLAPS

-----------------------------------------------------------------------------
\* The sweeps about to post an event.
Sending(e) == {w \in Sweeps : at[w].pc = "claimed" /\ at[w].event = e}

\* A sweep between instances holds nothing; else it is with an instance.
Between == {"idle", "retain", "next"}

\* What a sweep knows of its event is not ahead of the row, nor of the clock.
SweepSound(w) ==
  LET d == at[w] IN
  /\ d.pc \notin Between => d.inst \in Instances
  /\ d.clock <= now /\ d.asked <= now
  /\ d.pc \in Holding \cup {"claim"} =>
       d.event \in Events /\ row[d.event].state # "absent" /\ d.born = row[d.event].created
  /\ d.pc = "claim" => d.seen <= row[d.event].attempts
  /\ d.pc \in Holding => d.seen + 1 <= row[d.event].attempts
  /\ d.pc = "delivering" => d.event \in taken

\* Posts made and about to be made are counted.
EventSound(e) == posts[e] + Cardinality(Sending(e)) <= row[e].attempts

IndInv ==
  TypeOK /\ (\A w \in Sweeps : SweepSound(w)) /\ (\A e \in Events : EventSound(e))

-----------------------------------------------------------------------------
\* The numeric constants.
LEMMA Numbers ==
  /\ MaxAttempts \in Nat /\ MaxAge \in Nat \ {0} /\ Lease \in Nat /\ Limit \in Nat \ {0}
  BY GroupsOutboxConstants

\* The stages, spelled out.
LEMMA StageNames ==
  /\ Stages = {"claimed", "waiting", "delivering", "rejecting", "releasing", "idle",
               "retain", "next", "expire", "endpoint", "find", "claim"}
  /\ Holding = {"claimed", "waiting", "delivering", "rejecting", "releasing"}
  BY DEF Stages, Holding

\* The fields of typed rows.
LEMMA RowValues ==
  ASSUME TypeOK, NEW e \in Events
  PROVE  /\ row[e] \in Rows /\ row[e].state \in RowStates
         /\ row[e].attempts \in 0 .. MaxAttempts /\ row[e].attempts \in Nat
         /\ row[e].next \in Nat /\ row[e].until \in Nat /\ row[e].created \in Nat
         /\ row[e].token \in Sweeps \cup {NoSweep}
  BY Numbers DEF TypeOK, Rows

\* The fields of a typed sweep.
LEMMA SweepValues ==
  ASSUME TypeOK, NEW w \in Sweeps
  PROVE  /\ at[w] \in Locals /\ at[w].pc \in Stages /\ at[w].todo \in SUBSET Instances
         /\ at[w].inst \in Instances \cup {NoInstance} /\ at[w].turn \in 0 .. Limit
         /\ at[w].clock \in Nat /\ at[w].asked \in Nat
         /\ at[w].event \in Events \cup {0}
         /\ at[w].seen \in 0 .. MaxAttempts /\ at[w].seen \in Nat /\ at[w].born \in Nat
  BY Numbers DEF TypeOK, Locals

\* The locals of a sweep that knows nothing of an event.
LEMMA BetweenType ==
  /\ Asleep \in Locals
  /\ \A s \in Between, is \in SUBSET Instances, c \in Nat :
       /\ [Asleep EXCEPT !.pc = s, !.todo = is] \in Locals
       /\ [Asleep EXCEPT !.pc = s, !.todo = is, !.clock = c] \in Locals
  <1>1. Asleep \in Locals
    BY Numbers DEF Asleep, Locals, Stages, Holding
  <1>2. ASSUME NEW s \in Between, NEW is \in SUBSET Instances, NEW c \in Nat, NEW d \in Locals
        PROVE  /\ [d EXCEPT !.pc = s, !.todo = is] \in Locals
               /\ [d EXCEPT !.pc = s, !.todo = is, !.clock = c] \in Locals
    <2>1. s \in Stages
      BY DEF Between, Stages
    <2> QED BY <2>1 DEF Locals
  <1> QED BY <1>1, <1>2

\* Where a sweep goes, the others stay.
LEMMA Went ==
  ASSUME TypeOK, NEW w \in Sweeps, NEW d \in Locals, GoWith(w, d)
  PROVE  /\ at' \in [Sweeps -> Locals] /\ at'[w] = d
         /\ \A v \in Sweeps \ {w} : at'[v] = at[v]
  BY DEF GoWith, TypeOK

\* GoTo keeps all but the stage.
LEMMA WentTo ==
  ASSUME TypeOK, NEW w \in Sweeps, NEW s \in Stages, GoTo(w, s)
  PROVE  /\ at' \in [Sweeps -> Locals] /\ at'[w] = [at[w] EXCEPT !.pc = s]
         /\ \A v \in Sweeps \ {w} : at'[v] = at[v]
         /\ at'[w].pc = s /\ at'[w].event = at[w].event /\ at'[w].inst = at[w].inst
         /\ at'[w].clock = at[w].clock /\ at'[w].asked = at[w].asked
         /\ at'[w].seen = at[w].seen /\ at'[w].born = at[w].born
  <1>1. [at[w] EXCEPT !.pc = s] \in Locals
    BY SweepValues DEF Locals
  <1> QED BY <1>1, SweepValues DEF GoTo, TypeOK, Locals

\* Asked keeps all but the stage and the time of the statement.
LEMMA WentAsking ==
  ASSUME TypeOK, NEW w \in Sweeps, NEW s \in Stages, Asked(w, s)
  PROVE  /\ at' \in [Sweeps -> Locals]
         /\ \A v \in Sweeps \ {w} : at'[v] = at[v]
         /\ at'[w].pc = s /\ at'[w].event = at[w].event /\ at'[w].inst = at[w].inst
         /\ at'[w].clock = at[w].clock /\ at'[w].asked = now
         /\ at'[w].seen = at[w].seen /\ at'[w].born = at[w].born
  <1>1. now \in Nat
    BY DEF TypeOK
  <1>2. [at[w] EXCEPT !.pc = s, !.asked = now] \in Locals
    BY <1>1, SweepValues DEF Locals
  <1> QED BY <1>1, <1>2, SweepValues DEF Asked, GoWith, TypeOK, Locals

\* A drain that is over leaves a sweep between instances.
LEMMA WentOn ==
  ASSUME TypeOK, NEW w \in Sweeps, NextInstance(w)
  PROVE  /\ at' \in [Sweeps -> Locals]
         /\ \A v \in Sweeps \ {w} : at'[v] = at[v]
         /\ at'[w].pc = "next" /\ at'[w].clock = 0 /\ at'[w].asked = 0
  <1>1. [Asleep EXCEPT !.pc = "next", !.todo = at[w].todo] \in Locals
    BY BetweenType, SweepValues DEF Between
  <1>2. at'[w] = [Asleep EXCEPT !.pc = "next", !.todo = at[w].todo]
    BY <1>1, Went DEF NextInstance
  <1> QED BY <1>1, <1>2, Went DEF NextInstance, Asleep

\* The next turn of a drain begins, or the drain is over.
LEMMA WentTurn ==
  ASSUME TypeOK, NEW w \in Sweeps, NextTurn(w)
  PROVE  /\ at' \in [Sweeps -> Locals]
         /\ \A v \in Sweeps \ {w} : at'[v] = at[v]
         /\ \/ at'[w].pc = "next" /\ at'[w].clock = 0 /\ at'[w].asked = 0
            \/ /\ at'[w].pc = "find" /\ at'[w].inst = at[w].inst
               /\ at'[w].clock = now /\ at'[w].asked = 0
  <1>1. CASE at[w].turn + 1 < Limit
    <2> DEFINE k == at[w].turn + 1
    <2>1. k \in 0 .. Limit /\ now \in Nat
      BY <1>1, SweepValues, Numbers DEF TypeOK
    <2>2. GoWith(w, [at[w] EXCEPT !.pc = "find", !.turn = k, !.clock = now, !.event = 0,
                                  !.seen = 0, !.born = 0, !.asked = 0])
      BY <1>1 DEF NextTurn
    <2> HIDE DEF k
    <2>3. 0 \in 0 .. MaxAttempts
      BY Numbers
    <2>4. [at[w] EXCEPT !.pc = "find", !.turn = k, !.clock = now, !.event = 0,
                        !.seen = 0, !.born = 0, !.asked = 0] \in Locals
      BY <2>1, <2>3, SweepValues, StageNames DEF Locals
    <2>5. at'[w] = [at[w] EXCEPT !.pc = "find", !.turn = k, !.clock = now, !.event = 0,
                                 !.seen = 0, !.born = 0, !.asked = 0]
      BY <2>2, <2>4, Went
    <2>6. /\ at'[w].pc = "find" /\ at'[w].inst = at[w].inst
          /\ at'[w].clock = now /\ at'[w].asked = 0
      BY <2>5, SweepValues DEF Locals
    <2> QED BY <2>2, <2>4, <2>6, Went
  <1>2. CASE ~ (at[w].turn + 1 < Limit)
    BY <1>2, WentOn DEF NextTurn
  <1> QED BY <1>1, <1>2

\* After a failed statement comes the release, or the next instance.
LEMMA WentFailing ==
  ASSUME TypeOK, NEW w \in Sweeps, AfterFailure(w)
  PROVE  /\ at' \in [Sweeps -> Locals] /\ faults' \in Nat
         /\ \A v \in Sweeps \ {w} : at'[v] = at[v]
         /\ \/ /\ at[w].pc \in {"delivering", "rejecting"}
               /\ at'[w].pc = "releasing" /\ at'[w].event = at[w].event
               /\ at'[w].inst = at[w].inst /\ at'[w].clock = at[w].clock /\ at'[w].asked = now
               /\ at'[w].seen = at[w].seen /\ at'[w].born = at[w].born
            \/ at'[w].pc = "next" /\ at'[w].clock = 0 /\ at'[w].asked = 0
  <1>1. faults' \in Nat
    BY DEF AfterFailure, TypeOK
  <1>2. CASE at[w].pc \in {"delivering", "rejecting"}
    <2>1. Asked(w, "releasing") /\ "releasing" \in Stages
      BY <1>2, StageNames DEF AfterFailure
    <2> QED BY <1>1, <1>2, <2>1, WentAsking
  <1>3. CASE at[w].pc \notin {"delivering", "rejecting"}
    <2>1. NextInstance(w)
      BY <1>3 DEF AfterFailure
    <2> QED BY <1>1, <2>1, WentOn
  <1> QED BY <1>2, <1>3

-----------------------------------------------------------------------------
\* What most statements do to the rows: no attempt is counted, no event is
\* created or forgotten, and a lease is at most ended.
RowsCalm ==
  \A e \in Events :
    /\ row'[e].attempts = row[e].attempts /\ row'[e].created = row[e].created
    /\ row'[e].state = "absent" <=> row[e].state = "absent"

\* A statement settles a row, if at all, as its sweep may.
RowsSettle ==
  /\ RowsCalm
  /\ \A e \in Events : row'[e].state # row[e].state =>
       /\ row[e].state = "queued"
       /\ row'[e].state \in {"delivered", "rejected", "quarantined"}
       /\ row'[e].state = "delivered" => e \in taken
       /\ row'[e].state = "quarantined" => row[e].attempts = MaxAttempts \/ Aged(e, now)

\* Time only moves on.
LEMMA AgedLater ==
  ASSUME TypeOK, NEW e \in Events, NEW t \in Nat, t <= now, Aged(e, t)
  PROVE  Aged(e, now)
  BY RowValues, Numbers DEF Aged, TypeOK

\* A settled row is a row.
LEMMA SettledType ==
  ASSUME NEW r \in Rows, NEW s \in RowStates
  PROVE  /\ Settled(r, s) \in Rows /\ Settled(r, s).state = s
         /\ Settled(r, s).attempts = r.attempts /\ Settled(r, s).created = r.created
         /\ \A n \in Nat :
              /\ [Settled(r, s) EXCEPT !.next = n] \in Rows
              /\ [Settled(r, s) EXCEPT !.next = n].state = s
              /\ [Settled(r, s) EXCEPT !.next = n].attempts = r.attempts
              /\ [Settled(r, s) EXCEPT !.next = n].created = r.created
  BY DEF Settled, Rows

\* Expiring puts aside what is spent or aged, and leases still running.
LEMMA ExpiredRows ==
  ASSUME TypeOK, NEW is \in SUBSET Instances, NEW t \in Nat, t <= now, row' = Expired(is, t)
  PROVE  /\ row' \in [Events -> Rows] /\ RowsSettle
         /\ \A e \in Events : row'[e] # row[e] => Unleased(e, t)
  <1>1. ASSUME NEW e \in Events
        PROVE  \/ row'[e] = row[e]
               \/ /\ row'[e] = Settled(row[e], "quarantined")
                  /\ row[e].state = "queued" /\ Unleased(e, t)
                  /\ row[e].attempts >= MaxAttempts \/ Aged(e, t)
    BY DEF Expired
  <1>2. row' = [e \in Events |-> row'[e]]
    BY DEF Expired
  <1>3. ASSUME NEW e \in Events
        PROVE  /\ row'[e] \in Rows
               /\ row'[e].attempts = row[e].attempts /\ row'[e].created = row[e].created
               /\ row'[e].state = "absent" <=> row[e].state = "absent"
               /\ row'[e].state # row[e].state =>
                    /\ row[e].state = "queued" /\ row'[e].state = "quarantined"
                    /\ row[e].attempts = MaxAttempts \/ Aged(e, now)
    <2>1. CASE row'[e] = row[e]
      BY <2>1, RowValues
    <2>2. CASE row'[e] # row[e]
      <3>1. /\ row'[e] = Settled(row[e], "quarantined") /\ row[e].state = "queued"
            /\ row[e].attempts >= MaxAttempts \/ Aged(e, t)
        BY <1>1, <2>2
      <3>2. "quarantined" \in RowStates /\ row[e] \in Rows
        BY RowValues DEF RowStates
      <3>3. row[e].attempts >= MaxAttempts => row[e].attempts = MaxAttempts
        BY RowValues, Numbers
      <3>4. Aged(e, t) => Aged(e, now)
        BY AgedLater
      <3> QED BY <3>1, <3>2, <3>3, <3>4, SettledType
    <2> QED BY <2>1, <2>2
  <1>4. row' \in [Events -> Rows]
    BY <1>2, <1>3
  <1> QED BY <1>1, <1>3, <1>4 DEF RowsSettle, RowsCalm

\* What follows from the invariant about a sweep that works on an event.
LEMMA Working ==
  ASSUME IndInv, NEW w \in Sweeps, at[w].pc \in Holding \cup {"claim"}
  PROVE  /\ at[w].event \in Events /\ at[w].inst \in Instances
         /\ row[at[w].event] \in Rows /\ row[at[w].event].state # "absent"
         /\ at[w].born = row[at[w].event].created
         /\ at[w].pc \in Holding => at[w].seen + 1 <= row[at[w].event].attempts
         /\ at[w].pc = "delivering" => at[w].event \in taken
  <1>1. SweepSound(w) /\ TypeOK
    BY DEF IndInv
  <1>2. at[w].pc \notin Between
    BY DEF Between, Holding
  <1> QED BY <1>1, <1>2, RowValues DEF SweepSound

\* The rows with one of them replaced.
LEMMA OneRow ==
  ASSUME TypeOK, NEW f \in Events, NEW r \in Rows, row' = [row EXCEPT ![f] = r]
  PROVE  /\ row' \in [Events -> Rows] /\ row'[f] = r
         /\ \A e \in Events \ {f} : row'[e] = row[e]
  BY DEF TypeOK

\* An answered event is settled as it was answered.
LEMMA AnsweredRows ==
  ASSUME IndInv, NEW w \in Sweeps, at[w].pc \in {"delivering", "rejecting"}, Mine(w),
         row' = AsAnswered(w)
  PROVE  /\ row' \in [Events -> Rows] /\ RowsSettle
         /\ \A e \in Events \ {at[w].event} : row'[e] = row[e]
  <1> DEFINE f == at[w].event
             s == IF at[w].pc = "delivering" THEN "delivered" ELSE "rejected"
             r == Settled(row[f], s)
  <1>0. TypeOK /\ f \in Events /\ row[f] \in Rows /\ row[f].state = "queued"
        /\ (s = "delivered" => f \in taken) /\ s \in RowStates /\ s # "absent"
        /\ s \in {"delivered", "rejected"}
    BY Working DEF IndInv, Mine, RowStates, Holding
  <1>1. r \in Rows /\ r.state = s /\ r.attempts = row[f].attempts /\ r.created = row[f].created
    <2> HIDE DEF f, s
    <2> QED BY <1>0, SettledType
  <1>2. row' = [row EXCEPT ![f] = r]
    BY DEF AsAnswered
  <1> HIDE DEF f, s, r
  <1>3. row' \in [Events -> Rows] /\ row'[f] = r /\ \A e \in Events \ {f} : row'[e] = row[e]
    BY <1>0, <1>1, <1>2, OneRow
  <1>4. RowsSettle
    BY <1>0, <1>1, <1>3 DEF RowsSettle, RowsCalm
  <1> QED BY <1>3, <1>4 DEF f

\* An unanswered event waits for another attempt, or is given up because this
\* was the last one or its time is spent: what was read was not ahead.
LEMMA ReleasedRows ==
  ASSUME IndInv, NEW w \in Sweeps, at[w].pc = "releasing", Mine(w), row' = Released(w)
  PROVE  /\ row' \in [Events -> Rows] /\ RowsSettle
         /\ \A e \in Events \ {at[w].event} : row'[e] = row[e]
  <1> DEFINE f == at[w].event
             s == IF Terminal(w) THEN "quarantined" ELSE "queued"
             n == at[w].asked + Backoff[at[w].seen]
             r == [Settled(row[f], s) EXCEPT !.next = n]
  <1>0. /\ TypeOK /\ SweepSound(w) /\ f \in Events /\ row[f] \in Rows
        /\ row[f].state = "queued" /\ s \in RowStates /\ s \in {"quarantined", "queued"}
    BY Working DEF IndInv, Mine, RowStates, Holding
  <1>1. n \in Nat
    <2>1. at[w].asked \in Nat /\ at[w].seen \in 0 .. MaxAttempts
      BY <1>0, SweepValues
    <2>2. Backoff[at[w].seen] \in Nat
      BY <2>1, GroupsOutboxConstants
    <2> QED BY <2>1, <2>2
  <1>2. ASSUME Terminal(w) PROVE row[f].attempts = MaxAttempts \/ Aged(f, now)
    <2>1. /\ at[w].seen + 1 <= row[f].attempts /\ at[w].born = row[f].created
          /\ at[w].asked <= now
      BY <1>0, Working DEF SweepSound, Holding
    <2>2. /\ at[w].seen \in Nat /\ at[w].asked \in Nat /\ now \in Nat
          /\ row[f].attempts \in 0 .. MaxAttempts /\ row[f].created \in Nat
      BY <1>0, SweepValues, RowValues DEF TypeOK
    <2>3. CASE at[w].seen + 1 >= MaxAttempts
      BY <2>1, <2>2, <2>3, Numbers
    <2>4. CASE at[w].born + MaxAge <= at[w].asked
      BY <2>1, <2>2, <2>4, Numbers DEF Aged
    <2> QED BY <1>2, <2>3, <2>4 DEF Terminal
  <1>3. r \in Rows /\ r.state = s /\ r.attempts = row[f].attempts /\ r.created = row[f].created
    <2> HIDE DEF f, s, n
    <2> QED BY <1>0, <1>1, SettledType
  <1>4. row' = [row EXCEPT ![f] = r]
    BY DEF Released
  <1>5. s = "quarantined" => row[f].attempts = MaxAttempts \/ Aged(f, now)
    BY <1>2
  <1> HIDE DEF f, s, n, r
  <1>6. row' \in [Events -> Rows] /\ row'[f] = r /\ \A e \in Events \ {f} : row'[e] = row[e]
    BY <1>0, <1>3, <1>4, OneRow
  <1>7. RowsSettle
    BY <1>0, <1>3, <1>5, <1>6 DEF RowsSettle, RowsCalm
  <1> QED BY <1>6, <1>7 DEF f

\* A claim counts an attempt of an event that is queued.
LEMMA LeasedRows ==
  ASSUME IndInv, NEW w \in Sweeps, at[w].pc = "claim", Claimable(w), row' = Leased(w)
  PROVE  /\ row' \in [Events -> Rows]
         /\ row[at[w].event].attempts < MaxAttempts
         /\ row'[at[w].event].attempts = row[at[w].event].attempts + 1
         /\ \A e \in Events : /\ row'[e].state = row[e].state /\ row'[e].created = row[e].created
                              /\ e # at[w].event => row'[e] = row[e]
  <1> DEFINE f == at[w].event
             a == row[f].attempts + 1
             u == at[w].asked + Lease
             r == [row[f] EXCEPT !.token = w, !.until = u, !.attempts = a]
  <1>0. /\ TypeOK /\ f \in Events /\ row[f] \in Rows /\ row[f].attempts < MaxAttempts
    BY Working DEF IndInv, Claimable, Eligible
  <1>1. a \in 0 .. MaxAttempts /\ u \in Nat
    <2>1. row[f].attempts \in 0 .. MaxAttempts /\ at[w].asked \in Nat
      BY <1>0, RowValues, SweepValues
    <2> QED BY <1>0, <2>1, Numbers
  <1>2. a = row[f].attempts + 1
    OBVIOUS
  <1>3. row' = [row EXCEPT ![f] = r]
    BY DEF Leased
  <1>4. r \in Rows /\ r.attempts = a /\ r.state = row[f].state /\ r.created = row[f].created
    <2> HIDE DEF a, u, f
    <2> QED BY <1>0, <1>1 DEF Rows
  <1> HIDE DEF f, a, u, r
  <1>5. row' \in [Events -> Rows] /\ row'[f] = r /\ \A e \in Events \ {f} : row'[e] = row[e]
    BY <1>0, <1>3, <1>4, OneRow
  <1> QED BY <1>0, <1>2, <1>4, <1>5 DEF f

-----------------------------------------------------------------------------
\* Only finitely many sweeps are about to post an event.
LEMMA SendingFinite ==
  ASSUME NEW e \in Events
  PROVE  /\ IsFiniteSet(Sending(e)) /\ Cardinality(Sending(e)) \in Nat
         /\ IsFiniteSet(Sending(e)') /\ Cardinality(Sending(e)') \in Nat
  BY GroupsOutboxConstants, FS_Subset, FS_CardinalityType DEF Sending

\* A sweep that is left alone keeps what it knows.
LEMMA SweepLeft ==
  ASSUME IndInv, TypeOK', NEW v \in Sweeps, at'[v] = at[v], now <= now',
         taken \subseteq taken',
         \A e \in Events : /\ row[e].attempts <= row'[e].attempts
                           /\ row[e].state # "absent" =>
                                row'[e].state # "absent" /\ row'[e].created = row[e].created
  PROVE  SweepSound(v)'
  <1>1. SweepSound(v) /\ TypeOK
    BY DEF IndInv
  <1>2. at[v].clock <= now' /\ at[v].asked <= now'
    <2>1. /\ at[v].clock \in Nat /\ at[v].asked \in Nat /\ now \in Nat /\ now' \in Nat
          /\ at[v].clock <= now /\ at[v].asked <= now
      BY <1>1, SweepValues DEF TypeOK, SweepSound
    <2> QED BY <2>1
  <1>3. ASSUME at[v].pc \in Holding \cup {"claim"}
        PROVE  /\ at[v].event \in Events /\ row'[at[v].event].state # "absent"
               /\ at[v].born = row'[at[v].event].created
               /\ at[v].pc = "claim" => at[v].seen <= row'[at[v].event].attempts
               /\ at[v].pc \in Holding => at[v].seen + 1 <= row'[at[v].event].attempts
    <2>1. PICK f \in Events : f = at[v].event
      BY <1>3, Working
    <2>2. /\ row[f].attempts \in Nat /\ at[v].seen \in Nat /\ row'[f].attempts \in Nat
      <3>1. row'[f] \in Rows
        BY DEF TypeOK
      <3> QED BY <1>1, <3>1, RowValues, SweepValues, Numbers DEF Rows
    <2>3. /\ row[f].attempts <= row'[f].attempts
          /\ row[f].state # "absent" => row'[f].state # "absent" /\ row'[f].created = row[f].created
      OBVIOUS
    <2> QED BY <1>1, <1>3, <2>1, <2>2, <2>3 DEF SweepSound
  <1> QED BY <1>1, <1>2, <1>3 DEF SweepSound

\* An event stays sound when no attempt is lost and nobody new is about to post.
LEMMA EventLeft ==
  ASSUME IndInv, TypeOK', NEW e \in Events, posts'[e] = posts[e],
         row[e].attempts <= row'[e].attempts, Sending(e)' \subseteq Sending(e)
  PROVE  EventSound(e)'
  <1>1. EventSound(e) /\ TypeOK
    BY DEF IndInv
  <1>2. Cardinality(Sending(e)') <= Cardinality(Sending(e))
    BY SendingFinite, FS_Subset
  <1>3. /\ posts[e] \in Nat /\ row[e].attempts \in Nat /\ row'[e].attempts \in Nat
    <2>1. row'[e] \in Rows
      BY DEF TypeOK
    <2> QED BY <1>1, <2>1, RowValues, Numbers DEF TypeOK, Rows
  <1> QED BY <1>1, <1>2, <1>3, SendingFinite DEF EventSound

\* A step of w that does not end about to post, on calm rows.
LEMMA CalmStep ==
  ASSUME IndInv, TypeOK', NEW w \in Sweeps, \A v \in Sweeps \ {w} : at'[v] = at[v],
         SweepSound(w)', at'[w].pc # "claimed",
         UNCHANGED <<now, posts, taken>>, RowsCalm
  PROVE  IndInv'
  <1>1. /\ now <= now'
        /\ \A e \in Events : /\ row[e].attempts <= row'[e].attempts
                             /\ row[e].state # "absent" =>
                                  row'[e].state # "absent" /\ row'[e].created = row[e].created
    BY RowValues DEF RowsCalm, IndInv, TypeOK
  <1>2. ASSUME NEW v \in Sweeps PROVE SweepSound(v)'
    BY <1>1, SweepLeft
  <1>3. ASSUME NEW e \in Events PROVE EventSound(e)'
    <2>1. Sending(e)' \subseteq Sending(e)
      BY DEF Sending
    <2> QED BY <1>1, <2>1, EventLeft
  <1> QED BY <1>2, <1>3 DEF IndInv

\* A step of nobody.
LEMMA StillStep ==
  ASSUME IndInv, TypeOK', at' = at, now <= now', taken \subseteq taken', posts' = posts,
         \A e \in Events : /\ row[e].attempts <= row'[e].attempts
                           /\ row[e].state # "absent" =>
                                row'[e].state # "absent" /\ row'[e].created = row[e].created
  PROVE  IndInv'
  <1>1. ASSUME NEW v \in Sweeps PROVE SweepSound(v)'
    BY SweepLeft
  <1>2. ASSUME NEW e \in Events PROVE EventSound(e)'
    <2>1. Sending(e)' \subseteq Sending(e)
      BY DEF Sending
    <2> QED BY <2>1, EventLeft
  <1> QED BY <1>1, <1>2 DEF IndInv

\* A sweep between instances or before its next event is sound.
LEMMA FreshSound ==
  ASSUME TypeOK', NEW w \in Sweeps,
         at'[w].pc \notin Holding \cup {"claim"},
         at'[w].pc \in Between \/ at'[w].inst \in Instances,
         at'[w].clock <= now' /\ at'[w].asked <= now'
  PROVE  SweepSound(w)' /\ at'[w].pc # "claimed"
  BY DEF SweepSound, Holding

-----------------------------------------------------------------------------
\* The initial states satisfy the invariant.
LEMMA InitIndInv == Init => IndInv
  <1> SUFFICES ASSUME Init PROVE IndInv
    OBVIOUS
  <1>1. TypeOK
    <2>1. [state |-> "absent", attempts |-> 0, next |-> 0, token |-> NoSweep,
           until |-> 0, created |-> 0] \in Rows
      BY Numbers DEF Rows, RowStates
    <2>2. row \in [Events -> Rows] /\ at \in [Sweeps -> Locals]
      BY <2>1, BetweenType DEF Init
    <2> QED BY <2>2 DEF Init, TypeOK
  <1>2. ASSUME NEW w \in Sweeps PROVE SweepSound(w)
    BY DEF Init, Asleep, SweepSound, Holding, Between
  <1>3. ASSUME NEW e \in Events PROVE EventSound(e)
    <2>1. Sending(e) = {}
      BY DEF Init, Asleep, Sending
    <2>2. Cardinality(Sending(e)) = 0
      BY <2>1, FS_EmptySet
    <2> QED BY <2>2 DEF Init, EventSound
  <1> QED BY <1>1, <1>2, <1>3 DEF IndInv

\* A new event is a row.
LEMMA EnqueuedRows ==
  ASSUME TypeOK, NEW e \in Events, Enqueue(e)
  PROVE  /\ row' \in [Events -> Rows]
         /\ row[e].state = "absent" /\ row'[e].state = "queued" /\ row'[e].created = now
         /\ row'[e].attempts = row[e].attempts
         /\ \A f \in Events \ {e} : row'[f] = row[f]
  <1>1. row[e] \in Rows /\ now \in Nat /\ "queued" \in RowStates
    BY RowValues DEF TypeOK, RowStates
  <1> DEFINE r == [row[e] EXCEPT !.state = "queued", !.next = now, !.created = now]
  <1>2. /\ r \in Rows /\ r.state = "queued" /\ r.created = now /\ r.attempts = row[e].attempts
    BY <1>1 DEF Rows
  <1>3. row' = [row EXCEPT ![e] = r] /\ row[e].state = "absent"
    BY DEF Enqueue
  <1> HIDE DEF r
  <1> QED BY <1>2, <1>3, OneRow

\* Where the statements of a drain lead its sweep.
LEMMA Moved ==
  ASSUME IndInv, NEW w \in Sweeps, Next,
         \/ Timer(w) \/ ExpireOutbox(w) \/ TakeInstance(w) \/ Endpoint(w) \/ Find(w)
  PROVE  /\ at' \in [Sweeps -> Locals]
         /\ \A v \in Sweeps \ {w} : at'[v] = at[v]
         /\ UNCHANGED <<now, usable, posts, taken, faults>>
         /\ at'[w].clock <= now /\ at'[w].asked <= now
         /\ at'[w].pc \notin Holding /\ (at'[w].pc \in Between \/ at'[w].inst \in Instances)
         /\ at'[w].pc = "claim" =>
              \E e \in Events : /\ at'[w].event = e /\ row[e].state # "absent"
                                /\ at'[w].seen = row[e].attempts /\ at'[w].born = row[e].created
                                /\ row' = row
  <1>0. /\ TypeOK /\ SweepSound(w) /\ now \in Nat
        /\ at[w].clock <= now /\ at[w].asked <= now
        /\ at[w].pc \notin Between => at[w].inst \in Instances
    BY DEF IndInv, TypeOK, SweepSound
  <1>n. ASSUME NextInstance(w)
        PROVE  /\ at' \in [Sweeps -> Locals] /\ \A v \in Sweeps \ {w} : at'[v] = at[v]
               /\ at'[w].pc = "next" /\ at'[w].clock <= now /\ at'[w].asked <= now
    BY <1>n, <1>0, WentOn
  <1>1. CASE Timer(w)
    <2> DEFINE d == [Asleep EXCEPT !.pc = "retain", !.todo = Loaded, !.clock = now]
    <2>1. d \in Locals
      BY <1>0, BetweenType, GroupsOutboxConstants DEF Between
    <2>2. d.pc = "retain" /\ d.clock = now /\ d.asked = 0
      BY DEF Asleep
    <2>3. GoWith(w, d) /\ UNCHANGED <<now, usable, posts, taken, faults>>
      BY <1>1 DEF Timer, outside
    <2> HIDE DEF d
    <2> QED BY <2>1, <2>2, <2>3, <1>0, Went DEF Between, Holding
  <1>2. CASE ExpireOutbox(w)
    <2>1. CASE at[w].pc = "retain"
      BY <2>1, <1>2, <1>n DEF ExpireOutbox, outside, Between, Holding
    <2>2. CASE at[w].pc = "expire"
      <3>1. GoTo(w, "endpoint") /\ "endpoint" \in Stages
            /\ UNCHANGED <<now, usable, posts, taken, faults>>
        BY <2>2, <1>2, StageNames DEF ExpireOutbox, outside
      <3> QED BY <3>1, <2>2, <1>0, WentTo DEF Between, Holding
    <2> QED BY <2>1, <2>2, <1>2 DEF ExpireOutbox
  <1>3. CASE TakeInstance(w)
    <2>0. UNCHANGED <<now, usable, posts, taken, faults>>
      BY <1>3 DEF TakeInstance, outside
    <2>1. CASE GoWith(w, Asleep)
      <3>1. Asleep.pc = "idle" /\ Asleep.clock = 0 /\ Asleep.asked = 0 /\ Asleep \in Locals
        BY BetweenType DEF Asleep
      <3>2. 0 <= now
        BY <1>0
      <3> QED BY <2>0, <2>1, <3>1, <3>2, <1>0, Went DEF Between, Holding
    <2>2. CASE ~ GoWith(w, Asleep)
      <3>1. PICK i \in at[w].todo :
              GoWith(w, [at[w] EXCEPT !.pc = "expire", !.todo = at[w].todo \ {i}, !.inst = i,
                                      !.clock = now])
        BY <1>3, <2>2 DEF TakeInstance
      <3> DEFINE is == at[w].todo \ {i}
                 d == [at[w] EXCEPT !.pc = "expire", !.todo = is, !.inst = i, !.clock = now]
      <3>2. i \in Instances /\ is \in SUBSET Instances /\ at[w] \in Locals /\ "expire" \in Stages
        BY <1>0, SweepValues, StageNames
      <3>3. GoWith(w, d)
        BY <3>1
      <3> HIDE DEF is
      <3>4. d \in Locals /\ d.pc = "expire" /\ d.inst = i /\ d.clock = now /\ d.asked = at[w].asked
        BY <3>2, <1>0 DEF Locals
      <3> HIDE DEF d
      <3> QED BY <2>0, <3>2, <3>3, <3>4, <1>0, Went DEF Holding
    <2> QED BY <2>1, <2>2
  <1>4. CASE Endpoint(w)
    <2>0. UNCHANGED <<now, usable, posts, taken, faults>> /\ at[w].pc = "endpoint"
      BY <1>4 DEF Endpoint, outside
    <2>1. CASE NextInstance(w)
      BY <2>0, <2>1, <1>n DEF Between, Holding
    <2>2. CASE ~ NextInstance(w)
      <3> DEFINE d == [at[w] EXCEPT !.pc = "find", !.clock = now]
      <3>1. GoWith(w, d)
        BY <1>4, <2>2 DEF Endpoint
      <3>2. /\ d \in Locals /\ d.pc = "find" /\ d.inst = at[w].inst /\ d.clock = now
            /\ d.asked = at[w].asked
        BY <1>0, SweepValues, StageNames DEF Locals
      <3> HIDE DEF d
      <3> QED BY <2>0, <3>1, <3>2, <1>0, Went DEF Between, Holding
    <2> QED BY <2>1, <2>2
  <1>5. CASE Find(w)
    <2>0. UNCHANGED <<now, row, usable, posts, taken, faults>> /\ at[w].pc = "find"
      BY <1>5 DEF Find, outside
    <2>1. CASE NextInstance(w)
      BY <2>0, <2>1, <1>n DEF Between, Holding
    <2>2. CASE ~ NextInstance(w)
      <3>1. PICK e \in Events :
              /\ Eligible(e, at[w].inst, at[w].clock)
              /\ GoWith(w, [at[w] EXCEPT !.pc = "claim", !.event = e, !.asked = now,
                                         !.seen = row[e].attempts, !.born = row[e].created])
        BY <1>5, <2>2 DEF Find
      <3> DEFINE d == [at[w] EXCEPT !.pc = "claim", !.event = e, !.asked = now,
                                    !.seen = row[e].attempts, !.born = row[e].created]
      <3>2. /\ row[e].attempts \in 0 .. MaxAttempts /\ row[e].created \in Nat /\ at[w] \in Locals
            /\ "claim" \in Stages
        BY <1>0, RowValues, SweepValues, StageNames
      <3>3. /\ d \in Locals /\ d.pc = "claim" /\ d.event = e /\ d.asked = now
            /\ d.seen = row[e].attempts /\ d.born = row[e].created
            /\ d.inst = at[w].inst /\ d.clock = at[w].clock
        BY <3>2, <1>0 DEF Locals
      <3>4. row[e].state # "absent"
        BY <3>1 DEF Eligible
      <3>5. GoWith(w, d)
        BY <3>1
      <3> HIDE DEF d
      <3> QED BY <2>0, <3>3, <3>4, <3>5, <1>0, Went DEF Between, Holding
    <2> QED BY <2>1, <2>2
  <1> QED BY <1>1, <1>2, <1>3, <1>4, <1>5

\* Every step keeps the types.
LEMMA StepType ==
  ASSUME IndInv, [Next]_vars
  PROVE  TypeOK'
  <1>0. TypeOK /\ at \in [Sweeps -> Locals] /\ row \in [Events -> Rows] /\ now \in Nat
        /\ faults \in Nat /\ faults + 1 \in Nat
    BY DEF IndInv, TypeOK
  <1>u. ASSUME UNCHANGED vars PROVE TypeOK'
    BY <1>0, <1>u DEF TypeOK, vars, outside
  <1>a. ASSUME row' \in [Events -> Rows], at' \in [Sweeps -> Locals], faults' \in Nat,
               UNCHANGED <<now, usable, posts, taken>>
        PROVE  TypeOK'
    BY <1>0, <1>a DEF TypeOK
  <1>1. CASE Tick
    BY <1>1, <1>0 DEF Tick, TypeOK, outside
  <1>2. ASSUME NEW i \in Instances, Rebind(i) PROVE TypeOK'
    BY <1>2, <1>0 DEF Rebind, TypeOK, outside
  <1>3. ASSUME NEW e \in Events, Enqueue(e) PROVE TypeOK'
    BY <1>3, <1>0, <1>a, EnqueuedRows DEF Enqueue, outside
  <1>4. ASSUME NEW e \in Events, Take(e) PROVE TypeOK'
    BY <1>4, <1>0 DEF Take, TypeOK
  <1>5. ASSUME NEW w \in Sweeps, Timer(w) \/ TakeInstance(w) \/ Endpoint(w) \/ Find(w), Next
        PROVE  TypeOK'
    <2>1. row' = row
      BY <1>5 DEF Timer, TakeInstance, Endpoint, Find
    <2> QED BY <2>1, <1>0, <1>5, <1>a, Moved
  <1>6. ASSUME NEW w \in Sweeps, ExpireOutbox(w), Next PROVE TypeOK'
    <2>1. row' \in [Events -> Rows]
      <3>1. at[w].clock \in Nat /\ at[w].clock <= now
        BY <1>0, SweepValues DEF IndInv, SweepSound
      <3>2. at[w].pc = "expire" => {at[w].inst} \in SUBSET Instances
        BY DEF IndInv, SweepSound, Between
      <3>3. Instances \in SUBSET Instances
        OBVIOUS
      <3> QED BY <3>1, <3>2, <3>3, <1>0, <1>6, ExpiredRows DEF ExpireOutbox
    <2> QED BY <2>1, <1>0, <1>6, <1>a, Moved
  <1>7. ASSUME NEW w \in Sweeps, Claim(w) PROVE TypeOK'
    <2>0. UNCHANGED <<now, usable, posts, taken, faults>> /\ at[w].pc = "claim"
      BY <1>7 DEF Claim, outside
    <2>1. CASE Claimable(w)
      <3>1. row' = Leased(w) /\ GoTo(w, "claimed") /\ "claimed" \in Stages
        BY <2>1, <1>7, StageNames DEF Claim
      <3> QED BY <2>0, <2>1, <3>1, <1>0, <1>a, LeasedRows, WentTo
    <2>2. CASE ~ Claimable(w)
      BY <2>0, <2>2, <1>7, <1>0, <1>a, WentTurn DEF Claim
    <2> QED BY <2>1, <2>2
  <1>8. ASSUME NEW w \in Sweeps, Post(w) PROVE TypeOK'
    <2>1. at' \in [Sweeps -> Locals]
      BY <1>8, <1>0, WentTo, WentAsking, StageNames DEF Post
    <2>2. posts' \in [Events -> Nat]
      <3>1. at[w].event \in Events
        BY <1>8, Working DEF Post, Holding
      <3> QED BY <3>1, <1>8, <1>0 DEF Post, TypeOK
    <2> QED BY <2>1, <2>2, <1>8, <1>0 DEF Post, TypeOK
  <1>9. ASSUME NEW w \in Sweeps, Response(w) PROVE TypeOK'
    <2>1. at' \in [Sweeps -> Locals]
      BY <1>9, <1>0, WentAsking, StageNames DEF Response
    <2> QED BY <2>1, <1>9, <1>0, <1>a DEF Response, outside
  <1>10. ASSUME NEW w \in Sweeps, Settle(w) PROVE TypeOK'
    <2>1. row' \in [Events -> Rows]
      BY <1>10, <1>0, AnsweredRows DEF Settle
    <2> QED BY <2>1, <1>10, <1>0, <1>a, WentTurn DEF Settle, outside
  <1>11. ASSUME NEW w \in Sweeps, Release(w) PROVE TypeOK'
    <2>1. row' \in [Events -> Rows]
      BY <1>11, <1>0, ReleasedRows DEF Release
    <2> QED BY <2>1, <1>11, <1>0, <1>a, WentOn DEF Release, outside
  <1>12. ASSUME NEW w \in Sweeps, Fails(w) PROVE TypeOK'
    BY <1>12, <1>0, <1>a, WentFailing DEF Fails, outside
  <1>13. ASSUME NEW w \in Sweeps, ReplyLost(w) PROVE TypeOK'
    <2>1. row' \in [Events -> Rows]
      BY <1>13, LeasedRows, AnsweredRows, ReleasedRows DEF ReplyLost
    <2> QED BY <2>1, <1>13, <1>0, <1>a, WentFailing DEF ReplyLost, outside
  <1>14. ASSUME NEW w \in Sweeps, Crash(w) PROVE TypeOK'
    <2>1. at' \in [Sweeps -> Locals]
      BY <1>14, <1>0, Went, BetweenType DEF Crash
    <2> QED BY <2>1, <1>14, <1>0, <1>a DEF Crash, outside
  <1> QED BY <1>u, <1>1, <1>2, <1>3, <1>4, <1>5, <1>6, <1>7, <1>8, <1>9, <1>10, <1>11,
             <1>12, <1>13, <1>14 DEF Next, Progress

\* A sweep that knows its event still does so after a calm step of its own.
LEMMA HolderSound ==
  ASSUME IndInv, TypeOK', NEW w \in Sweeps, at[w].pc \in Holding, at'[w].pc \in Holding,
         at'[w].event = at[w].event, at'[w].inst = at[w].inst,
         at'[w].clock = at[w].clock, at'[w].asked <= now,
         at'[w].seen = at[w].seen, at'[w].born = at[w].born,
         at'[w].pc = "delivering" => at[w].event \in taken,
         RowsCalm, now' = now, taken' = taken
  PROVE  SweepSound(w)'
  <1>1. /\ at[w].event \in Events /\ at[w].inst \in Instances
        /\ row[at[w].event].state # "absent" /\ at[w].born = row[at[w].event].created
        /\ at[w].seen + 1 <= row[at[w].event].attempts /\ at[w].clock <= now
    BY Working DEF IndInv, SweepSound
  <1> QED BY <1>1 DEF SweepSound, RowsCalm, Holding

\* A claim counts the attempt that its sweep may now post.
LEMMA LeasedStep ==
  ASSUME IndInv, TypeOK', NEW w \in Sweeps, at[w].pc = "claim", Claimable(w),
         row' = Leased(w), NEW f \in Events, at[w].event = f,
         \A v \in Sweeps \ {w} : at'[v] = at[v], SweepSound(w)',
         at'[w].pc = "claimed" => at'[w].event = f,
         UNCHANGED <<now, posts, taken>>
  PROVE  IndInv'
  <1>0. TypeOK
    BY DEF IndInv
  <1>1. ASSUME NEW e \in Events
        PROVE  /\ row[e].attempts \in Nat /\ row'[e].attempts \in Nat
               /\ row'[e].attempts = IF e = f THEN row[e].attempts + 1 ELSE row[e].attempts
               /\ row'[e].state = row[e].state /\ row'[e].created = row[e].created
    BY <1>0, LeasedRows, RowValues
  <1>2. ASSUME NEW e \in Events PROVE row[e].attempts <= row'[e].attempts
    BY <1>1
  <1>3. ASSUME NEW v \in Sweeps PROVE SweepSound(v)'
    <2>1. now <= now'
      BY <1>0 DEF TypeOK
    <2> QED BY <1>1, <1>2, <2>1, SweepLeft
  <1>4. ASSUME NEW e \in Events, e # f PROVE EventSound(e)'
    <2>1. Sending(e)' \subseteq Sending(e)
      BY <1>4 DEF Sending
    <2> QED BY <2>1, <1>2, EventLeft
  <1>5. EventSound(f)'
    <2>1. Sending(f)' \subseteq Sending(f) \cup {w}
      BY DEF Sending
    <2>2. /\ IsFiniteSet(Sending(f) \cup {w})
          /\ Cardinality(Sending(f) \cup {w}) <= Cardinality(Sending(f)) + 1
      <3>1. IsFiniteSet(Sending(f)) /\ Cardinality(Sending(f)) \in Nat
        BY SendingFinite
      <3>2. /\ IsFiniteSet(Sending(f) \cup {w})
            /\ Cardinality(Sending(f) \cup {w}) =
                 IF w \in Sending(f) THEN Cardinality(Sending(f))
                 ELSE Cardinality(Sending(f)) + 1
        BY <3>1, FS_AddElement, Zenon
      <3> QED BY <3>1, <3>2
    <2>3. /\ Cardinality(Sending(f) \cup {w}) \in Nat
          /\ Cardinality(Sending(f)') <= Cardinality(Sending(f) \cup {w})
      BY <2>1, <2>2, FS_Subset, FS_CardinalityType
    <2>4. EventSound(f) /\ posts[f] \in Nat
      BY <1>0 DEF IndInv, TypeOK
    <2> QED BY <1>1, <2>2, <2>3, <2>4, SendingFinite DEF EventSound
  <1> QED BY <1>3, <1>4, <1>5 DEF IndInv

\* Posting moves one from those about to post to the posts.
LEMMA PostStep ==
  ASSUME IndInv, TypeOK', NEW w \in Sweeps, Post(w), GoTo(w, "waiting"),
         posts' = [posts EXCEPT ![at[w].event] = @ + 1], NEW f \in Events, at[w].event = f
  PROVE  IndInv'
  <1>1. TypeOK /\ at[w].pc = "claimed" /\ at[w].pc \in Holding
        /\ UNCHANGED <<now, row, taken>> /\ posts' = [posts EXCEPT ![f] = @ + 1]
    BY DEF IndInv, Post, Holding
  <1>2. /\ \A v \in Sweeps \ {w} : at'[v] = at[v]
        /\ at'[w].pc = "waiting" /\ at'[w].event = f /\ at'[w].inst = at[w].inst
        /\ at'[w].clock = at[w].clock /\ at'[w].asked = at[w].asked
        /\ at'[w].seen = at[w].seen /\ at'[w].born = at[w].born
    BY <1>1, WentTo, StageNames
  <1>3. /\ RowsCalm /\ now <= now'
        /\ \A e \in Events : /\ row[e].attempts <= row'[e].attempts
                             /\ row[e].state # "absent" =>
                                  row'[e].state # "absent" /\ row'[e].created = row[e].created
    BY <1>1, RowValues DEF RowsCalm, TypeOK
  <1>4. ASSUME NEW v \in Sweeps PROVE SweepSound(v)'
    <2>1. CASE v = w
      <3>1. at[w].asked <= now
        BY DEF IndInv, SweepSound
      <3> QED BY <2>1, <3>1, <1>1, <1>2, <1>3, HolderSound, StageNames
    <2>2. CASE v # w
      BY <2>2, <1>1, <1>2, <1>3, SweepLeft
    <2> QED BY <2>1, <2>2
  <1>5. ASSUME NEW e \in Events PROVE EventSound(e)'
    <2>1. EventSound(e) /\ posts[e] \in Nat /\ row[e].attempts \in Nat
      BY <1>1, RowValues DEF IndInv, TypeOK
    <2>2. CASE e # f
      <3>1. Sending(e)' \subseteq Sending(e) /\ posts'[e] = posts[e]
        BY <2>2, <1>1, <1>2 DEF Sending, TypeOK
      <3> QED BY <3>1, <1>3, EventLeft
    <2>3. CASE e = f
      <3>1. /\ Sending(e)' \subseteq Sending(e) \ {w} /\ w \in Sending(e)
            /\ posts'[e] = posts[e] + 1
        BY <2>3, <1>1, <1>2 DEF Sending, TypeOK
      <3>2. IsFiniteSet(Sending(e)) /\ Cardinality(Sending(e)) \in Nat
        BY SendingFinite
      <3>3. /\ IsFiniteSet(Sending(e) \ {w})
            /\ Cardinality(Sending(e) \ {w}) =
                 IF w \in Sending(e) THEN Cardinality(Sending(e)) - 1
                 ELSE Cardinality(Sending(e))
        BY <3>2, FS_RemoveElement, Zenon
      <3>4. /\ Cardinality(Sending(e) \ {w}) \in Nat
            /\ Cardinality(Sending(e)') <= Cardinality(Sending(e) \ {w})
        BY <3>1, <3>3, FS_Subset, FS_CardinalityType
      <3> QED BY <3>1, <3>2, <3>3, <3>4, <2>1, <1>1, SendingFinite DEF EventSound
    <2> QED BY <2>2, <2>3
  <1> QED BY <1>4, <1>5 DEF IndInv

\* Every step keeps the invariant.
LEMMA StepIndInv == IndInv /\ [Next]_vars => IndInv'
  <1> SUFFICES ASSUME IndInv, [Next]_vars PROVE IndInv'
    OBVIOUS
  <1>0. /\ TypeOK /\ TypeOK' /\ now \in Nat /\ row \in [Events -> Rows]
    BY StepType DEF IndInv, TypeOK
  <1>q. row' = row => RowsCalm
    BY DEF RowsCalm
  <1>s. RowsSettle => RowsCalm
    BY DEF RowsSettle
  <1>c. row' = row =>
          \A e \in Events : /\ row[e].attempts <= row'[e].attempts
                            /\ row[e].state # "absent" =>
                                 row'[e].state # "absent" /\ row'[e].created = row[e].created
    BY <1>0, RowValues
  <1>u. ASSUME UNCHANGED vars PROVE IndInv'
    BY <1>0, <1>c, <1>u, StillStep DEF vars, outside
  <1>f. ASSUME NEW w \in Sweeps, \A v \in Sweeps \ {w} : at'[v] = at[v],
               at'[w].pc = "next" /\ at'[w].clock = 0 /\ at'[w].asked = 0,
               UNCHANGED <<now, posts, taken>>, RowsCalm
        PROVE  IndInv'
    <2>1. SweepSound(w)'
      BY <1>f, <1>0, FreshSound DEF Between, Holding
    <2> QED BY <2>1, <1>f, <1>0, CalmStep
  <1>h. ASSUME NEW w \in Sweeps, at[w].pc \in Holding, NEW s \in Holding \ {"claimed"},
               Asked(w, s), s = "delivering" => at[w].event \in taken,
               UNCHANGED <<now, posts, taken>>, RowsCalm
        PROVE  IndInv'
    <2>1. /\ s \in Stages /\ at'[w].pc = s /\ \A v \in Sweeps \ {w} : at'[v] = at[v]
          /\ at'[w].event = at[w].event /\ at'[w].inst = at[w].inst
          /\ at'[w].clock = at[w].clock /\ at'[w].asked = now
          /\ at'[w].seen = at[w].seen /\ at'[w].born = at[w].born
      BY <1>h, <1>0, WentAsking, StageNames
    <2>2. SweepSound(w)'
      BY <2>1, <1>h, <1>0, HolderSound
    <2> QED BY <2>1, <2>2, <1>h, <1>0, CalmStep
  <1>t. ASSUME NEW w \in Sweeps, NextTurn(w), at[w].pc \in Holding \cup {"claim"},
               UNCHANGED <<now, posts, taken>>, RowsCalm
        PROVE  IndInv'
    <2>1. CASE at'[w].pc = "next" /\ at'[w].clock = 0 /\ at'[w].asked = 0
      BY <2>1, <1>t, <1>0, <1>f, WentTurn
    <2>2. CASE /\ at'[w].pc = "find" /\ at'[w].inst = at[w].inst
               /\ at'[w].clock = now /\ at'[w].asked = 0
      <3>1. SweepSound(w)'
        BY <2>2, <1>t, <1>0, Working, FreshSound DEF Holding
      <3> QED BY <2>2, <3>1, <1>t, <1>0, WentTurn, CalmStep
    <2> QED BY <2>1, <2>2, <1>t, <1>0, WentTurn
  <1>n. ASSUME NEW w \in Sweeps, NextInstance(w), UNCHANGED <<now, posts, taken>>, RowsCalm
        PROVE  IndInv'
    BY <1>n, <1>0, <1>f, WentOn
  <1>e. ASSUME NEW w \in Sweeps, AfterFailure(w), UNCHANGED <<now, posts, taken>>, RowsCalm
        PROVE  IndInv'
    <2>1. CASE at[w].pc \in {"delivering", "rejecting"}
      BY <2>1, <1>e, <1>h DEF AfterFailure, Holding
    <2>2. CASE at[w].pc \notin {"delivering", "rejecting"}
      BY <2>2, <1>e, <1>n DEF AfterFailure
    <2> QED BY <2>1, <2>2
  <1>1. CASE Tick
    <2>1. now <= now' /\ UNCHANGED <<row, at, posts, taken>>
      BY <1>1, <1>0 DEF Tick, outside
    <2> QED BY <2>1, <1>0, <1>c, StillStep
  <1>2. ASSUME NEW i \in Instances, Rebind(i) PROVE IndInv'
    BY <1>0, <1>c, <1>2, StillStep DEF Rebind, outside
  <1>3. ASSUME NEW e \in Events, Enqueue(e) PROVE IndInv'
    <2>1. /\ row[e].state = "absent" /\ row'[e].attempts = row[e].attempts
          /\ \A g \in Events \ {e} : row'[g] = row[g]
      BY <1>3, <1>0, EnqueuedRows
    <2>2. ASSUME NEW g \in Events
          PROVE  /\ row[g].attempts <= row'[g].attempts
                 /\ row[g].state # "absent" =>
                      row'[g].state # "absent" /\ row'[g].created = row[g].created
      BY <2>1, <1>0, RowValues
    <2> QED BY <2>2, <1>0, <1>3, StillStep DEF Enqueue, outside
  <1>4. ASSUME NEW e \in Events, Take(e) PROVE IndInv'
    BY <1>0, <1>c, <1>4, StillStep DEF Take
  <1>5. ASSUME NEW w \in Sweeps, Next,
               Timer(w) \/ ExpireOutbox(w) \/ TakeInstance(w) \/ Endpoint(w) \/ Find(w)
        PROVE  IndInv'
    <2>1. /\ \A v \in Sweeps \ {w} : at'[v] = at[v]
          /\ UNCHANGED <<now, usable, posts, taken, faults>>
          /\ at'[w].clock <= now /\ at'[w].asked <= now
          /\ at'[w].pc \notin Holding /\ (at'[w].pc \in Between \/ at'[w].inst \in Instances)
          /\ at'[w].pc = "claim" =>
               \E e \in Events : /\ at'[w].event = e /\ row[e].state # "absent"
                                 /\ at'[w].seen = row[e].attempts
                                 /\ at'[w].born = row[e].created /\ row' = row
      BY <1>5, Moved
    <2>2. RowsCalm
      <3>1. ASSUME ExpireOutbox(w) PROVE RowsSettle
        <4>1. at[w].clock \in Nat /\ at[w].clock <= now
          BY <1>0, SweepValues DEF IndInv, SweepSound
        <4>2. at[w].pc = "expire" => {at[w].inst} \in SUBSET Instances
          BY DEF IndInv, SweepSound, Between
        <4>3. Instances \in SUBSET Instances
          OBVIOUS
        <4> QED BY <3>1, <4>1, <4>2, <4>3, <1>0, ExpiredRows DEF ExpireOutbox
      <3>2. ASSUME Timer(w) \/ TakeInstance(w) \/ Endpoint(w) \/ Find(w) PROVE row' = row
        BY <3>2 DEF Timer, TakeInstance, Endpoint, Find
      <3> QED BY <3>1, <3>2, <1>5, <1>q, <1>s
    <2>3. SweepSound(w)'
      <3>1. CASE at'[w].pc = "claim"
        <4>1. PICK e \in Events : /\ at'[w].event = e /\ row[e].state # "absent"
                                  /\ at'[w].seen = row[e].attempts
                                  /\ at'[w].born = row[e].created /\ row' = row
          BY <3>1, <2>1
        <4>2. row[e].attempts \in Nat
          BY <1>0, RowValues
        <4> QED BY <3>1, <4>1, <4>2, <2>1 DEF SweepSound, Holding
      <3>2. CASE at'[w].pc # "claim"
        BY <3>2, <2>1, <1>0, FreshSound
      <3> QED BY <3>1, <3>2
    <2>4. at'[w].pc # "claimed"
      BY <2>1 DEF Holding
    <2> QED BY <2>1, <2>2, <2>3, <2>4, <1>0, CalmStep
  <1>6. ASSUME NEW w \in Sweeps, Claim(w) PROVE IndInv'
    <2>0. UNCHANGED <<now, posts, taken>> /\ at[w].pc = "claim"
      BY <1>6 DEF Claim, outside
    <2>1. CASE ~ Claimable(w)
      BY <2>0, <2>1, <1>6, <1>q, <1>t DEF Claim
    <2>2. CASE Claimable(w)
      <3>1. PICK f \in Events : at[w].event = f
        BY <2>0, Working
      <3>2. row' = Leased(w) /\ GoTo(w, "claimed") /\ "claimed" \in Stages
        BY <2>2, <1>6, StageNames DEF Claim
      <3>3. /\ \A v \in Sweeps \ {w} : at'[v] = at[v]
            /\ at'[w].pc = "claimed" /\ at'[w].event = f /\ at'[w].inst = at[w].inst
            /\ at'[w].clock = at[w].clock /\ at'[w].asked = at[w].asked
            /\ at'[w].seen = at[w].seen /\ at'[w].born = at[w].born
        BY <3>1, <3>2, <1>0, WentTo
      <3>4. /\ row'[f].attempts = row[f].attempts + 1
            /\ row'[f].state = row[f].state /\ row'[f].created = row[f].created
        BY <2>0, <2>2, <3>1, <3>2, LeasedRows
      <3>5. /\ at[w].inst \in Instances /\ at[w].clock <= now /\ at[w].asked <= now
            /\ row[f].state # "absent" /\ at[w].born = row[f].created
            /\ at[w].seen <= row[f].attempts
            /\ at[w].seen \in Nat /\ row[f].attempts \in Nat
        BY <2>0, <3>1, <1>0, Working, SweepValues, RowValues DEF IndInv, SweepSound
      <3>6. at[w].seen + 1 <= row[f].attempts + 1
        BY <3>5
      <3>7. SweepSound(w)'
        BY <2>0, <3>1, <3>3, <3>4, <3>5, <3>6 DEF SweepSound, Holding
      <3> QED BY <2>0, <2>2, <3>1, <3>2, <3>3, <3>7, <1>0, LeasedStep
    <2> QED BY <2>1, <2>2
  <1>7. ASSUME NEW w \in Sweeps, Post(w) PROVE IndInv'
    <2>1. PICK f \in Events : at[w].event = f
      BY <1>7, Working DEF Post, Holding
    <2>2. at[w].pc \in Holding /\ UNCHANGED <<now, row, taken>>
      BY <1>7 DEF Post, Holding
    <2> QED BY <2>1, <2>2, <1>7, <1>0, <1>q, <1>h, PostStep, StageNames DEF Post
  <1>8. ASSUME NEW w \in Sweeps, Response(w) PROVE IndInv'
    BY <1>8, <1>q, <1>h, StageNames DEF Response, outside
  <1>9. ASSUME NEW w \in Sweeps, Settle(w) PROVE IndInv'
    <2>1. RowsCalm
      BY <1>9, <1>q, <1>s, AnsweredRows DEF Settle
    <2> QED BY <2>1, <1>9, <1>t DEF Settle, Holding, outside
  <1>10. ASSUME NEW w \in Sweeps, Release(w) PROVE IndInv'
    <2>1. RowsCalm
      BY <1>10, <1>q, <1>s, ReleasedRows DEF Release
    <2> QED BY <2>1, <1>10, <1>n DEF Release, outside
  <1>11. ASSUME NEW w \in Sweeps, Fails(w) PROVE IndInv'
    BY <1>11, <1>q, <1>e DEF Fails, outside
  <1>12. ASSUME NEW w \in Sweeps, ReplyLost(w) PROVE IndInv'
    <2>0. AfterFailure(w) /\ UNCHANGED <<now, posts, taken>>
      BY <1>12 DEF ReplyLost, outside
    <2>1. CASE at[w].pc = "claim" /\ Claimable(w) /\ row' = Leased(w)
      <3>1. PICK f \in Events : at[w].event = f
        BY <2>1, Working
      <3>2. /\ \A v \in Sweeps \ {w} : at'[v] = at[v]
            /\ at'[w].pc = "next" /\ at'[w].clock = 0 /\ at'[w].asked = 0
        BY <2>0, <2>1, <1>0, WentFailing
      <3>3. SweepSound(w)'
        BY <3>2, <2>0, <1>0, FreshSound DEF Between, Holding
      <3> QED BY <2>0, <2>1, <3>1, <3>2, <3>3, <1>0, LeasedStep
    <2>2. CASE ~ (at[w].pc = "claim" /\ Claimable(w) /\ row' = Leased(w))
      <3>1. RowsCalm
        BY <2>2, <1>12, <1>s, AnsweredRows, ReleasedRows DEF ReplyLost
      <3> QED BY <2>0, <3>1, <1>e
    <2> QED BY <2>1, <2>2
  <1>13. ASSUME NEW w \in Sweeps, Crash(w) PROVE IndInv'
    <2>1. /\ \A v \in Sweeps \ {w} : at'[v] = at[v]
          /\ UNCHANGED <<now, row, posts, taken>>
      BY <1>13, <1>0, Went, BetweenType DEF Crash, outside
    <2>2. at'[w] = Asleep
      BY <1>13, <1>0, Went, BetweenType DEF Crash
    <2>3. SweepSound(w)' /\ at'[w].pc # "claimed"
      BY <2>1, <2>2, <1>0, FreshSound DEF Asleep, Between, Holding
    <2> QED BY <2>1, <2>3, <1>13, <1>0, <1>q, CalmStep DEF Crash, outside
  <1> QED BY <1>u, <1>1, <1>2, <1>3, <1>4, <1>5, <1>6, <1>7, <1>8, <1>9, <1>10, <1>11,
             <1>12, <1>13 DEF Next, Progress

-----------------------------------------------------------------------------
\* The invariant holds: no sweep knows more of its event than the row says, and
\* no row has more posts, made or about to be made, than attempts counted.
THEOREM SpecIndInv == Spec => []IndInv
  BY InitIndInv, StepIndInv, PTL DEF Spec

\* Every state is of its type; attempts never pass MAX_ATTEMPTS.
THEOREM TypeCorrect == Spec => []TypeOK
  <1>1. IndInv => TypeOK
    BY DEF IndInv
  <1> QED BY <1>1, SpecIndInv, PTL

-----------------------------------------------------------------------------
\* Nobody's statement counts a running lease as expired: clocks only go back.
LEMMA HeldSeen ==
  ASSUME IndInv, NEW e \in Events, Held(e), NEW w \in Sweeps
  PROVE  ~ Unleased(e, at[w].clock)
  <1>1. /\ row[e].until \in Nat /\ at[w].clock \in Nat /\ now \in Nat
        /\ at[w].clock <= now /\ now < row[e].until
    BY RowValues, SweepValues DEF IndInv, SweepSound, Held, TypeOK
  <1> QED BY <1>1 DEF Unleased

\* Whoever changes a leased row is its holder.
LEMMA LeaseStep ==
  ASSUME IndInv, Next, NEW e \in Events, Held(e), row'[e] # row[e]
  PROVE  \E w \in Sweeps : /\ row[e].token = w /\ at[w].event = e
                           /\ at[w].pc \in {"delivering", "rejecting", "releasing"}
                           /\ at'[w] # at[w]
  <1>0. TypeOK /\ row[e].state = "queued"
    BY DEF IndInv, Held
  <1>1. ASSUME NEW f \in Events, Enqueue(f) PROVE FALSE
    BY <1>0, <1>1, EnqueuedRows
  <1>2. ASSUME NEW w \in Sweeps, ExpireOutbox(w) PROVE FALSE
    <2>1. at[w].clock \in Nat /\ at[w].clock <= now
      BY <1>0, SweepValues DEF IndInv, SweepSound
    <2>2. at[w].pc = "expire" => {at[w].inst} \in SUBSET Instances
      BY DEF IndInv, SweepSound, Between
    <2>3. Instances \in SUBSET Instances
      OBVIOUS
    <2>4. Unleased(e, at[w].clock)
      BY <2>1, <2>2, <2>3, <1>0, <1>2, ExpiredRows DEF ExpireOutbox
    <2> QED BY <2>4, HeldSeen
  <1>3. ASSUME NEW w \in Sweeps, at[w].pc = "claim", Claimable(w), row' = Leased(w)
        PROVE  FALSE
    <2>1. at[w].event = e
      BY <1>3, LeasedRows
    <2>2. Unleased(e, at[w].clock)
      BY <2>1, <1>3 DEF Claimable, Eligible
    <2> QED BY <2>2, HeldSeen
  <1>4. ASSUME NEW w \in Sweeps, Mine(w),
               \/ at[w].pc \in {"delivering", "rejecting"} /\ row' = AsAnswered(w)
               \/ at[w].pc = "releasing" /\ row' = Released(w)
        PROVE  at[w].event = e /\ row[e].token = w
    BY <1>4, AnsweredRows, ReleasedRows DEF Mine
  <1>5. ASSUME NEW w \in Sweeps, Settle(w) \/ Release(w)
        PROVE  /\ row[e].token = w /\ at[w].event = e
               /\ at[w].pc \in {"delivering", "rejecting", "releasing"} /\ at'[w] # at[w]
    <2>1. /\ at[w].pc \in {"delivering", "rejecting", "releasing"}
          /\ NextTurn(w) \/ NextInstance(w)
          /\ at[w].event = e /\ row[e].token = w
      BY <1>4, <1>5 DEF Settle, Release
    <2>2. at'[w].pc \in {"find", "next"}
      BY <2>1, <1>0, WentTurn, WentOn
    <2> QED BY <2>1, <2>2
  <1>6. ASSUME NEW w \in Sweeps, ReplyLost(w)
        PROVE  /\ row[e].token = w /\ at[w].event = e
               /\ at[w].pc \in {"delivering", "rejecting", "releasing"} /\ at'[w] # at[w]
    <2>1. /\ at[w].pc \in {"delivering", "rejecting", "releasing"} /\ AfterFailure(w)
          /\ at[w].event = e /\ row[e].token = w
      BY <1>3, <1>4, <1>6 DEF ReplyLost
    <2>2. \/ at[w].pc \in {"delivering", "rejecting"} /\ at'[w].pc = "releasing"
          \/ at'[w].pc = "next"
      BY <2>1, <1>0, WentFailing
    <2> QED BY <2>1, <2>2
  <1>7. ASSUME NEW w \in Sweeps,
               \/ Timer(w) \/ TakeInstance(w) \/ Endpoint(w) \/ Find(w) \/ Post(w)
               \/ Response(w) \/ Fails(w) \/ Crash(w)
        PROVE  FALSE
    BY <1>7 DEF Timer, TakeInstance, Endpoint, Find, Post, Response, Fails, Crash
  <1>8. ASSUME NEW w \in Sweeps, Claim(w) PROVE FALSE
    BY <1>3, <1>8 DEF Claim
  <1>9. ASSUME Tick \/ (\E i \in Instances : Rebind(i)) \/ (\E f \in Events : Take(f))
        PROVE  FALSE
    BY <1>9 DEF Tick, Rebind, Take
  <1> QED BY <1>1, <1>2, <1>5, <1>6, <1>7, <1>8, <1>9 DEF Next, Progress

\* A running lease is only ended by its holder's own settlement or release,
\* however sweeps overlap, expire events and outlive their leases.
THEOREM LeasesRespected == Spec => LeaseRespected
  <1>1. IndInv /\ [Next]_vars =>
          [\A e \in Events : Held(e) /\ row'[e] # row[e] =>
             \E w \in Sweeps : /\ row[e].token = w /\ at[w].event = e
                               /\ at[w].pc \in {"delivering", "rejecting", "releasing"}
                               /\ at'[w] # at[w]]_vars
    BY LeaseStep
  <1> QED BY <1>1, SpecIndInv, PTL DEF Spec, LeaseRespected

-----------------------------------------------------------------------------
\* What the states of a row stand for.
LEMMA Fates ==
  /\ Fate("absent") = "absent" /\ Fate("queued") = "open"
  /\ Fate("delivered") = "acknowledged" /\ Fate("rejected") = "refused"
  /\ Fate("quarantined") = "given_up"
  BY DEF Fate

\* The events whose time is spent.
Old == {e \in Events : row[e].state # "absent" /\ Aged(e, now)}

\* They remain the same while time stands still and nothing is created.
LEMMA OldSame ==
  ASSUME now' = now,
         \A e \in Events : /\ row'[e].created = row[e].created
                           /\ row'[e].state = "absent" <=> row[e].state = "absent"
  PROVE  Old' = Old
  BY DEF Old, Aged

\* A statement that settles some rows is a settlement of the promise.
LEMMA SettlesAsPromised ==
  ASSUME TypeOK, TypeOK', RowsSettle, now' = now, UNCHANGED outside
  PROVE  Promise!Settle
  <1>1. ASSUME NEW e \in Events
        PROVE  /\ Fate(row'[e].state) \in Promise!Settlements \cup {"absent", "open"}
               /\ Fate(row'[e].state) # Fate(row[e].state) =>
                    /\ Fate(row[e].state) = "open"
                    /\ Fate(row'[e].state) \in Promise!Settlements
                    /\ Fate(row'[e].state) = "acknowledged" => e \in taken
                    /\ Fate(row'[e].state) = "given_up" =>
                         row[e].attempts = MaxAttempts \/ e \in Old
    <2>1. row'[e].state \in RowStates /\ row[e].state \in RowStates
      BY DEF TypeOK, Rows
    <2>2. row[e].state = "queued" /\ Aged(e, now) => e \in Old
      BY DEF Old
    <2> QED BY <2>1, <2>2, Fates DEF RowsSettle, RowStates, Promise!Settlements
  <1>2. [e \in Events |-> row[e].attempts]' = [e \in Events |-> row[e].attempts]
    BY DEF RowsSettle, RowsCalm
  <1>3. Old' = Old
    BY OldSame DEF RowsSettle, RowsCalm
  <1> QED BY <1>1, <1>2, <1>3 DEF Promise!Settle, Promise!Settles, outside, Old

\* A claim is an attempt of the promise.
LEMMA LeasedPromise ==
  ASSUME IndInv, NEW w \in Sweeps, at[w].pc = "claim", NEW f \in Events, at[w].event = f,
         row' = Leased(w), Claimable(w), now' = now, UNCHANGED outside
  PROVE  Promise!Attempt(f)
  <1>1. /\ row[f].attempts < MaxAttempts /\ row'[f].attempts = row[f].attempts + 1
        /\ \A e \in Events : /\ row'[e].state = row[e].state /\ row'[e].created = row[e].created
                             /\ e # f => row'[e] = row[e]
    BY LeasedRows
  <1>2. Fate(row[f].state) = "open"
    BY Fates DEF Claimable, Eligible
  <1>3. [e \in Events |-> row'[e].attempts] =
          [[e \in Events |-> row[e].attempts] EXCEPT ![f] = @ + 1]
    BY <1>1
  <1>4. [e \in Events |-> Fate(row'[e].state)] = [e \in Events |-> Fate(row[e].state)]
    BY <1>1
  <1>5. Old' = Old
    BY <1>1, OldSame
  <1> QED BY <1>1, <1>2, <1>3, <1>4, <1>5 DEF Promise!Attempt, outside, Old

\* Time passes for the promise, too.
LEMMA TickPromise ==
  ASSUME TypeOK, Tick
  PROVE  Promise!Age
  <1>1. UNCHANGED <<row, posts, taken>> /\ now' = now + 1 /\ now \in Nat
    BY DEF Tick, outside, TypeOK
  <1>2. ASSUME NEW e \in Events, Aged(e, now) PROVE Aged(e, now')
    BY <1>1, <1>2, RowValues, Numbers DEF Aged
  <1>3. Old \subseteq Old'
    <2>1. \A e \in Events : row'[e] = row[e]
      BY <1>1
    <2>2. \A e \in Old : e \in Old'
      BY <1>1, <1>2, <2>1 DEF Old, Aged
    <2> QED BY <2>2
  <1>4. Old' \in SUBSET Events /\ \A e \in Old' : Fate(row[e].state) # "absent"
    <2>1. ASSUME NEW e \in Old' PROVE e \in Events /\ Fate(row[e].state) # "absent"
      <3>1. e \in Events /\ row[e].state # "absent"
        BY <1>1 DEF Old
      <3>2. row[e].state \in RowStates
        BY <3>1, RowValues
      <3> QED BY <3>1, <3>2, Fates DEF RowStates
    <2> QED BY <2>1
  <1>5. \A e \in Old' : [g \in Events |-> Fate(row[g].state)][e] # "absent"
    BY <1>4
  <1>6. /\ [e \in Events |-> Fate(row[e].state)]' = [e \in Events |-> Fate(row[e].state)]
        /\ [e \in Events |-> row[e].attempts]' = [e \in Events |-> row[e].attempts]
    BY <1>1
  <1> QED BY <1>1, <1>3, <1>4, <1>5, <1>6 DEF Promise!Age, Old

\* The initial rows are those of the promise.
LEMMA InitPromise == Init => Promise!OutboxInit
  BY Fates DEF Init, Promise!OutboxInit

\* Every step is one of the promise's, or none.
LEMMA StepPromise ==
  ASSUME IndInv, [Next]_vars
  PROVE  [Promise!OutboxNext]_(Promise!outboxVars)
  <1>0. TypeOK /\ TypeOK'
    BY StepType DEF IndInv
  <1>n. ASSUME \/ Promise!Settle \/ Promise!Age
               \/ \E e \in Events : \/ Promise!Record(e) \/ Promise!Attempt(e)
                                    \/ Promise!Post(e) \/ Promise!Take(e)
        PROVE  Promise!OutboxNext
    BY <1>n DEF Promise!OutboxNext
  <1>s. ASSUME RowsSettle, now' = now, UNCHANGED outside PROVE Promise!OutboxNext
    BY <1>s, <1>0, <1>n, SettlesAsPromised
  <1>q. ASSUME UNCHANGED <<now, row, outside>> PROVE Promise!OutboxNext
    BY <1>q, <1>s DEF RowsSettle, RowsCalm
  <1>l. ASSUME NEW w \in Sweeps, at[w].pc = "claim", row' = Leased(w), Claimable(w),
               now' = now, UNCHANGED outside
        PROVE  Promise!OutboxNext
    <2>1. PICK f \in Events : at[w].event = f
      BY <1>l, Working
    <2> QED BY <2>1, <1>l, <1>n, LeasedPromise
  <1>u. ASSUME UNCHANGED vars PROVE Promise!OutboxNext
    BY <1>u, <1>q DEF vars
  <1>1. CASE Tick
    BY <1>1, <1>0, <1>n, TickPromise
  <1>2. ASSUME NEW e \in Events, Enqueue(e) PROVE Promise!OutboxNext
    <2>1. /\ row[e].state = "absent" /\ row'[e].state = "queued" /\ row'[e].created = now
          /\ row'[e].attempts = row[e].attempts
          /\ \A f \in Events \ {e} : row'[f] = row[f]
          /\ now' = now /\ UNCHANGED outside /\ now \in Nat
      BY <1>2, <1>0, EnqueuedRows DEF Enqueue, TypeOK
    <2>2. [f \in Events |-> Fate(row'[f].state)] =
            [[f \in Events |-> Fate(row[f].state)] EXCEPT ![e] = "open"]
      BY <2>1, Fates
    <2>3. [f \in Events |-> row'[f].attempts] = [f \in Events |-> row[f].attempts]
      BY <2>1
    <2>4. Old' = Old
      <3>1. e \notin Old /\ e \notin Old'
        BY <2>1, Numbers DEF Old, Aged
      <3>2. \A f \in Events \ {e} : f \in Old' <=> f \in Old
        BY <2>1 DEF Old, Aged
      <3>3. Old \subseteq Events /\ Old' \subseteq Events
        BY DEF Old
      <3> QED BY <3>1, <3>2, <3>3
    <2>5. Promise!Record(e)
      BY <2>1, <2>2, <2>3, <2>4, Fates DEF Promise!Record, outside, Old
    <2> QED BY <2>5, <1>n
  <1>3. ASSUME NEW e \in Events, Take(e) PROVE Promise!OutboxNext
    <2>1. Old' = Old
      BY <1>3, OldSame DEF Take
    <2>2. Promise!Take(e)
      BY <1>3, <2>1 DEF Take, Promise!Take, Old
    <2> QED BY <2>2, <1>n
  <1>4. ASSUME NEW w \in Sweeps, Post(w) PROVE Promise!OutboxNext
    <2>1. PICK e \in Events : at[w].event = e
      BY <1>4, Working DEF Post, Holding
    <2>2. posts[e] < row[e].attempts
      <3>1. /\ EventSound(e) /\ posts[e] \in Nat /\ row[e].attempts \in Nat
            /\ w \in Sending(e)
        BY <2>1, <1>4, <1>0, RowValues DEF IndInv, TypeOK, Post, Sending
      <3>2. IsFiniteSet(Sending(e)) /\ Cardinality(Sending(e)) \in Nat
        BY SendingFinite
      <3>3. Cardinality(Sending(e)) # 0
        BY <3>1, <3>2, FS_EmptySet
      <3> QED BY <3>1, <3>2, <3>3 DEF EventSound
    <2>3. ASSUME posts' = [posts EXCEPT ![at[w].event] = @ + 1] PROVE Promise!Post(e)
      <3>1. Old' = Old
        BY <1>4, OldSame DEF Post
      <3> QED BY <2>1, <2>2, <2>3, <3>1, <1>4 DEF Post, Promise!Post, Old
    <2> QED BY <2>3, <1>n, <1>q, <1>4 DEF Post, outside
  <1>5. ASSUME NEW w \in Sweeps, ExpireOutbox(w) PROVE Promise!OutboxNext
    <2>1. at[w].clock \in Nat /\ at[w].clock <= now
      BY <1>0, SweepValues DEF IndInv, SweepSound
    <2>2. at[w].pc = "expire" => {at[w].inst} \in SUBSET Instances
      BY DEF IndInv, SweepSound, Between
    <2>3. Instances \in SUBSET Instances
      OBVIOUS
    <2>4. RowsSettle
      BY <2>1, <2>2, <2>3, <1>0, <1>5, ExpiredRows DEF ExpireOutbox
    <2> QED BY <2>4, <1>5, <1>s DEF ExpireOutbox
  <1>6. ASSUME NEW w \in Sweeps, Claim(w) PROVE Promise!OutboxNext
    BY <1>6, <1>l, <1>q DEF Claim
  <1>7. ASSUME NEW w \in Sweeps, Settle(w) PROVE Promise!OutboxNext
    BY <1>7, <1>s, <1>q, AnsweredRows DEF Settle
  <1>8. ASSUME NEW w \in Sweeps, Release(w) PROVE Promise!OutboxNext
    BY <1>8, <1>s, <1>q, ReleasedRows DEF Release
  <1>9. ASSUME NEW w \in Sweeps, ReplyLost(w) PROVE Promise!OutboxNext
    BY <1>9, <1>l, <1>s, AnsweredRows, ReleasedRows DEF ReplyLost
  <1>10. ASSUME NEW w \in Sweeps,
                \/ Timer(w) \/ TakeInstance(w) \/ Endpoint(w) \/ Find(w)
                \/ Response(w) \/ Fails(w) \/ Crash(w)
         PROVE  UNCHANGED <<now, row, outside>>
    BY <1>10 DEF Timer, TakeInstance, Endpoint, Find, Response, Fails, Crash
  <1>11. ASSUME NEW i \in Instances, Rebind(i) PROVE UNCHANGED <<now, row, outside>>
    BY <1>11 DEF Rebind
  <1> QED BY <1>q, <1>u, <1>1, <1>2, <1>3, <1>4, <1>5, <1>6, <1>7, <1>8, <1>9, <1>10, <1>11
          DEF Next, Progress

\* The sweeps keep what OutboxPromise promises: a delivery per counted attempt
\* at most, one settlement per event, an acknowledgement only of what the
\* application took, and no event given up before its attempts or its time are
\* spent.
THEOREM OutboxKeepsPromise == Spec => KeepsPromise
  <1>1. IndInv /\ [Next]_vars => [Promise!OutboxNext]_(Promise!outboxVars)
    BY StepPromise
  <1> QED BY <1>1, InitPromise, SpecIndInv, PTL DEF Spec, KeepsPromise, Promise!OutboxSpec
=============================================================================
