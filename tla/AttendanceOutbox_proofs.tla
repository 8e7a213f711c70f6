----------------------- MODULE AttendanceOutbox_proofs -----------------------
(***************************************************************************)
(* Theorems about the attendance outbox, for any events, instances,        *)
(* processes, limits, delays and faults.                                   *)
(* In the second part, the receipt worker that journals events for it.     *)
(***************************************************************************)
EXTENDS AttendanceOutbox, FiniteSetTheorems, WellFoundedInduction, SequenceTheorems, TLAPS

-----------------------------------------------------------------------------
\* The numeric constants.
LEMMA Numbers ==
  /\ MaxAttempts \in Nat /\ Lease \in Nat /\ Limit \in Nat
  BY OutboxConstants

\* A count below its limit may go up by one.
LEMMA Below ==
  ASSUME NEW k \in Nat, NEW n \in 0 .. k
  PROVE  n < k => n + 1 \in 0 .. k
  OBVIOUS

\* The locals of a drainer between drains and at the start of a turn.
LEMMA AsleepType ==
  /\ Asleep \in Drainers /\ Looping \in Drainers
  /\ \A i \in Instances, k \in 0 .. Limit, c \in Nat :
       [Looping EXCEPT !.pc = "find", !.inst = i, !.turn = k, !.clock = c] \in Drainers
  <1>1. Asleep \in Drainers /\ Looping \in Drainers
    BY OutboxConstants DEF Asleep, Looping, Drainers, Stages, Holding
  <1>2. ASSUME NEW i \in Instances, NEW k \in 0 .. Limit, NEW c \in Nat, NEW d \in Drainers
        PROVE  [d EXCEPT !.pc = "find", !.inst = i, !.turn = k, !.clock = c] \in Drainers
    BY DEF Drainers, Stages
  <1> QED BY <1>1, <1>2

\* The stages, spelled out.
LEMMA StageNames ==
  /\ Stages = {"claimed", "waiting", "acknowledging", "refusing", "releasing", "idle",
               "loop", "boundary", "unbind", "sweep", "find", "discard", "claim"}
  /\ Holding \subseteq Stages
  BY DEF Stages, Holding

\* The drainer goes on to its next event, or to its loop.
LEMMA NextTurnType ==
  ASSUME TypeOK, NEW p \in Procs, at[p].inst \in Instances, NextTurn(p)
  PROVE  /\ at' \in [Procs -> Drainers]
         /\ at'[p].pc \in {"find", "loop"}
  <1>1. at[p].turn + 1 < Limit => at[p].turn + 1 \in 0 .. Limit
    BY OutboxConstants DEF TypeOK, Drainers
  <1>2. at[p].turn + 1 < Limit =>
          [Looping EXCEPT !.pc = "find", !.inst = at[p].inst,
                          !.turn = at[p].turn + 1, !.clock = now] \in Drainers
    <2> SUFFICES ASSUME at[p].turn + 1 < Limit
                 PROVE  [Looping EXCEPT !.pc = "find", !.inst = at[p].inst,
                                        !.turn = at[p].turn + 1, !.clock = now] \in Drainers
      OBVIOUS
    <2> DEFINE k == at[p].turn + 1
               i == at[p].inst
    <2>1. k \in 0 .. Limit /\ i \in Instances /\ now \in Nat
      BY <1>1 DEF TypeOK
    <2> HIDE DEF k, i
    <2>2. [Looping EXCEPT !.pc = "find", !.inst = i, !.turn = k, !.clock = now] \in Drainers
      BY <2>1, AsleepType
    <2> QED BY <2>2 DEF k, i
  <1>3. at[p].turn + 1 < Limit => at' \in [Procs -> Drainers]
    BY <1>2 DEF NextTurn, GoWith, TypeOK
  <1>4. ~ (at[p].turn + 1 < Limit) => at' \in [Procs -> Drainers]
    BY AsleepType DEF NextTurn, GoWith, TypeOK
  <1>5. at'[p].pc \in {"find", "loop"}
    BY DEF NextTurn, GoWith, TypeOK, Looping, Asleep
  <1> QED BY <1>3, <1>4, <1>5

\* The fields of typed rows and drainers.
LEMMA RowValues ==
  ASSUME TypeOK, NEW e \in Events
  PROVE  /\ row[e] \in Rows /\ row[e].state \in RowStates
         /\ row[e].attempts \in 0 .. MaxAttempts /\ row[e].attempts \in Nat
         /\ row[e].next \in Nat /\ row[e].until \in Nat /\ row[e].created \in Nat
         /\ row[e].token \in Procs \cup {NoProc}
  BY OutboxConstants DEF TypeOK, Rows

\* The fields of a typed drainer.
LEMMA DrainerValues ==
  ASSUME TypeOK, NEW p \in Procs
  PROVE  /\ at[p] \in Drainers /\ at[p].pc \in Stages
         /\ at[p].inst \in Instances \cup {NoInstance}
         /\ at[p].turn \in 0 .. Limit /\ at[p].clock \in Nat /\ at[p].asked \in Nat
         /\ at[p].event \in Events \cup {NoEvent}
         /\ at[p].seen \in 0 .. MaxAttempts
  BY DEF TypeOK, Drainers

\* A drainer moved, or rows changed, by a statement of a drain.
LEMMA LeasedType ==
  ASSUME TypeOK, NEW p \in Procs, at[p].event \in Events,
         row[at[p].event].attempts < MaxAttempts
  PROVE  Leased(p) \in [Events -> Rows]
  <1>1. row[at[p].event].attempts + 1 \in 0 .. MaxAttempts /\ at[p].asked + Lease \in Nat
    <2>1. row[at[p].event].attempts \in 0 .. MaxAttempts
      BY RowValues
    <2>2. at[p].asked \in Nat
      BY DrainerValues
    <2>3. at[p].asked + Lease \in Nat
      BY <2>2, Numbers
    <2>4. row[at[p].event].attempts + 1 \in 0 .. MaxAttempts
      BY <2>1, Below, Numbers
    <2> QED BY <2>3, <2>4
  <1>2. row[at[p].event] \in Rows
    BY RowValues
  <1>3. [row[at[p].event] EXCEPT !.token = p, !.until = at[p].asked + Lease,
                                 !.attempts = row[at[p].event].attempts + 1] \in Rows
    <2> DEFINE a == row[at[p].event].attempts + 1
               u == at[p].asked + Lease
    <2>1. a \in 0 .. MaxAttempts /\ u \in Nat
      BY <1>1
    <2> HIDE DEF a, u
    <2>2. [row[at[p].event] EXCEPT !.token = p, !.until = u, !.attempts = a] \in Rows
      BY <1>2, <2>1 DEF Rows
    <2> QED BY <2>2 DEF a, u
  <1>4. ASSUME NEW r \in Rows PROVE [row EXCEPT ![at[p].event] = r] \in [Events -> Rows]
    BY DEF TypeOK
  <1> QED BY <1>3, <1>4, Zenon DEF Leased

\* Settled and released rows are rows.
LEMMA SettledType ==
  ASSUME TypeOK, NEW e \in Events, NEW s \in RowStates
  PROVE  /\ Settled(e, s) \in [Events -> Rows]
         /\ \A n \in Nat : [Settled(e, s) EXCEPT ![e].next = n] \in [Events -> Rows]
  <1>1. row[e] \in Rows /\ NoProc \in Procs \cup {NoProc} /\ 0 \in Nat
    BY RowValues
  <1>2. [row[e] EXCEPT !.state = s, !.token = NoProc, !.until = 0] \in Rows
    BY <1>1 DEF Rows
  <1>3. Settled(e, s) \in [Events -> Rows]
    BY <1>2 DEF Settled, TypeOK
  <1>4. ASSUME NEW n \in Nat, NEW f \in [Events -> Rows]
        PROVE  [f EXCEPT ![e].next = n] \in [Events -> Rows]
    <2>1. [f[e] EXCEPT !.next = n] \in Rows
      BY DEF Rows
    <2> QED BY <2>1
  <1> QED BY <1>3, <1>4

\* An unsettled delivery leaves rows.
LEMMA ReleasedType ==
  ASSUME TypeOK, NEW p \in Procs, at[p].event \in Events, at[p].seen < MaxAttempts
  PROVE  Released(p) \in [Events -> Rows]
  <1>1. at[p].asked + Backoff[at[p].seen] \in Nat
    <2>1. at[p].asked \in Nat /\ at[p].seen \in 0 .. MaxAttempts
      BY DrainerValues
    <2>2. Backoff[at[p].seen] \in Nat
      BY <2>1, OutboxConstants
    <2> QED BY <2>1, <2>2
  <1> DEFINE s == IF at[p].seen + 1 >= MaxAttempts THEN "quarantined" ELSE "pending"
  <1>2. s \in RowStates
    BY DEF RowStates
  <1> HIDE DEF s
  <1>3. \A n \in Nat : [Settled(at[p].event, s) EXCEPT ![at[p].event].next = n]
                         \in [Events -> Rows]
    BY <1>2, SettledType
  <1> QED BY <1>1, <1>3 DEF Released, s

\* A settled delivery leaves rows.
LEMMA AsAnsweredType ==
  ASSUME TypeOK, NEW p \in Procs, at[p].event \in Events
  PROVE  AsAnswered(p) \in [Events -> Rows]
  BY SettledType DEF AsAnswered, RowStates

\* A drainer that goes on is a drainer.
LEMMA MoveType ==
  ASSUME TypeOK, NEW p \in Procs, NEW s \in Stages, GoTo(p, s) \/ Answered(p, s)
  PROVE  at' \in [Procs -> Drainers]
  <1>1. at[p] \in Drainers /\ now \in Nat /\ at \in [Procs -> Drainers]
    BY DrainerValues DEF TypeOK
  <1>2. [at[p] EXCEPT !.pc = s] \in Drainers
    BY <1>1 DEF Drainers
  <1>3. [at[p] EXCEPT !.pc = s, !.asked = now] \in Drainers
    BY <1>1 DEF Drainers
  <1> QED BY <1>1, <1>2, <1>3 DEF GoTo, GoWith, Answered

\* A drainer with new locals is a drainer.
LEMMA GoWithType ==
  ASSUME TypeOK, NEW p \in Procs, NEW d \in Drainers, GoWith(p, d)
  PROVE  at' \in [Procs -> Drainers]
  BY DEF GoWith, TypeOK

\* What the rows and drainers of a typed state are, next to the other types.
LEMMA TypeParts ==
  ASSUME TypeOK
  PROVE  /\ now \in Nat /\ faults \in Nat
         /\ \A e \in Events : row[e] \in Rows
         /\ \A p \in Procs : at[p] \in Drainers
  BY DEF TypeOK

\* Events swept aside stay rows.
LEMMA SweptType ==
  ASSUME TypeOK, NEW r \in Rows
  PROVE  /\ [r EXCEPT !.state = "binding_unavailable"] \in Rows
         /\ [r EXCEPT !.state = "unsupported"] \in Rows
         /\ [r EXCEPT !.state = "quarantined", !.token = NoProc, !.until = 0] \in Rows
         /\ [r EXCEPT !.state = "pending", !.next = now, !.created = now] \in Rows
  BY TypeParts DEF Rows, RowStates

\* What follows from the invariant about a drainer that works on an event.
LEMMA Working ==
  ASSUME IndInv, NEW p \in Procs
  PROVE  /\ at[p].pc \in Holding \cup {"claim", "discard"} => at[p].event \in Events
         /\ at[p].pc \notin {"idle", "loop"} => at[p].inst \in Instances
         /\ at[p].pc \in Holding => at[p].seen < MaxAttempts
  <1>1. DrainerSound(p) /\ TypeOK
    BY DEF IndInv
  <1>2. ASSUME at[p].pc \in Holding PROVE at[p].seen < MaxAttempts
    <2>1. at[p].event \in Events /\ at[p].seen + 1 <= row[at[p].event].attempts
      BY <1>1, <1>2 DEF DrainerSound
    <2>2. row[at[p].event].attempts \in 0 .. MaxAttempts /\ at[p].seen \in 0 .. MaxAttempts
      BY <1>1, <2>1, RowValues, DrainerValues
    <2> QED BY <2>1, <2>2, Numbers
  <1> QED BY <1>1, <1>2 DEF DrainerSound

\* The timer and the hints change only ready and wake an idle drainer.
LEMMA WakeStep ==
  ASSUME TypeOK, NEW p \in Procs, Poll(p) \/ WakeOutbox(p)
  PROVE  /\ ready' \in [Procs -> Seq(Instances)]
         /\ \E s \in Stages : /\ at' = [at EXCEPT ![p].pc = s]
                              /\ s = at[p].pc \/ (at[p].pc = "idle" /\ s = "loop")
         /\ UNCHANGED <<now, row, binding, outside, faults>>
  <1>1. PICK is : Wake(p, is) /\ is \in Seq(Instances)
    <2>1. CASE WakeOutbox(p)
      <3>1. PICK i \in Instances : Wake(p, <<i>>)
        BY <2>1, Zenon DEF WakeOutbox
      <3> QED BY <3>1
    <2>2. CASE Poll(p)
      <3>1. PICK hints \in SUBSET Instances : \E is \in SetToSeqs(hints) : Wake(p, is)
        BY <2>2 DEF Poll, kSubset
      <3>2. Cardinality(hints) \in Nat
        BY OutboxConstants, FS_Subset, FS_CardinalityType
      <3>3. PICK is \in SetToSeqs(hints) : Wake(p, is)
        BY <3>1
      <3>4. is \in [1 .. Cardinality(hints) -> hints]
        BY <3>3 DEF SetToSeqs
      <3>5. is \in Seq(Instances)
        BY <3>2, <3>4
      <3> QED BY <3>3, <3>5
    <2> QED BY <2>1, <2>2
  <1>2. ready' \in [Procs -> Seq(Instances)]
    BY <1>1 DEF Wake, TypeOK
  <1>3. at[p].pc \in Stages
    BY DrainerValues
  <1> QED BY <1>1, <1>2, <1>3 DEF Wake, GoTo, Stages

-----------------------------------------------------------------------------
\* The initial states satisfy the invariant.
LEMMA InitIndInv == Init => IndInv
  <1> SUFFICES ASSUME Init PROVE IndInv
    OBVIOUS
  <1>1. TypeOK
    <2>1. [state |-> "absent", attempts |-> 0, next |-> 0, token |-> NoProc,
           until |-> 0, created |-> 0] \in Rows
      BY Numbers DEF Rows, RowStates
    <2>2. \A i \in Instances : "enabled" \in Bindings
      BY DEF Bindings
    <2>3. ready \in [Procs -> Seq(Instances)] /\ at \in [Procs -> Drainers]
      <3>1. <<>> \in Seq(Instances)
        OBVIOUS
      <3> QED BY <3>1, AsleepType, Zenon DEF Init
    <2>4. /\ now \in Nat /\ faults \in Nat /\ taken \in SUBSET Events
          /\ posts \in [Events -> Nat]
      BY DEF Init
    <2>5. row \in [Events -> Rows] /\ binding \in [Instances -> Bindings]
      BY <2>1, <2>2 DEF Init
    <2> QED BY <2>3, <2>4, <2>5 DEF TypeOK
  <1>2. ASSUME NEW p \in Procs PROVE DrainerSound(p)
    BY DEF Init, Asleep, DrainerSound, Holding
  <1>3. ASSUME NEW e \in Events PROVE RowSound(e)
    <2>1. Sending(e) = {}
      BY DEF Init, Asleep, Sending
    <2>2. Cardinality(Sending(e)) = 0
      BY <2>1, FS_EmptySet
    <2> QED BY <2>2 DEF Init, RowSound
  <1> QED BY <1>1, <1>2, <1>3 DEF IndInv

\* Every step keeps the types.
LEMMA StepType ==
  ASSUME IndInv, [Next]_vars
  PROVE  TypeOK'
  <1>0. TypeOK /\ at \in [Procs -> Drainers] /\ row \in [Events -> Rows] /\ now \in Nat
    BY DEF IndInv, TypeOK
  <1>u. ASSUME UNCHANGED vars PROVE TypeOK'
    BY <1>0, <1>u DEF TypeOK, vars, outside
  <1>a. ASSUME row' \in [Events -> Rows], at' \in [Procs -> Drainers],
               ready' \in [Procs -> Seq(Instances)], faults' \in Nat,
               UNCHANGED <<now, binding, outside>>
        PROVE  TypeOK'
    BY <1>0, <1>a DEF TypeOK, outside
  <1>s. ASSUME NEW p \in Procs, at[p].pc \in Holding \cup {"claim", "discard"}, NextTurn(p)
        PROVE  at' \in [Procs -> Drainers]
    <2>1. at[p].inst \in Instances
      BY <1>s, Working DEF Holding
    <2> QED BY <1>s, <2>1, <1>0, NextTurnType
  <1>r. ready \in [Procs -> Seq(Instances)] /\ faults \in Nat /\ faults + 1 \in Nat
    BY <1>0 DEF TypeOK
  <1>l. ASSUME NEW p \in Procs, at[p].pc = "claim",
               Eligible(at[p].event, at[p].inst, at[p].clock)
        PROVE  Leased(p) \in [Events -> Rows]
    <2>1. at[p].event \in Events
      BY <1>l, Working
    <2>2. row[at[p].event].attempts < MaxAttempts
      BY <1>l DEF Eligible
    <2> QED BY <1>0, <2>1, <2>2, LeasedType
  <1>m. ASSUME NEW p \in Procs, at[p].pc \in Holding
        PROVE  AsAnswered(p) \in [Events -> Rows] /\ Released(p) \in [Events -> Rows]
    BY <1>m, <1>0, Working, AsAnsweredType, ReleasedType
  <1>f. ASSUME NEW p \in Procs, AfterFailure(p)
        PROVE  at' \in [Procs -> Drainers] /\ faults' \in Nat
    <2>1. CASE Answered(p, "releasing")
      BY <2>1, <1>f, <1>r, <1>0, MoveType, StageNames DEF AfterFailure
    <2>2. CASE GoWith(p, Looping)
      BY <2>2, <1>f, <1>r, <1>0, GoWithType, AsleepType DEF AfterFailure
    <2> QED BY <1>f, <2>1, <2>2 DEF AfterFailure
  <1>1. ASSUME Tick PROVE TypeOK'
    BY <1>0, <1>1 DEF Tick, TypeOK, outside
  <1>2. ASSUME NEW i \in Instances, Rebind(i) PROVE TypeOK'
    BY <1>0, <1>2 DEF Rebind, TypeOK, outside
  <1>3. ASSUME NEW e \in Events, Enqueue(e) PROVE TypeOK'
    <2>1. [row[e] EXCEPT !.state = "pending", !.next = now, !.created = now] \in Rows
      BY <1>0, RowValues, SweptType
    <2>2. row' \in [Events -> Rows]
      BY <2>1, <1>0, <1>3 DEF Enqueue
    <2> QED BY <2>2, <1>0, <1>3 DEF Enqueue, TypeOK, outside
  <1>4. ASSUME NEW e \in Events, Take(e) PROVE TypeOK'
    BY <1>0, <1>4 DEF Take, TypeOK
  <1>5. ASSUME NEW p \in Procs, TakeHint(p) PROVE TypeOK'
    <2>1. CASE ready[p] = <<>>
      <3>1. GoWith(p, Asleep) /\ UNCHANGED <<now, row, binding, outside, faults, ready>>
        BY <1>5, <2>1 DEF TakeHint
      <3> QED BY <3>1, <1>a, <1>r, <1>0, GoWithType, AsleepType
    <2>2. CASE ready[p] # <<>>
      <3>1. ready[p] \in Seq(Instances) /\ Head(ready[p]) \in Instances
              /\ Tail(ready[p]) \in Seq(Instances)
        BY <1>r, <2>2
      <3>2. [at[p] EXCEPT !.pc = "boundary", !.inst = Head(ready[p])] \in Drainers
        <4>1. ASSUME NEW i \in Instances
              PROVE  [at[p] EXCEPT !.pc = "boundary", !.inst = i] \in Drainers
          BY <1>0, StageNames DEF Drainers
        <4> QED BY <3>1, <4>1
      <3>3. at' \in [Procs -> Drainers]
        BY <3>2, <2>2, <1>5, <1>0, GoWithType DEF TakeHint
      <3>4. ready' \in [Procs -> Seq(Instances)] /\ UNCHANGED <<now, row, binding, outside, faults>>
        BY <3>1, <1>r, <2>2, <1>5 DEF TakeHint
      <3> QED BY <3>3, <3>4, <1>a, <1>r, <1>0
    <2> QED BY <2>1, <2>2
  <1>6. ASSUME NEW p \in Procs, Boundary(p) PROVE TypeOK'
    <2>1. at[p].inst \in Instances
      BY <1>6, Working DEF Boundary
    <2>2. binding[at[p].inst] \in Bindings
      BY <2>1, <1>0 DEF TypeOK
    <2>3. /\ [at[p] EXCEPT !.pc = "sweep", !.clock = now] \in Drainers
          /\ [at[p] EXCEPT !.pc = "unbind", !.clock = now] \in Drainers
      BY <1>0, StageNames DEF Drainers
    <2>4. \E d \in Drainers : GoWith(p, d)
      BY <2>2, <2>3, <1>6, AsleepType DEF Boundary, Bindings
    <2>5. at' \in [Procs -> Drainers]
      BY <2>4, <1>0, GoWithType
    <2> QED BY <2>5, <1>a, <1>r, <1>0, <1>6 DEF Boundary
  <1>7. ASSUME NEW p \in Procs, Unbind(p) PROVE TypeOK'
    <2>1. \A e \in Events : [row[e] EXCEPT !.state = "binding_unavailable"] \in Rows
      BY <1>0, SweptType
    <2>2. row' \in [Events -> Rows]
      BY <2>1, <1>0, <1>7 DEF Unbind
    <2>3. at' \in [Procs -> Drainers]
      BY <1>0, <1>7, AsleepType, GoWithType DEF Unbind
    <2> QED BY <2>2, <2>3, <1>a, <1>r, <1>7 DEF Unbind
  <1>8. ASSUME NEW p \in Procs, Sweep(p) PROVE TypeOK'
    <2>1. \A e \in Events :
            [row[e] EXCEPT !.state = "quarantined", !.token = NoProc, !.until = 0] \in Rows
      BY <1>0, SweptType
    <2>2. row' \in [Events -> Rows]
      BY <2>1, <1>0, <1>8 DEF Sweep
    <2>3. [at[p] EXCEPT !.pc = "find", !.clock = now] \in Drainers
      BY <1>0, StageNames DEF Drainers
    <2>4. at' \in [Procs -> Drainers]
      BY <2>3, <1>0, <1>8, GoWithType DEF Sweep, Swept
    <2> QED BY <2>2, <2>4, <1>a, <1>r, <1>8 DEF Sweep
  <1>9. ASSUME NEW p \in Procs, Find(p) PROVE TypeOK'
    <2>1. ASSUME NEW e \in Events, NEW s \in Stages
          PROVE  [at[p] EXCEPT !.pc = s, !.event = e, !.seen = row[e].attempts,
                               !.asked = now] \in Drainers
      <3>1. row[e].attempts \in 0 .. MaxAttempts
        BY <1>0, RowValues
      <3> QED BY <3>1, <1>0 DEF Drainers
    <2>2. \E d \in Drainers : GoWith(p, d)
      <3>1. CASE GoWith(p, Looping)
        BY <3>1, AsleepType
      <3>2. CASE ~ GoWith(p, Looping)
        <4>1. PICK e \in Events :
                GoWith(p, [at[p] EXCEPT !.pc = IF e \in Readable THEN "claim" ELSE "discard",
                                        !.event = e, !.seen = row[e].attempts,
                                        !.asked = now])
          BY <1>9, <3>2 DEF Find
        <4>2. (IF e \in Readable THEN "claim" ELSE "discard") \in Stages
          BY StageNames
        <4> QED BY <4>1, <4>2, <2>1
      <3> QED BY <3>1, <3>2
    <2>3. at' \in [Procs -> Drainers]
      BY <2>2, <1>0, GoWithType
    <2> QED BY <2>3, <1>a, <1>r, <1>0, <1>9 DEF Find
  <1>10. ASSUME NEW p \in Procs, Discard(p) PROVE TypeOK'
    <2>1. at[p].event \in Events
      BY <1>10, Working DEF Discard
    <2>2. [row[at[p].event] EXCEPT !.state = "unsupported"] \in Rows
      BY <2>1, <1>0, SweptType
    <2>3. row' \in [Events -> Rows]
      BY <2>2, <1>0, <1>10 DEF Discard
    <2> QED BY <2>3, <1>a, <1>r, <1>s, <1>10 DEF Discard
  <1>11. ASSUME NEW p \in Procs, Claim(p) PROVE TypeOK'
    <2>1. CASE Eligible(at[p].event, at[p].inst, at[p].clock)
      <3>1. at' \in [Procs -> Drainers]
        BY <2>1, <1>11, <1>0, MoveType, StageNames DEF Claim
      <3> QED BY <3>1, <2>1, <1>l, <1>a, <1>r, <1>11 DEF Claim
    <2>2. CASE ~ Eligible(at[p].event, at[p].inst, at[p].clock)
      BY <2>2, <1>s, <1>a, <1>r, <1>0, <1>11 DEF Claim
    <2> QED BY <2>1, <2>2
  <1>12. ASSUME NEW p \in Procs, Post(p) PROVE TypeOK'
    <2>1. GoTo(p, "waiting") \/ Answered(p, "releasing")
      BY <1>12 DEF Post
    <2>2. at' \in [Procs -> Drainers]
      BY <2>1, <1>0, MoveType, StageNames
    <2>3. at[p].event \in Events
      BY <1>12, Working DEF Post, Holding
    <2>4. posts' \in [Events -> Nat]
      BY <2>3, <1>0, <1>12 DEF Post, TypeOK
    <2> QED BY <2>2, <2>4, <1>0, <1>12 DEF Post, TypeOK
  <1>13. ASSUME NEW p \in Procs, Response(p) PROVE TypeOK'
    <2>1. at' \in [Procs -> Drainers]
      BY <1>0, <1>13, MoveType, StageNames DEF Response
    <2> QED BY <2>1, <1>a, <1>r, <1>0, <1>13 DEF Response
  <1>14. ASSUME NEW p \in Procs, Settle(p) PROVE TypeOK'
    <2>1. at[p].pc \in Holding
      BY <1>14 DEF Settle, Holding
    <2>2. row' \in [Events -> Rows]
      BY <2>1, <1>0, <1>m, <1>14 DEF Settle
    <2> QED BY <2>1, <2>2, <1>s, <1>a, <1>r, <1>14 DEF Settle
  <1>15. ASSUME NEW p \in Procs, Release(p) PROVE TypeOK'
    <2>1. at[p].pc \in Holding
      BY <1>15 DEF Release, Holding
    <2>2. row' \in [Events -> Rows]
      BY <2>1, <1>0, <1>m, <1>15 DEF Release
    <2> QED BY <2>1, <2>2, <1>s, <1>a, <1>r, <1>15 DEF Release
  <1>16. ASSUME NEW p \in Procs, Poll(p) \/ WakeOutbox(p) PROVE TypeOK'
    <2>1. PICK s \in Stages : at' = [at EXCEPT ![p].pc = s]
      BY <1>0, <1>16, WakeStep
    <2>2. at' \in [Procs -> Drainers]
      BY <2>1, <1>0, MoveType DEF GoTo
    <2> QED BY <2>2, <1>0, <1>16, <1>a, <1>r, WakeStep
  <1>17. ASSUME NEW p \in Procs, Fails(p) PROVE TypeOK'
    BY <1>17, <1>f, <1>a, <1>r, <1>0 DEF Fails
  <1>18. ASSUME NEW p \in Procs, ReplyLost(p) PROVE TypeOK'
    <2>1. row' \in [Events -> Rows]
      BY <1>18, <1>l, <1>m DEF ReplyLost, Holding
    <2> QED BY <2>1, <1>18, <1>f, <1>a, <1>r DEF ReplyLost
  <1>19. ASSUME NEW p \in Procs, Crash(p) PROVE TypeOK'
    <2>1. at' \in [Procs -> Drainers]
      BY <1>0, <1>19, AsleepType, GoWithType DEF Crash
    <2>2. ready' \in [Procs -> Seq(Instances)]
      BY <1>r, <1>19 DEF Crash
    <2> QED BY <2>1, <2>2, <1>a, <1>r, <1>0, <1>19 DEF Crash
  <1> QED BY <1>u, <1>1, <1>2, <1>3, <1>4, <1>5, <1>6, <1>7, <1>8, <1>9, <1>10, <1>11,
             <1>12, <1>13, <1>14, <1>15, <1>16, <1>17, <1>18, <1>19 DEF Next, Progress

-----------------------------------------------------------------------------
\* What most statements do to the rows: no attempt is counted, no lease given,
\* and only exhausted events are given up.
RowsCalm ==
  \A e \in Events :
    /\ row'[e].attempts = row[e].attempts
    /\ row'[e].token \in {row[e].token, NoProc}
    /\ row'[e].state = "quarantined" =>
         row[e].state = "quarantined" \/ row[e].attempts = MaxAttempts

\* The attempts of a row are a number.
LEMMA RowAttempts == \A r \in Rows : r.attempts \in 0 .. MaxAttempts /\ r.attempts \in Nat
  BY Numbers DEF Rows

\* A drainer that is left alone keeps what it knows.
LEMMA DrainerLeft ==
  ASSUME IndInv, TypeOK', NEW q \in Procs, at'[q] = at[q], now <= now',
         taken \subseteq taken', \A e \in Events : row[e].attempts <= row'[e].attempts
  PROVE  DrainerSound(q)'
  <1>1. DrainerSound(q) /\ TypeOK
    BY DEF IndInv
  <1>2. at[q].clock <= now'
    <2>1. at[q].clock \in Nat /\ now \in Nat /\ now' \in Nat /\ at[q].clock <= now
      BY <1>1, DrainerValues DEF TypeOK, DrainerSound
    <2> QED BY <2>1
  <1>3. ASSUME at[q].pc = "claim" PROVE at[q].seen <= row'[at[q].event].attempts
    <2>1. at[q].event \in Events /\ at[q].seen <= row[at[q].event].attempts
      BY <1>1, <1>3 DEF DrainerSound
    <2>2. /\ at[q].seen \in Nat /\ row[at[q].event].attempts \in Nat
          /\ row'[at[q].event].attempts \in Nat
      <3>1. row[at[q].event] \in Rows /\ row'[at[q].event] \in Rows
        BY <1>1, <2>1 DEF TypeOK
      <3>2. at[q].seen \in 0 .. MaxAttempts
        BY <1>1, DrainerValues
      <3> QED BY <3>1, <3>2, RowAttempts, Numbers
    <2> QED BY <2>1, <2>2
  <1>4. ASSUME at[q].pc \in Holding PROVE at[q].seen + 1 <= row'[at[q].event].attempts
    <2>1. at[q].event \in Events /\ at[q].seen + 1 <= row[at[q].event].attempts
      BY <1>1, <1>4 DEF DrainerSound
    <2>2. /\ at[q].seen \in Nat /\ row[at[q].event].attempts \in Nat
          /\ row'[at[q].event].attempts \in Nat
      <3>1. row[at[q].event] \in Rows /\ row'[at[q].event] \in Rows
        BY <1>1, <2>1 DEF TypeOK
      <3>2. at[q].seen \in 0 .. MaxAttempts
        BY <1>1, DrainerValues
      <3> QED BY <3>1, <3>2, RowAttempts, Numbers
    <2> QED BY <2>1, <2>2
  <1> QED BY <1>1, <1>2, <1>3, <1>4 DEF DrainerSound

\* Only finitely many drainers are about to post an event.
LEMMA SendingFinite ==
  ASSUME NEW e \in Events
  PROVE  /\ IsFiniteSet(Sending(e)) /\ Cardinality(Sending(e)) \in Nat
         /\ IsFiniteSet(Sending(e)') /\ Cardinality(Sending(e)') \in Nat
  BY OutboxConstants, FS_Subset, FS_CardinalityType DEF Sending

\* A row that keeps its attempts stays sound when nobody new is about to post.
LEMMA RowLeft ==
  ASSUME IndInv, TypeOK', RowsCalm, posts' = posts, NEW e \in Events,
         Sending(e)' \subseteq Sending(e)
  PROVE  RowSound(e)'
  <1>1. RowSound(e) /\ TypeOK
    BY DEF IndInv
  <1>2. Cardinality(Sending(e)') <= Cardinality(Sending(e))
    BY SendingFinite, FS_Subset
  <1>3. posts[e] + Cardinality(Sending(e)') <= row[e].attempts
    <2>1. posts[e] \in Nat /\ row[e].attempts \in Nat
      BY <1>1, RowValues DEF TypeOK
    <2>2. posts[e] + Cardinality(Sending(e)) <= row[e].attempts
      BY <1>1 DEF RowSound
    <2> QED BY <1>2, <2>1, <2>2, SendingFinite
  <1> QED BY <1>1, <1>3 DEF RowSound, RowsCalm

\* A step of p that does not end about to post, on calm rows.
LEMMA CalmStep ==
  ASSUME IndInv, TypeOK', NEW p \in Procs, \A q \in Procs \ {p} : at'[q] = at[q],
         DrainerSound(p)', at'[p].pc # "claimed",
         UNCHANGED <<now, posts, taken>>, RowsCalm
  PROVE  IndInv'
  <1>1. now <= now' /\ \A e \in Events : row[e].attempts <= row'[e].attempts
    BY RowValues DEF RowsCalm, IndInv, TypeOK
  <1>2. ASSUME NEW q \in Procs PROVE DrainerSound(q)'
    BY <1>1, DrainerLeft
  <1>3. ASSUME NEW e \in Events PROVE Sending(e)' \subseteq Sending(e)
    BY DEF Sending
  <1>4. ASSUME NEW e \in Events PROVE RowSound(e)'
    BY <1>3, RowLeft
  <1> QED BY <1>2, <1>4 DEF IndInv

\* A step of nobody, on calm rows.
LEMMA StillStep ==
  ASSUME IndInv, TypeOK', at' = at, now <= now', taken \subseteq taken', posts' = posts,
         RowsCalm
  PROVE  IndInv'
  <1>1. \A e \in Events : row[e].attempts <= row'[e].attempts
    BY RowValues DEF RowsCalm, IndInv, TypeOK
  <1>2. ASSUME NEW q \in Procs PROVE DrainerSound(q)'
    BY <1>1, DrainerLeft
  <1>3. ASSUME NEW e \in Events PROVE Sending(e)' \subseteq Sending(e)
    BY DEF Sending
  <1>4. ASSUME NEW e \in Events PROVE RowSound(e)'
    BY <1>3, RowLeft
  <1> QED BY <1>2, <1>4 DEF IndInv

\* A claim counts the attempt that its drainer may now post.
LEMMA LeasedStep ==
  ASSUME IndInv, TypeOK', NEW p \in Procs, at[p].pc = "claim", row' = Leased(p),
         NEW f \in Events, at[p].event = f,
         \A q \in Procs \ {p} : at'[q] = at[q], DrainerSound(p)',
         at'[p].pc = "claimed" => at'[p].event = f,
         UNCHANGED <<now, posts, taken>>
  PROVE  IndInv'
  <1>1. f \in Events /\ f \in Readable /\ TypeOK
    BY Working DEF IndInv, DrainerSound
  <1>2. /\ row'[f].attempts = row[f].attempts + 1 /\ row'[f].token = p
        /\ row'[f].state = row[f].state
        /\ \A e \in Events \ {f} : row'[e] = row[e]
    <2>1. row[f] \in Rows /\ row \in [Events -> Rows]
      BY <1>1, RowValues DEF TypeOK
    <2> QED BY <1>1, <2>1 DEF Leased, Rows
  <1>3. now <= now' /\ \A e \in Events : row[e].attempts <= row'[e].attempts
    <2>1. ASSUME NEW e \in Events PROVE row[e].attempts \in Nat
      BY <1>1, RowValues
    <2>2. ASSUME NEW e \in Events PROVE row[e].attempts <= row'[e].attempts
      <3>1. CASE e = f
        BY <1>2, <2>1, <3>1
      <3>2. CASE e # f
        BY <1>2, <2>1, <3>2
      <3> QED BY <3>1, <3>2
    <2> QED BY <2>2, <1>1 DEF TypeOK
  <1>4. ASSUME NEW q \in Procs PROVE DrainerSound(q)'
    BY <1>3, DrainerLeft
  <1>5. ASSUME NEW e \in Events, e # f PROVE RowSound(e)'
    <2>1. Sending(e)' \subseteq Sending(e)
      BY <1>5 DEF Sending
    <2>2. Cardinality(Sending(e)') <= Cardinality(Sending(e))
      BY <2>1, SendingFinite, FS_Subset
    <2>3. RowSound(e) /\ posts[e] \in Nat /\ row[e].attempts \in Nat /\ row'[e] = row[e]
      BY <1>1, <1>2, <1>5, RowValues DEF IndInv, TypeOK
    <2>4. posts[e] + Cardinality(Sending(e)') <= row[e].attempts
      BY <2>2, <2>3, SendingFinite DEF RowSound
    <2> QED BY <2>3, <2>4 DEF RowSound
  <1>6. RowSound(f)'
    <2>1. Sending(f)' \subseteq Sending(f) \cup {p}
      BY DEF Sending
    <2>2. /\ IsFiniteSet(Sending(f) \cup {p})
          /\ Cardinality(Sending(f) \cup {p}) <= Cardinality(Sending(f)) + 1
      <3>1. IsFiniteSet(Sending(f)) /\ Cardinality(Sending(f)) \in Nat
        BY SendingFinite
      <3>2. /\ IsFiniteSet(Sending(f) \cup {p})
            /\ Cardinality(Sending(f) \cup {p}) =
                 IF p \in Sending(f) THEN Cardinality(Sending(f))
                 ELSE Cardinality(Sending(f)) + 1
        BY <3>1, FS_AddElement, Zenon
      <3> QED BY <3>1, <3>2
    <2>3. /\ Cardinality(Sending(f) \cup {p}) \in Nat
          /\ Cardinality(Sending(f)') <= Cardinality(Sending(f) \cup {p})
      BY <2>1, <2>2, FS_Subset, FS_CardinalityType
    <2>4. RowSound(f) /\ posts[f] \in Nat /\ row[f].attempts \in 0 .. MaxAttempts
      BY <1>1, RowValues DEF IndInv, TypeOK
    <2>5. posts[f] + Cardinality(Sending(f)') <= row[f].attempts + 1
      BY <1>1, <2>2, <2>3, <2>4, SendingFinite DEF RowSound
    <2>6. row'[f].attempts \in 0 .. MaxAttempts
      BY <1>1 DEF TypeOK, Rows
    <2>7. row[f].state # "quarantined"
      <3>1. row[f].attempts + 1 <= MaxAttempts
        BY <2>6, <1>2, Numbers
      <3> QED BY <3>1, <2>4, Numbers DEF RowSound
    <2> QED BY <1>1, <1>2, <2>5, <2>7 DEF RowSound
  <1> QED BY <1>4, <1>5, <1>6 DEF IndInv

\* Posting moves one from those about to post to the posts.
LEMMA PostStep ==
  ASSUME IndInv, TypeOK', NEW p \in Procs, Post(p), GoTo(p, "waiting"),
         posts' = [posts EXCEPT ![at[p].event] = @ + 1], NEW f \in Events, at[p].event = f
  PROVE  IndInv'
  <1>1. TypeOK /\ at[p] \in Drainers /\ at \in [Procs -> Drainers]
          /\ at[p].pc = "claimed"
    BY DrainerValues DEF IndInv, TypeOK, Post
  <1>2. /\ at'[p] = [at[p] EXCEPT !.pc = "waiting"]
        /\ \A q \in Procs \ {p} : at'[q] = at[q]
        /\ UNCHANGED <<now, row, taken>>
        /\ posts' = [posts EXCEPT ![f] = @ + 1]
    BY <1>1 DEF Post, GoTo
  <1>3. /\ at'[p].pc = "waiting" /\ at'[p].event = f /\ at'[p].inst = at[p].inst
        /\ at'[p].clock = at[p].clock /\ at'[p].seen = at[p].seen
    BY <1>1, <1>2 DEF Drainers
  <1>4. now <= now' /\ \A e \in Events : row[e].attempts <= row'[e].attempts
    BY <1>1, <1>2, RowValues DEF TypeOK
  <1>5. ASSUME NEW q \in Procs PROVE DrainerSound(q)'
    <2>1. CASE q = p
      BY <2>1, <1>1, <1>2, <1>3 DEF IndInv, DrainerSound, Holding
    <2>2. CASE q # p
      BY <2>2, <1>2, <1>4, DrainerLeft
    <2> QED BY <2>1, <2>2
  <1>6. ASSUME NEW e \in Events PROVE RowSound(e)'
    <2>1. RowSound(e) /\ posts[e] \in Nat /\ row[e].attempts \in Nat
      BY <1>1, RowValues DEF IndInv, TypeOK
    <2>2. posts'[e] + Cardinality(Sending(e)') <= row[e].attempts
      <3>1. CASE e # f
        <4>1. Sending(e)' \subseteq Sending(e) /\ posts'[e] = posts[e]
          BY <3>1, <1>1, <1>2, <1>3 DEF Sending, TypeOK
        <4>2. Cardinality(Sending(e)') <= Cardinality(Sending(e))
          BY <4>1, SendingFinite, FS_Subset
        <4> QED BY <4>1, <4>2, <2>1, SendingFinite DEF RowSound
      <3>2. CASE e = f
        <4>1. /\ Sending(e)' \subseteq Sending(e) \ {p} /\ p \in Sending(e)
              /\ posts'[e] = posts[e] + 1
          BY <3>2, <1>1, <1>2, <1>3 DEF Sending, TypeOK
        <4>2. IsFiniteSet(Sending(e)) /\ Cardinality(Sending(e)) \in Nat
          BY SendingFinite
        <4>3. /\ IsFiniteSet(Sending(e) \ {p})
              /\ Cardinality(Sending(e) \ {p}) =
                   IF p \in Sending(e) THEN Cardinality(Sending(e)) - 1
                   ELSE Cardinality(Sending(e))
          BY <4>2, FS_RemoveElement, Zenon
        <4>4. /\ Cardinality(Sending(e) \ {p}) \in Nat
              /\ Cardinality(Sending(e)') <= Cardinality(Sending(e) \ {p})
          BY <4>1, <4>3, FS_Subset, FS_CardinalityType
        <4> QED BY <4>1, <4>2, <4>3, <4>4, <2>1, SendingFinite DEF RowSound
      <3> QED BY <3>1, <3>2
    <2> QED BY <2>1, <2>2, <1>2 DEF RowSound
  <1> QED BY <1>5, <1>6 DEF IndInv

\* Where a drainer goes.
LEMMA Went ==
  ASSUME TypeOK, NEW p \in Procs, NEW d \in Drainers, GoWith(p, d)
  PROVE  at'[p] = d /\ \A q \in Procs \ {p} : at'[q] = at[q]
  BY DEF GoWith, TypeOK

\* Between drains, a drainer knows nothing.
LEMMA LoopingSound ==
  ASSUME TypeOK', NEW p \in Procs, at'[p] \in {Asleep, Looping}
  PROVE  DrainerSound(p)' /\ at'[p].pc # "claimed"
  <1>1. at'[p].pc \in {"idle", "loop"} /\ at'[p].clock = 0
    BY DEF Asleep, Looping
  <1>2. 0 <= now'
    BY DEF TypeOK
  <1> QED BY <1>1, <1>2 DEF DrainerSound, Holding

\* Nor does it at the start of a turn.
LEMMA NextTurnSound ==
  ASSUME IndInv, TypeOK', NEW p \in Procs, at[p].inst \in Instances, NextTurn(p),
         now' = now
  PROVE  /\ DrainerSound(p)' /\ at'[p].pc # "claimed"
         /\ \A q \in Procs \ {p} : at'[q] = at[q]
  <1>1. TypeOK /\ at \in [Procs -> Drainers] /\ now' \in Nat
    BY DEF IndInv, TypeOK
  <1>2. \A q \in Procs \ {p} : at'[q] = at[q]
    BY <1>1 DEF NextTurn, GoWith
  <1>3. CASE at'[p] = Looping
    BY <1>2, <1>3, LoopingSound
  <1>4. CASE at'[p] = [Looping EXCEPT !.pc = "find", !.inst = at[p].inst,
                                      !.turn = at[p].turn + 1, !.clock = now]
    <2>1. at'[p].pc = "find" /\ at'[p].inst = at[p].inst /\ at'[p].clock = now
      BY <1>4 DEF Looping, Asleep
    <2> QED BY <1>1, <1>2, <2>1 DEF DrainerSound, Holding
  <1> QED BY <1>1, <1>3, <1>4 DEF NextTurn, GoWith

\* Settling and releasing leave the rows calm: an event is only given up when
\* its drainer saw the last attempt.
LEMMA AsAnsweredCalm ==
  ASSUME IndInv, NEW p \in Procs, at[p].pc \in Holding, row' = AsAnswered(p)
  PROVE  /\ RowsCalm
         /\ row'[at[p].event].state \in {"acknowledged", "unsupported"}
         /\ row'[at[p].event].state = "acknowledged" => at[p].pc # "refusing"
  <1>1. at[p].event \in Events /\ TypeOK
    BY Working DEF IndInv
  <1>2. row[at[p].event] \in Rows /\ row \in [Events -> Rows]
    BY <1>1, RowValues DEF TypeOK
  <1> QED BY <1>1, <1>2 DEF RowsCalm, AsAnswered, Settled, Rows

\* A release leaves the rows calm, too.
LEMMA ReleasedCalm ==
  ASSUME IndInv, NEW p \in Procs, at[p].pc \in Holding, row' = Released(p)
  PROVE  /\ RowsCalm
         /\ row'[at[p].event].state \in {"quarantined", "pending"}
  <1>1. at[p].event \in Events /\ TypeOK
    BY Working DEF IndInv
  <1>2. row[at[p].event] \in Rows /\ row \in [Events -> Rows]
    BY <1>1, RowValues DEF TypeOK
  <1>3. ASSUME at[p].seen + 1 >= MaxAttempts PROVE row[at[p].event].attempts = MaxAttempts
    <2>1. at[p].seen + 1 <= row[at[p].event].attempts
      BY DEF IndInv, DrainerSound
    <2>2. at[p].seen \in 0 .. MaxAttempts /\ row[at[p].event].attempts \in 0 .. MaxAttempts
      BY <1>1, RowValues, DrainerValues
    <2> QED BY <1>3, <2>1, <2>2, Numbers
  <1> DEFINE s == IF at[p].seen + 1 >= MaxAttempts THEN "quarantined" ELSE "pending"
             n == at[p].asked + Backoff[at[p].seen]
             f == at[p].event
  <1>4. row' = [[row EXCEPT ![f] = [row[f] EXCEPT !.state = s, !.token = NoProc, !.until = 0]]
                  EXCEPT ![f].next = n]
    BY DEF Released, Settled
  <1>5. s \in {"quarantined", "pending"} /\ (s = "quarantined" => row[f].attempts = MaxAttempts)
    BY <1>3
  <1> HIDE DEF s, n
  <1>6. /\ row'[f].state = s /\ row'[f].attempts = row[f].attempts /\ row'[f].token = NoProc
        /\ \A e \in Events \ {f} : row'[e] = row[e]
    BY <1>1, <1>2, <1>4 DEF Rows
  <1> QED BY <1>5, <1>6 DEF RowsCalm

\* So does a step that leaves the rows alone.
LEMMA SameRowsCalm == ASSUME row' = row PROVE RowsCalm
  BY DEF RowsCalm

\* Every step keeps the invariant.
LEMMA StepIndInv == IndInv /\ [Next]_vars => IndInv'
  <1> SUFFICES ASSUME IndInv, [Next]_vars PROVE IndInv'
    OBVIOUS
  <1>0. /\ TypeOK /\ at \in [Procs -> Drainers] /\ row \in [Events -> Rows] /\ now \in Nat
        /\ TypeOK'
    BY StepType DEF IndInv, TypeOK
  <1>q. row' = row => RowsCalm
    BY SameRowsCalm
  <1>t. \A p \in Procs : at[p].pc \in Holding \cup {"claim", "discard"} =>
                           at[p].inst \in Instances
    BY Working DEF Holding
  <1>u. ASSUME UNCHANGED vars PROVE IndInv'
    BY <1>0, <1>q, <1>u, StillStep DEF vars, outside
  <1>a. ASSUME NEW p \in Procs, Answered(p, "releasing"), at[p].pc \in Holding,
               UNCHANGED <<now, posts, taken>>, RowsCalm
        PROVE  IndInv'
    <2>1. /\ at'[p] = [at[p] EXCEPT !.pc = "releasing", !.asked = now]
          /\ \A q \in Procs \ {p} : at'[q] = at[q]
      BY <1>a, <1>0 DEF Answered, GoWith
    <2>2. /\ at'[p].pc = "releasing" /\ at'[p].event = at[p].event
          /\ at'[p].inst = at[p].inst /\ at'[p].clock = at[p].clock
          /\ at'[p].seen = at[p].seen
      BY <2>1, <1>0, DrainerValues DEF Drainers
    <2>3. DrainerSound(p)'
      <3>1. DrainerSound(p) /\ at[p].event \in Events /\ at[p].pc # "idle" /\ at[p].pc # "loop"
        BY <1>a, Working DEF IndInv, Holding
      <3> QED BY <3>1, <1>a, <2>2 DEF DrainerSound, Holding, RowsCalm
    <2> QED BY <2>1, <2>2, <2>3, <1>a, <1>0, CalmStep
  <1>l. ASSUME NEW p \in Procs, GoWith(p, Looping) \/ GoWith(p, Asleep),
               UNCHANGED <<now, posts, taken>>, RowsCalm
        PROVE  IndInv'
    BY <1>l, <1>0, Went, AsleepType, LoopingSound, CalmStep
  <1>n. ASSUME NEW p \in Procs, NextTurn(p), at[p].pc \in Holding \cup {"claim", "discard"},
               UNCHANGED <<now, posts, taken>>, RowsCalm
        PROVE  IndInv'
    BY <1>n, <1>t, <1>0, NextTurnSound, CalmStep
  <1>1. ASSUME Tick PROVE IndInv'
    <2>1. now <= now'
      BY <1>1, <1>0 DEF Tick
    <2> QED BY <2>1, <1>0, <1>q, <1>1, StillStep DEF Tick, outside
  <1>2. ASSUME NEW i \in Instances, Rebind(i) PROVE IndInv'
    BY <1>0, <1>q, <1>2, StillStep DEF Rebind, outside
  <1>3. ASSUME NEW e \in Events, Enqueue(e) PROVE IndInv'
    <2>1. RowsCalm
      BY <1>0, <1>3 DEF Enqueue, RowsCalm, Rows
    <2> QED BY <2>1, <1>0, <1>3, StillStep DEF Enqueue, outside
  <1>4. ASSUME NEW e \in Events, Take(e) PROVE IndInv'
    BY <1>0, <1>q, <1>4, StillStep DEF Take
  <1>5. ASSUME NEW p \in Procs, TakeHint(p) PROVE IndInv'
    <2>1. CASE ready[p] = <<>>
      BY <2>1, <1>5, <1>l, <1>q DEF TakeHint, outside
    <2>2. CASE ready[p] # <<>>
      <3>1. /\ at'[p] = [at[p] EXCEPT !.pc = "boundary", !.inst = Head(ready[p])]
            /\ \A q \in Procs \ {p} : at'[q] = at[q]
            /\ UNCHANGED <<now, row, posts, taken>>
        BY <2>2, <1>5, <1>0 DEF TakeHint, GoWith, outside
      <3>2. Head(ready[p]) \in Instances
        BY <2>2, <1>0 DEF TypeOK
      <3>3. /\ at'[p].pc = "boundary" /\ at'[p].inst \in Instances
            /\ at'[p].clock = at[p].clock
        BY <3>1, <3>2, <1>0, DrainerValues DEF Drainers
      <3>4. DrainerSound(p)'
        BY <3>1, <3>3 DEF IndInv, DrainerSound, Holding
      <3> QED BY <3>1, <3>3, <3>4, <1>0, <1>q, CalmStep
    <2> QED BY <2>1, <2>2
  <1>6. ASSUME NEW p \in Procs, Boundary(p) PROVE IndInv'
    <2>1. at[p].inst \in Instances
      BY <1>6, Working DEF Boundary
    <2>2. CASE GoWith(p, Looping)
      BY <2>2, <1>6, <1>l, <1>q DEF Boundary, outside
    <2>3. CASE ~ GoWith(p, Looping)
      <3>1. binding[at[p].inst] \in Bindings
        BY <2>1, <1>0 DEF TypeOK
      <3>2. PICK s \in {"sweep", "unbind"} : GoWith(p, [at[p] EXCEPT !.pc = s, !.clock = now])
        BY <2>3, <3>1, <1>6 DEF Boundary, Bindings
      <3>3. /\ at'[p] = [at[p] EXCEPT !.pc = s, !.clock = now]
            /\ \A q \in Procs \ {p} : at'[q] = at[q]
            /\ UNCHANGED <<now, row, posts, taken>>
        BY <3>2, <1>6, <1>0 DEF Boundary, GoWith, outside
      <3>4. at'[p].pc = s /\ at'[p].inst = at[p].inst /\ at'[p].clock = now
        BY <3>3, <1>0, DrainerValues DEF Drainers
      <3>5. DrainerSound(p)'
        BY <2>1, <3>3, <3>4, <1>0 DEF DrainerSound, Holding
      <3> QED BY <3>3, <3>4, <3>5, <1>0, <1>q, CalmStep
    <2> QED BY <2>2, <2>3
  <1>7. ASSUME NEW p \in Procs, Unbind(p) PROVE IndInv'
    <2>1. RowsCalm
      BY <1>0, <1>7 DEF Unbind, RowsCalm, Rows
    <2> QED BY <2>1, <1>7, <1>l DEF Unbind, outside
  <1>8. ASSUME NEW p \in Procs, Sweep(p) PROVE IndInv'
    <2>1. RowsCalm
      <3>1. ASSUME NEW e \in Events
            PROVE  /\ row'[e].attempts = row[e].attempts
                   /\ row'[e].token \in {row[e].token, NoProc}
                   /\ row'[e].state = "quarantined" =>
                        row[e].state = "quarantined" \/ row[e].attempts >= MaxAttempts
        BY <1>0, <1>8 DEF Sweep, Rows
      <3>2. ASSUME NEW e \in Events, row[e].attempts >= MaxAttempts
            PROVE  row[e].attempts = MaxAttempts
        <4>1. row[e].attempts \in 0 .. MaxAttempts
          BY <1>0, RowValues
        <4> QED BY <4>1, <3>2, Numbers
      <3> QED BY <3>1, <3>2 DEF RowsCalm
    <2>2. /\ at'[p] = [at[p] EXCEPT !.pc = "find", !.clock = now]
          /\ \A q \in Procs \ {p} : at'[q] = at[q]
          /\ UNCHANGED <<now, posts, taken>>
      BY <1>8, <1>0 DEF Sweep, Swept, GoWith, outside
    <2>3. at'[p].pc = "find" /\ at'[p].inst = at[p].inst /\ at'[p].clock = now
      BY <2>2, <1>0, DrainerValues DEF Drainers
    <2>4. DrainerSound(p)'
      <3>1. at[p].inst \in Instances
        BY <1>8, Working DEF Sweep
      <3> QED BY <3>1, <2>2, <2>3, <1>0 DEF DrainerSound, Holding
    <2> QED BY <2>1, <2>2, <2>3, <2>4, <1>0, CalmStep
  <1>9. ASSUME NEW p \in Procs, Find(p) PROVE IndInv'
    <2>1. CASE GoWith(p, Looping)
      BY <2>1, <1>9, <1>l, <1>q DEF Find, outside
    <2>2. CASE ~ GoWith(p, Looping)
      <3>1. PICK e \in Events :
              /\ Eligible(e, at[p].inst, at[p].clock)
              /\ GoWith(p, [at[p] EXCEPT !.pc = IF e \in Readable THEN "claim" ELSE "discard",
                                         !.event = e, !.seen = row[e].attempts, !.asked = now])
        BY <1>9, <2>2 DEF Find
      <3>2. /\ \A q \in Procs \ {p} : at'[q] = at[q]
            /\ UNCHANGED <<now, row, posts, taken>>
        BY <3>1, <1>9, <1>0 DEF Find, GoWith, outside
      <3>3. /\ at'[p].pc = IF e \in Readable THEN "claim" ELSE "discard"
            /\ at'[p].event = e /\ at'[p].seen = row[e].attempts
            /\ at'[p].inst = at[p].inst /\ at'[p].clock = at[p].clock
        BY <3>1, <1>0, DrainerValues DEF GoWith, Drainers
      <3>4. DrainerSound(p)'
        <4>1. at[p].inst \in Instances /\ DrainerSound(p) /\ row[e].attempts \in Nat
          BY <1>9, <1>0, Working, RowValues DEF Find, IndInv
        <4> QED BY <4>1, <3>2, <3>3, <1>0 DEF DrainerSound, Holding
      <3> QED BY <3>2, <3>3, <3>4, <1>0, <1>q, CalmStep
    <2> QED BY <2>1, <2>2
  <1>10. ASSUME NEW p \in Procs, Discard(p) PROVE IndInv'
    <2>1. RowsCalm
      <3>1. at[p].event \in Events
        BY <1>10, Working DEF Discard
      <3> QED BY <3>1, <1>0, <1>10 DEF Discard, RowsCalm, Rows
    <2> QED BY <2>1, <1>10, <1>n DEF Discard, outside
  <1>11. ASSUME NEW p \in Procs, Claim(p) PROVE IndInv'
    <2>1. CASE ~ Eligible(at[p].event, at[p].inst, at[p].clock)
      BY <2>1, <1>11, <1>n, <1>q DEF Claim, outside
    <2>2. CASE Eligible(at[p].event, at[p].inst, at[p].clock)
      <3>1. PICK f \in Events : at[p].event = f
        BY <1>11, Working DEF Claim
      <3>2. /\ at'[p] = [at[p] EXCEPT !.pc = "claimed"]
            /\ \A q \in Procs \ {p} : at'[q] = at[q]
            /\ UNCHANGED <<now, posts, taken>> /\ row' = Leased(p) /\ at[p].pc = "claim"
        BY <2>2, <1>11, <1>0 DEF Claim, GoTo, outside
      <3>3. /\ at'[p].pc = "claimed" /\ at'[p].event = f /\ at'[p].inst = at[p].inst
            /\ at'[p].clock = at[p].clock /\ at'[p].seen = at[p].seen
        BY <3>1, <3>2, <1>0, DrainerValues DEF Drainers
      <3>4. row'[f].attempts = row[f].attempts + 1
        BY <3>1, <3>2, <1>0 DEF Leased, Rows
      <3>5. DrainerSound(p) /\ at[p].inst \in Instances
        BY <3>2, Working DEF IndInv
      <3>6. at[p].seen <= row[f].attempts /\ f \in Readable /\ at[p].clock <= now
        BY <3>1, <3>2, <3>5 DEF DrainerSound
      <3>7. at[p].seen + 1 <= row[f].attempts + 1
        <4>1. at[p].seen \in 0 .. MaxAttempts /\ row[f].attempts \in Nat
          BY <1>0, DrainerValues, RowValues
        <4> QED BY <4>1, <3>6, Numbers
      <3>8. DrainerSound(p)'
        BY <3>2, <3>3, <3>4, <3>5, <3>6, <3>7 DEF DrainerSound, Holding
      <3> QED BY <3>1, <3>2, <3>3, <3>8, <1>0, LeasedStep
    <2> QED BY <2>1, <2>2
  <1>12. ASSUME NEW p \in Procs, Post(p) PROVE IndInv'
    <2>1. PICK f \in Events : at[p].event = f
      BY <1>12, Working DEF Post, Holding
    <2>2. UNCHANGED <<now, taken, row>> /\ at[p].pc \in Holding
      BY <1>12 DEF Post, Holding
    <2> QED BY <2>1, <2>2, <1>a, <1>q, <1>0, <1>12, PostStep DEF Post
  <1>13. ASSUME NEW p \in Procs, Response(p) PROVE IndInv'
    <2>1. PICK s \in {"acknowledging", "refusing", "releasing"} :
            Answered(p, s) /\ (s = "acknowledging" => at[p].event \in taken)
      BY <1>13 DEF Response
    <2>2. /\ at'[p] = [at[p] EXCEPT !.pc = s, !.asked = now]
          /\ \A q \in Procs \ {p} : at'[q] = at[q]
          /\ UNCHANGED <<now, row, posts, taken>>
      BY <2>1, <1>13, <1>0 DEF Response, Answered, GoWith, outside
    <2>3. /\ at'[p].pc = s /\ at'[p].event = at[p].event
          /\ at'[p].inst = at[p].inst /\ at'[p].clock = at[p].clock
          /\ at'[p].seen = at[p].seen
      BY <2>2, <1>0, DrainerValues DEF Drainers
    <2>4. DrainerSound(p)'
      <3>1. DrainerSound(p) /\ at[p].pc = "waiting"
        BY <1>13 DEF IndInv, Response
      <3> QED BY <3>1, <2>1, <2>2, <2>3 DEF DrainerSound, Holding
    <2> QED BY <2>2, <2>3, <2>4, <1>0, <1>q, CalmStep
  <1>14. ASSUME NEW p \in Procs, Settle(p) PROVE IndInv'
    <2>1. at[p].pc \in Holding
      BY <1>14 DEF Settle, Holding
    <2>2. RowsCalm
      BY <2>1, <1>14, <1>q, AsAnsweredCalm DEF Settle
    <2> QED BY <2>1, <2>2, <1>14, <1>n DEF Settle, outside
  <1>15. ASSUME NEW p \in Procs, Release(p) PROVE IndInv'
    <2>1. at[p].pc \in Holding
      BY <1>15 DEF Release, Holding
    <2>2. RowsCalm
      BY <2>1, <1>15, <1>q, ReleasedCalm DEF Release
    <2> QED BY <2>1, <2>2, <1>15, <1>n DEF Release, outside
  <1>16. ASSUME NEW p \in Procs, Poll(p) \/ WakeOutbox(p) PROVE IndInv'
    <2>1. UNCHANGED <<now, row, posts, taken>> /\ RowsCalm
      BY <1>16, <1>0, <1>q, WakeStep DEF outside
    <2>2. PICK s \in Stages : /\ at' = [at EXCEPT ![p].pc = s]
                              /\ s = at[p].pc \/ (at[p].pc = "idle" /\ s = "loop")
      BY <1>0, <1>16, WakeStep
    <2>3. at[p] \in Drainers
      BY <1>0
    <2>4. CASE s = at[p].pc
      <3>1. [at[p] EXCEPT !.pc = s] = at[p]
        BY <2>3, <2>4 DEF Drainers
      <3>2. at' = at
        BY <2>2, <3>1, <1>0
      <3> QED BY <3>2, <2>1, <1>0, StillStep
    <2>5. CASE at[p].pc = "idle" /\ s = "loop"
      <3>1. /\ at'[p].pc = "loop" /\ at'[p].clock = at[p].clock
            /\ \A q \in Procs \ {p} : at'[q] = at[q]
        BY <2>2, <2>3, <2>5, <1>0 DEF Drainers
      <3>2. DrainerSound(p)'
        BY <3>1, <2>1 DEF IndInv, DrainerSound, Holding
      <3> QED BY <3>1, <3>2, <2>1, <1>0, CalmStep
    <2> QED BY <2>2, <2>4, <2>5
  <1>17. ASSUME NEW p \in Procs, Fails(p) PROVE IndInv'
    <2>1. UNCHANGED <<now, row, posts, taken>> /\ AfterFailure(p) /\ RowsCalm
      BY <1>17, <1>q DEF Fails, outside
    <2> QED BY <2>1, <1>a, <1>l DEF AfterFailure, Holding
  <1>18. ASSUME NEW p \in Procs, ReplyLost(p) PROVE IndInv'
    <2>1. UNCHANGED <<now, posts, taken>> /\ AfterFailure(p)
      BY <1>18 DEF ReplyLost, outside
    <2>2. CASE at[p].pc = "claim" /\ row' = Leased(p)
      <3>1. PICK f \in Events : at[p].event = f
        BY <2>2, Working
      <3>2. at'[p] = Looping /\ \A q \in Procs \ {p} : at'[q] = at[q]
        BY <2>1, <2>2, <1>0, Went, AsleepType DEF AfterFailure
      <3>3. DrainerSound(p)' /\ at'[p].pc # "claimed"
        BY <3>2, <1>0, LoopingSound
      <3> QED BY <2>1, <2>2, <3>1, <3>2, <3>3, <1>0, LeasedStep
    <2>3. CASE at[p].pc \in Holding /\ row' = AsAnswered(p)
      <3>1. RowsCalm
        BY <2>3, AsAnsweredCalm
      <3> QED BY <2>1, <2>3, <3>1, <1>a, <1>l DEF AfterFailure, Holding
    <2>4. CASE at[p].pc \in Holding /\ row' = Released(p)
      <3>1. RowsCalm
        BY <2>4, ReleasedCalm
      <3> QED BY <2>1, <2>4, <3>1, <1>a, <1>l DEF AfterFailure, Holding
    <2> QED BY <2>2, <2>3, <2>4, <1>18 DEF ReplyLost, Holding
  <1>19. ASSUME NEW p \in Procs, Crash(p) PROVE IndInv'
    BY <1>19, <1>l, <1>q DEF Crash, outside
  <1> QED BY <1>u, <1>1, <1>2, <1>3, <1>4, <1>5, <1>6, <1>7, <1>8, <1>9, <1>10, <1>11,
             <1>12, <1>13, <1>14, <1>15, <1>16, <1>17, <1>18, <1>19 DEF Next, Progress

-----------------------------------------------------------------------------
\* The invariant holds: no drainer knows more of its event than the row says,
\* and no row has more posts, made or about to be made, than attempts counted.
THEOREM SpecIndInv == Spec => []IndInv
  BY InitIndInv, StepIndInv, PTL DEF Spec

\* Every state is of its type.
THEOREM TypeCorrect == Spec => []TypeOK
  <1>1. IndInv => TypeOK
    BY DEF IndInv
  <1> QED BY <1>1, SpecIndInv, PTL

\* Deliveries stay within the counted attempts, and these within MAX_ATTEMPTS,
\* whatever processes, crashes and lost replies there are.
THEOREM DeliveriesBounded == Spec => []PostsBounded
  <1>1. IndInv => PostsBounded
    <2> SUFFICES ASSUME IndInv, NEW e \in Events
                 PROVE  posts[e] <= row[e].attempts /\ row[e].attempts <= MaxAttempts
      BY DEF PostsBounded
    <2>1. /\ posts[e] \in Nat /\ row[e].attempts \in 0 .. MaxAttempts
          /\ row[e].attempts \in Nat /\ posts[e] + Cardinality(Sending(e)) <= row[e].attempts
      BY RowValues DEF IndInv, TypeOK, RowSound
    <2> QED BY <2>1, SendingFinite, Numbers
  <1> QED BY <1>1, SpecIndInv, PTL

\* Only exhausted events are given up.
THEOREM GivenUpSpent == Spec => []GivenUpExhausted
  <1>1. IndInv => GivenUpExhausted
    BY DEF IndInv, RowSound, GivenUpExhausted
  <1> QED BY <1>1, SpecIndInv, PTL

-----------------------------------------------------------------------------
\* Nobody's statement counts a running lease as expired: clocks only go back.
LEMMA HeldSeen ==
  ASSUME IndInv, NEW e \in Events, Held(e), NEW p \in Procs
  PROVE  ~ Unleased(e, at[p].clock)
  <1>1. /\ row[e].until \in Nat /\ at[p].clock \in Nat /\ now \in Nat
        /\ at[p].clock <= now /\ now < row[e].until
    BY RowValues, DrainerValues DEF IndInv, DrainerSound, Held, TypeOK
  <1> QED BY <1>1 DEF Unleased

\* Whoever changes a leased row is its holder.
LEMMA LeaseStep ==
  ASSUME IndInv, Next, NEW e \in Events, Held(e), row'[e] # row[e]
  PROVE  \E p \in Procs : /\ row[e].token = p /\ at[p].event = e
                          /\ at[p].pc \in {"acknowledging", "refusing", "releasing"}
                          /\ at'[p] # at[p]
  <1>0. TypeOK /\ at \in [Procs -> Drainers] /\ row \in [Events -> Rows]
    BY DEF IndInv, TypeOK
  <1>h. row[e].state = "pending" /\ row[e].token # NoProc /\ e \in Readable
    BY DEF Held, IndInv, RowSound
  <1>n. ASSUME NEW p \in Procs, NextTurn(p), at[p].pc \in Holding
        PROVE  at'[p] # at[p]
    <2>1. at[p].inst \in Instances
      BY <1>n, Working DEF Holding
    <2>2. at'[p].pc \in {"find", "loop"}
      BY <1>n, <1>0, <2>1, NextTurnType
    <2> QED BY <1>n, <2>2 DEF Holding
  <1>f. ASSUME NEW p \in Procs, AfterFailure(p), at[p].pc \in Holding
        PROVE  at'[p] # at[p]
    <2>1. CASE at[p].pc \in {"acknowledging", "refusing"}
      <3>1. at'[p] = [at[p] EXCEPT !.pc = "releasing", !.asked = now]
        BY <1>f, <1>0, <2>1 DEF AfterFailure, Answered, GoWith
      <3>2. at'[p].pc = "releasing"
        BY <3>1, <1>0, DrainerValues DEF Drainers
      <3> QED BY <2>1, <3>2
    <2>2. CASE at[p].pc \notin {"acknowledging", "refusing"}
      <3>1. at'[p] = Looping
        BY <1>f, <1>0, <2>2 DEF AfterFailure, GoWith
      <3> QED BY <3>1, <1>f DEF Looping, Asleep, Holding
    <2> QED BY <2>1, <2>2
  <1>s. ASSUME NEW p \in Procs, at[p].pc \in Holding,
               row' = AsAnswered(p) \/ row' = Released(p)
        PROVE  at[p].event = e
    <2>1. at[p].event \in Events
      BY <1>s, Working
    <2> QED BY <2>1, <1>s, <1>0 DEF AsAnswered, Released, Settled
  <1>1. CASE UNCHANGED row
    BY <1>1
  <1>2. ASSUME NEW f \in Events, Enqueue(f) PROVE FALSE
    BY <1>2, <1>h, <1>0 DEF Enqueue
  <1>3. ASSUME NEW p \in Procs, Unbind(p) \/ Sweep(p) PROVE FALSE
    BY <1>3, <1>0, HeldSeen DEF Unbind, Sweep
  <1>4. ASSUME NEW p \in Procs, Discard(p) PROVE FALSE
    <2>1. at[p].event \in Events \ Readable
      BY <1>4, Working DEF Discard, IndInv, DrainerSound
    <2> QED BY <2>1, <1>4, <1>h, <1>0 DEF Discard
  <1>5. ASSUME NEW p \in Procs, at[p].pc = "claim", row' = Leased(p),
               Eligible(at[p].event, at[p].inst, at[p].clock)
        PROVE  FALSE
    <2>1. at[p].event \in Events
      BY <1>5, Working
    <2>2. at[p].event = e
      BY <2>1, <1>5, <1>0 DEF Leased
    <2> QED BY <2>2, <1>5, HeldSeen DEF Eligible
  <1>6. ASSUME NEW p \in Procs, Claim(p) PROVE UNCHANGED row
    BY <1>6, <1>5 DEF Claim
  <1>7. ASSUME NEW p \in Procs, Settle(p) \/ Release(p)
        PROVE  /\ row[e].token = p /\ at[p].event = e
               /\ at[p].pc \in {"acknowledging", "refusing", "releasing"} /\ at'[p] # at[p]
    <2>1. /\ at[p].pc \in {"acknowledging", "refusing", "releasing"} /\ NextTurn(p) /\ Mine(p)
          /\ row' = AsAnswered(p) \/ row' = Released(p)
      BY <1>7 DEF Settle, Release
    <2> QED BY <2>1, <1>n, <1>s DEF Mine, Holding
  <1>8. ASSUME NEW p \in Procs, ReplyLost(p)
        PROVE  /\ row[e].token = p /\ at[p].event = e
               /\ at[p].pc \in {"acknowledging", "refusing", "releasing"} /\ at'[p] # at[p]
    <2>1. /\ at[p].pc \in {"acknowledging", "refusing", "releasing"} /\ AfterFailure(p)
          /\ Mine(p)
          /\ row' = AsAnswered(p) \/ row' = Released(p)
      BY <1>8, <1>5 DEF ReplyLost
    <2> QED BY <2>1, <1>f, <1>s DEF Mine, Holding
  <1>9. ASSUME NEW p \in Procs,
               \/ TakeHint(p) \/ Boundary(p) \/ Find(p) \/ Post(p) \/ Response(p)
               \/ Poll(p) \/ WakeOutbox(p) \/ Fails(p) \/ Crash(p)
        PROVE  UNCHANGED row
    BY <1>9, <1>0, WakeStep DEF TakeHint, Boundary, Find, Post, Response, Fails, Crash
  <1>10. ASSUME Tick \/ (\E i \in Instances : Rebind(i)) \/ (\E f \in Events : Take(f))
         PROVE  UNCHANGED row
    BY <1>10 DEF Tick, Rebind, Take
  <1> QED BY <1>1, <1>2, <1>3, <1>4, <1>6, <1>7, <1>8, <1>9, <1>10 DEF Next, Progress

\* A running lease is only ended by its holder's own settlement or release.
THEOREM LeasesRespected == Spec => LeaseRespected
  <1>1. IndInv /\ [Next]_vars =>
          [\A e \in Events : Held(e) /\ row'[e] # row[e] =>
             \E p \in Procs : /\ row[e].token = p /\ at[p].event = e
                              /\ at[p].pc \in {"acknowledging", "refusing", "releasing"}
                              /\ at'[p] # at[p]]_vars
    BY LeaseStep
  <1> QED BY <1>1, SpecIndInv, PTL DEF Spec, LeaseRespected

-----------------------------------------------------------------------------
\* What the states of a row stand for.
LEMMA Fates ==
  /\ Fate("absent") = "absent" /\ Fate("pending") = "open"
  /\ Fate("acknowledged") = "acknowledged" /\ Fate("unsupported") = "refused"
  /\ Fate("quarantined") = "given_up" /\ Fate("binding_unavailable") = "unbound"
  BY DEF Fate

\* Rows that a statement left, or settled as their drainers may.
RowsSettle ==
  \A e \in Events :
    /\ row'[e].attempts = row[e].attempts
    /\ row'[e].state # row[e].state =>
         /\ row[e].state = "pending"
         /\ row'[e].state \in {"acknowledged", "unsupported", "quarantined",
                               "binding_unavailable"}
         /\ row'[e].state = "acknowledged" => e \in taken
         /\ row'[e].state = "quarantined" => row[e].attempts = MaxAttempts

\* A statement that settles some rows is a settlement of the promise.
LEMMA SettlesAsPromised ==
  ASSUME TypeOK, TypeOK', RowsSettle, UNCHANGED outside
  PROVE  Promise!Settle
  <1>1. ASSUME NEW e \in Events
        PROVE  /\ Fate(row'[e].state) \in Promise!Settlements \cup {"absent", "open"}
               /\ Fate(row'[e].state) # Fate(row[e].state) =>
                    /\ Fate(row[e].state) = "open"
                    /\ Fate(row'[e].state) \in Promise!Settlements
                    /\ Fate(row'[e].state) = "acknowledged" => e \in taken
                    /\ Fate(row'[e].state) = "given_up" => row[e].attempts = MaxAttempts
    <2>1. row'[e].state \in RowStates /\ row[e].state \in RowStates
      BY DEF TypeOK, Rows
    <2> QED BY <2>1, Fates DEF RowsSettle, RowStates, Promise!Settlements
  <1>2. [e \in Events |-> row[e].attempts]' = [e \in Events |-> row[e].attempts]
    BY DEF RowsSettle
  <1> QED BY <1>1, <1>2 DEF Promise!Settle, Promise!Settles, outside

\* A claim is an attempt of the promise.
LEMMA LeasedPromise ==
  ASSUME TypeOK, NEW p \in Procs, NEW f \in Events, at[p].event = f, row' = Leased(p),
         Eligible(f, at[p].inst, at[p].clock), UNCHANGED outside
  PROVE  Promise!Attempt(f)
  <1>1. row[f] \in Rows /\ row \in [Events -> Rows]
    BY RowValues DEF TypeOK
  <1>2. /\ row'[f].attempts = row[f].attempts + 1 /\ row'[f].state = row[f].state
        /\ \A e \in Events \ {f} : row'[e] = row[e]
    BY <1>1 DEF Leased, Rows
  <1>3. Fate(row[f].state) = "open" /\ row[f].attempts < MaxAttempts
    BY Fates DEF Eligible
  <1>4. [e \in Events |-> row'[e].attempts] =
          [[e \in Events |-> row[e].attempts] EXCEPT ![f] = @ + 1]
    BY <1>2
  <1>5. [e \in Events |-> Fate(row'[e].state)] = [e \in Events |-> Fate(row[e].state)]
    BY <1>2
  <1> QED BY <1>3, <1>4, <1>5 DEF Promise!Attempt, outside

\* The initial rows are those of the promise.
LEMMA InitPromise == Init => Promise!OutboxInit
  BY Fates DEF Init, Promise!OutboxInit

\* Every step is one of the promise's, or none.
LEMMA StepPromise ==
  ASSUME IndInv, [Next]_vars
  PROVE  [Promise!OutboxNext]_(Promise!outboxVars)
  <1>0. TypeOK /\ TypeOK' /\ row \in [Events -> Rows]
    BY StepType DEF IndInv, TypeOK
  <1>n. ASSUME \/ Promise!Settle
               \/ \E e \in Events : \/ Promise!Record(e) \/ Promise!Attempt(e)
                                    \/ Promise!Post(e) \/ Promise!Take(e)
        PROVE  Promise!OutboxNext
    BY <1>n DEF Promise!OutboxNext
  <1>q. ASSUME UNCHANGED <<row, outside>> PROVE Promise!OutboxNext
    <2>1. RowsSettle
      BY <1>q DEF RowsSettle
    <2> QED BY <2>1, <1>q, <1>0, <1>n, SettlesAsPromised
  <1>u. ASSUME UNCHANGED vars PROVE Promise!OutboxNext
    BY <1>u, <1>q DEF vars
  <1>l. ASSUME NEW p \in Procs, at[p].pc = "claim", row' = Leased(p),
               Eligible(at[p].event, at[p].inst, at[p].clock), UNCHANGED outside
        PROVE  Promise!OutboxNext
    <2>1. PICK f \in Events : at[p].event = f
      BY <1>l, Working
    <2>2. Promise!Attempt(f)
      BY <2>1, <1>l, <1>0, LeasedPromise
    <2> QED BY <2>2, <1>n
  <1>s. ASSUME NEW p \in Procs, Mine(p), UNCHANGED outside,
               \/ at[p].pc \in {"acknowledging", "refusing"} /\ row' = AsAnswered(p)
               \/ at[p].pc = "releasing" /\ row' = Released(p)
        PROVE  Promise!OutboxNext
    <2>1. at[p].pc \in Holding /\ at[p].event \in Events /\ row[at[p].event].state = "pending"
      BY <1>s, Working DEF Holding, Mine
    <2>2. RowsCalm
      BY <2>1, <1>s, AsAnsweredCalm, ReleasedCalm
    <2>3. \A e \in Events \ {at[p].event} : row'[e] = row[e]
      BY <2>1, <1>s, <1>0 DEF AsAnswered, Released, Settled
    <2>4. /\ row'[at[p].event].state \in {"acknowledged", "unsupported", "quarantined",
                                         "pending"}
          /\ row'[at[p].event].state = "acknowledged" => at[p].pc = "acknowledging"
      BY <2>1, <1>s, AsAnsweredCalm, ReleasedCalm
    <2>5. at[p].pc = "acknowledging" => at[p].event \in taken
      BY DEF IndInv, DrainerSound
    <2>6. RowsSettle
      BY <2>1, <2>2, <2>3, <2>4, <2>5 DEF RowsSettle, RowsCalm
    <2> QED BY <2>6, <1>s, <1>0, <1>n, SettlesAsPromised
  <1>1. ASSUME NEW e \in Events, Enqueue(e) PROVE Promise!OutboxNext
    <2>1. /\ row'[e].state = "pending" /\ row'[e].attempts = row[e].attempts
          /\ \A f \in Events \ {e} : row'[f] = row[f]
          /\ row[e].state = "absent" /\ UNCHANGED outside
      BY <1>1, <1>0 DEF Enqueue, Rows
    <2>2. [f \in Events |-> Fate(row'[f].state)] =
            [[f \in Events |-> Fate(row[f].state)] EXCEPT ![e] = "open"]
      BY <2>1, Fates
    <2>3. [f \in Events |-> row'[f].attempts] = [f \in Events |-> row[f].attempts]
      BY <2>1
    <2>4. Promise!Record(e)
      BY <2>1, <2>2, <2>3, Fates DEF Promise!Record, outside
    <2> QED BY <2>4, <1>n
  <1>2. ASSUME NEW e \in Events, Take(e) PROVE Promise!OutboxNext
    <2>1. Promise!Take(e)
      BY <1>2 DEF Take, Promise!Take
    <2> QED BY <2>1, <1>n
  <1>3. ASSUME NEW p \in Procs, Post(p) PROVE Promise!OutboxNext
    <2>1. PICK e \in Events : at[p].event = e
      BY <1>3, Working DEF Post, Holding
    <2>2. posts[e] < row[e].attempts
      <3>1. /\ RowSound(e) /\ posts[e] \in Nat /\ row[e].attempts \in Nat
            /\ p \in Sending(e)
        BY <2>1, <1>3, <1>0, RowValues DEF IndInv, TypeOK, Post, Sending
      <3>2. IsFiniteSet(Sending(e)) /\ Cardinality(Sending(e)) \in Nat
        BY SendingFinite
      <3>3. Cardinality(Sending(e)) # 0
        BY <3>1, <3>2, FS_EmptySet
      <3> QED BY <3>1, <3>2, <3>3 DEF RowSound
    <2>3. ASSUME posts' = [posts EXCEPT ![at[p].event] = @ + 1] PROVE Promise!Post(e)
      BY <2>1, <2>2, <2>3, <1>3 DEF Post, Promise!Post
    <2> QED BY <2>3, <1>n, <1>q, <1>3 DEF Post, outside
  <1>4. ASSUME NEW p \in Procs, Unbind(p) PROVE Promise!OutboxNext
    <2>1. RowsSettle
      BY <1>4, <1>0 DEF Unbind, RowsSettle, Rows
    <2> QED BY <2>1, <1>4, <1>0, <1>n, SettlesAsPromised DEF Unbind
  <1>5. ASSUME NEW p \in Procs, Sweep(p) PROVE Promise!OutboxNext
    <2>1. ASSUME NEW e \in Events, row[e].attempts >= MaxAttempts
          PROVE  row[e].attempts = MaxAttempts
      <3>1. row[e].attempts \in 0 .. MaxAttempts
        BY <1>0, RowValues
      <3> QED BY <3>1, <2>1, Numbers
    <2>2. RowsSettle
      BY <2>1, <1>5, <1>0 DEF Sweep, RowsSettle, Rows
    <2> QED BY <2>2, <1>5, <1>0, <1>n, SettlesAsPromised DEF Sweep
  <1>6. ASSUME NEW p \in Procs, Discard(p) PROVE Promise!OutboxNext
    <2>1. at[p].event \in Events
      BY <1>6, Working DEF Discard
    <2>2. RowsSettle
      BY <2>1, <1>6, <1>0 DEF Discard, RowsSettle, Rows
    <2> QED BY <2>2, <1>6, <1>0, <1>n, SettlesAsPromised DEF Discard
  <1>7. ASSUME NEW p \in Procs, Claim(p) PROVE Promise!OutboxNext
    BY <1>7, <1>l, <1>q DEF Claim
  <1>8. ASSUME NEW p \in Procs, Settle(p) \/ Release(p) PROVE Promise!OutboxNext
    BY <1>8, <1>s, <1>q DEF Settle, Release
  <1>9. ASSUME NEW p \in Procs, ReplyLost(p) PROVE Promise!OutboxNext
    BY <1>9, <1>s, <1>l DEF ReplyLost
  <1>10. ASSUME NEW p \in Procs,
                \/ TakeHint(p) \/ Boundary(p) \/ Find(p) \/ Response(p)
                \/ Poll(p) \/ WakeOutbox(p) \/ Fails(p) \/ Crash(p)
         PROVE  UNCHANGED <<row, outside>>
    BY <1>10, <1>0, WakeStep DEF TakeHint, Boundary, Find, Response, Fails, Crash
  <1>11. ASSUME Tick \/ (\E i \in Instances : Rebind(i)) PROVE UNCHANGED <<row, outside>>
    BY <1>11 DEF Tick, Rebind
  <1> QED BY <1>q, <1>u, <1>1, <1>2, <1>3, <1>4, <1>5, <1>6, <1>7, <1>8, <1>9, <1>10, <1>11
          DEF Next, Progress

\* The outbox keeps what OutboxPromise promises: a delivery per counted attempt
\* at most, one settlement per event, an acknowledgement only of what the
\* application took, and no event given up before its attempts are spent.
THEOREM OutboxKeepsPromise == Spec => KeepsPromise
  <1>1. IndInv /\ [Next]_vars => [Promise!OutboxNext]_(Promise!outboxVars)
    BY StepPromise
  <1> QED BY <1>1, InitPromise, SpecIndInv, PTL DEF Spec, KeepsPromise, Promise!OutboxSpec

-----------------------------------------------------------------------------
(***************************************************************************)
(* Before the outbox the receipts are journaled with their events:         *)
(* ReceiptWorker, here over constants and variables of its own, of which   *)
(* the keys handled are those its handler went on with.  Its assumption on *)
(* the constants is a hypothesis.  The sums and passes over a queue are    *)
(* folds; what they compute is proved by the least place where it would    *)
(* fail.                                                                   *)
(***************************************************************************)
CONSTANTS Keys, Size, Packets, QueueItems, QueueBytes, Concurrent, RecoveryItems, RecoveryBytes, MaxPlace,
          MaxPackets, WorkerFaults
VARIABLES worker, packets, waits, recovering, health, journal, handled, lost, unrecorded, failures
Worker == INSTANCE ReceiptWorker WITH taken <- handled, faults <- failures, MaxFaults <- WorkerFaults

\* A set of numbers has a least one.
LEMMA Least ==
  ASSUME NEW T, T \subseteq Nat, T # {}
  PROVE  \E x \in T : \A y \in T : x <= y
<1> DEFINE R == OpToRel(<, Nat)
<1>1. IsWellFoundedOn(R, Nat) BY NatLessThanWellFounded
<1>2. \A x, y \in Nat : x < y => <<x, y>> \in R BY DEF OpToRel
<1> HIDE DEF R
<1>3. T \subseteq Nat /\ T # {} OBVIOUS
<1>4. PICK x \in T : \A y \in T : ~ (<<y, x>> \in R) BY <1>1, <1>3, WFMin
<1>5. \A y \in T : ~ (y < x) BY <1>2, <1>3, <1>4
<1>6. \A y \in T : x \in Nat /\ y \in Nat BY <1>3
<1> QED BY <1>5, <1>6

\* The last of the places up to n is n.
LEMMA MaxTop ==
  ASSUME NEW n \in Nat, NEW S, S \subseteq 1 .. n, n \in S
  PROVE  Worker!Max(S) = n
<1>1. \A y \in S : n >= y OBVIOUS
<1>2. PICK x \in S : x = Worker!Max(S) /\ \A y \in S : x >= y BY <1>1 DEF Worker!Max
<1>3. x \in Nat /\ x >= n BY <1>2
<1> QED BY <1>1, <1>2, <1>3

\* The function that a fold of the sizes is: it exists,
SumIter(it, b, s, D) ==
  it = [S \in SUBSET D |-> IF S = {} THEN b ELSE it[S \ {Worker!Max(S)}] + Size[s[Worker!Max(S)]]]

\* by the least n for which there is none,
LEMMA SumIterExists ==
  ASSUME NEW b, NEW s, NEW n \in Nat
  PROVE  \E it : SumIter(it, b, s, 1 .. n)
<1> DEFINE T == {m \in Nat : ~ \E it : SumIter(it, b, s, 1 .. m)}
<1> SUFFICES ASSUME T # {} PROVE FALSE OBVIOUS
<1>1. PICK x \in T : \A y \in T : x <= y
  <2>1. T \subseteq Nat OBVIOUS
  <2> HIDE DEF T
  <2> QED BY <2>1, Least
<1>2. x # 0
  <2>1. SUBSET (1 .. 0) = {{}} OBVIOUS
  <2>2. SumIter([S \in SUBSET (1 .. 0) |-> b], b, s, 1 .. 0) BY <2>1 DEF SumIter
  <2> QED BY <2>2
<1>3. x - 1 \in Nat /\ ~ (x <= x - 1) BY <1>2
<1>4. PICK i0 : SumIter(i0, b, s, 1 .. (x - 1)) BY <1>1, <1>3
<1> DEFINE i1 == [S \in SUBSET (1 .. x) |-> IF S = {} THEN b
                                      ELSE IF x \in S THEN i0[S \ {x}] + Size[s[x]] ELSE i0[S]]
<1>5. ASSUME NEW S \in SUBSET (1 .. x)
      PROVE  i1[S] = IF S = {} THEN b ELSE i1[S \ {Worker!Max(S)}] + Size[s[Worker!Max(S)]]
  <2>1. CASE S = {} BY <2>1
  <2>2. CASE x \in S
    <3>1. Worker!Max(S) = x BY <2>2, MaxTop
    <3>2. S \ {x} \in SUBSET (1 .. (x - 1)) /\ S \ {x} \in SUBSET (1 .. x) OBVIOUS
    <3>3. i1[S \ {x}] = i0[S \ {x}]
      <4>1. i0[{}] = b
        <5>1. {} \in SUBSET (1 .. (x - 1)) OBVIOUS
        <5> QED BY <1>4, <5>1 DEF SumIter
      <4> QED BY <3>2, <4>1
    <3>4. i1[S] = i0[S \ {x}] + Size[s[x]] BY <2>2
    <3> HIDE DEF i1
    <3> QED BY <2>2, <3>1, <3>3, <3>4
  <2>3. CASE S # {} /\ x \notin S
    <3>1. S \in SUBSET (1 .. (x - 1)) BY <2>3
    <3>2. S \ {Worker!Max(S)} \in SUBSET (1 .. (x - 1)) /\ S \ {Worker!Max(S)} \in SUBSET (1 .. x) BY <3>1
    <3>3. i0[S] = i0[S \ {Worker!Max(S)}] + Size[s[Worker!Max(S)]] BY <1>4, <2>3, <3>1 DEF SumIter
    <3>4. i1[S \ {Worker!Max(S)}] = i0[S \ {Worker!Max(S)}]
      <4>1. i0[{}] = b
        <5>1. {} \in SUBSET (1 .. (x - 1)) OBVIOUS
        <5> QED BY <1>4, <5>1 DEF SumIter
      <4>2. x \notin S \ {Worker!Max(S)} BY <2>3
      <4> QED BY <3>2, <4>1, <4>2
    <3>5. i1[S] = i0[S] BY <2>3
    <3> HIDE DEF i1
    <3> QED BY <2>3, <3>3, <3>4, <3>5
  <2> QED BY <2>1, <2>2, <2>3
<1>6. SumIter(i1, b, s, 1 .. x)
  <2>1. i1 = [S \in SUBSET (1 .. x) |-> i1[S]] OBVIOUS
  <2> HIDE DEF i1
  <2> QED BY <1>5, <2>1 DEF SumIter
<1> QED BY <1>6

\* and is computed from left to right.
SumSteps(g, b, s) ==
  /\ g[0] = b
  /\ \A i \in 1 .. Len(s) : g[i] = g[i - 1] + Size[s[i]]

\* and the fold of the sizes is the last of them.
LEMMA SumFold ==
  ASSUME NEW b, NEW A, NEW s \in Seq(A)
  PROVE  \E g : SumSteps(g, b, s) /\ g = [i \in 0 .. Len(s) |-> g[i]]
         /\ Worker!FoldLeft(LAMBDA sum, k : sum + Size[k], b, s) = g[Len(s)]
<1>1. Len(s) \in Nat /\ DOMAIN s = 1 .. Len(s) BY LenProperties
<1> DEFINE it == CHOOSE it : SumIter(it, b, s, 1 .. Len(s))
           g == [i \in 0 .. Len(s) |-> it[1 .. i]]
<1>2. Worker!FoldLeft(LAMBDA sum, k : sum + Size[k], b, s) = it[1 .. Len(s)]
  BY <1>1 DEF Worker!FoldLeft, Worker!MapThenFoldSet, SumIter
<1>3. SumIter(it, b, s, 1 .. Len(s)) BY <1>1, SumIterExists
<1> HIDE DEF it
<1>4. g[0] = b
  <2>1. 1 .. 0 = {} /\ 1 .. 0 \in SUBSET (1 .. Len(s)) OBVIOUS
  <2>2. it[1 .. 0] = b BY <1>3, <2>1 DEF SumIter
  <2> QED BY <1>1, <2>2
<1>5. ASSUME NEW i \in 1 .. Len(s) PROVE g[i] = g[i - 1] + Size[s[i]]
  <2>1. Worker!Max(1 .. i) = i
    <3>1. i \in Nat /\ i \in 1 .. i BY <1>1
    <3>2. 1 .. i \subseteq 1 .. i OBVIOUS
    <3> QED BY <3>1, <3>2, MaxTop
  <2>2. (1 .. i) \ {i} = 1 .. (i - 1) /\ 1 .. i # {} /\ 1 .. i \in SUBSET (1 .. Len(s))
    <3>1. i \in Nat /\ i >= 1 /\ i <= Len(s) BY <1>1
    <3>2. (1 .. i) \ {i} = 1 .. (i - 1) BY <3>1
    <3>3. i \in 1 .. i BY <3>1
    <3>4. 1 .. i # {} BY <3>3
    <3> QED BY <1>1, <3>1, <3>2, <3>4
  <2>3. it[1 .. i] = it[(1 .. i) \ {Worker!Max(1 .. i)}] + Size[s[Worker!Max(1 .. i)]] BY <1>3, <2>2 DEF SumIter
  <2>4. g[i] = it[1 .. i] /\ g[i - 1] = it[1 .. (i - 1)] BY <1>1
  <2> HIDE DEF g
  <2>5. g[i] = it[1 .. (i - 1)] + Size[s[i]] BY <2>1, <2>2, <2>3, <2>4
  <2> QED BY <2>4, <2>5, Zenon
<1>6. Worker!FoldLeft(LAMBDA sum, k : sum + Size[k], b, s) = g[Len(s)]
  <2>1. g[Len(s)] = it[1 .. Len(s)] BY <1>1
  <2> HIDE DEF g
  <2> QED BY <1>2, <2>1, Zenon
<1>7. g = [i \in 0 .. Len(s) |-> g[i]] OBVIOUS
<1> HIDE DEF g
<1> QED BY <1>4, <1>5, <1>6, <1>7 DEF SumSteps

\* The same of the turns of pump
TurnIter(it, b, s, D) ==
  it = [S \in SUBSET D |-> IF S = {} THEN b ELSE Worker!Turn(it[S \ {Worker!Max(S)}], s[Worker!Max(S)])]

\* That function of the turns exists,
LEMMA TurnIterExists ==
  ASSUME NEW b, NEW s, NEW n \in Nat
  PROVE  \E it : TurnIter(it, b, s, 1 .. n)
<1> DEFINE T == {m \in Nat : ~ \E it : TurnIter(it, b, s, 1 .. m)}
<1> SUFFICES ASSUME T # {} PROVE FALSE OBVIOUS
<1>1. PICK x \in T : \A y \in T : x <= y
  <2>1. T \subseteq Nat OBVIOUS
  <2> HIDE DEF T
  <2> QED BY <2>1, Least
<1>2. x # 0
  <2>1. SUBSET (1 .. 0) = {{}} OBVIOUS
  <2>2. TurnIter([S \in SUBSET (1 .. 0) |-> b], b, s, 1 .. 0) BY <2>1 DEF TurnIter
  <2> QED BY <2>2
<1>3. x - 1 \in Nat /\ ~ (x <= x - 1) BY <1>2
<1>4. PICK i0 : TurnIter(i0, b, s, 1 .. (x - 1)) BY <1>1, <1>3
<1> DEFINE i1 == [S \in SUBSET (1 .. x) |-> IF S = {} THEN b
                                      ELSE IF x \in S THEN Worker!Turn(i0[S \ {x}], s[x]) ELSE i0[S]]
<1>5. ASSUME NEW S \in SUBSET (1 .. x)
      PROVE  i1[S] = IF S = {} THEN b ELSE Worker!Turn(i1[S \ {Worker!Max(S)}], s[Worker!Max(S)])
  <2>1. CASE S = {} BY <2>1
  <2>2. CASE x \in S
    <3>1. Worker!Max(S) = x BY <2>2, MaxTop
    <3>2. S \ {x} \in SUBSET (1 .. (x - 1)) /\ S \ {x} \in SUBSET (1 .. x) OBVIOUS
    <3>3. i1[S \ {x}] = i0[S \ {x}]
      <4>1. i0[{}] = b
        <5>1. {} \in SUBSET (1 .. (x - 1)) OBVIOUS
        <5> QED BY <1>4, <5>1 DEF TurnIter
      <4> QED BY <3>2, <4>1
    <3>4. i1[S] = Worker!Turn(i0[S \ {x}], s[x]) BY <2>2
    <3> HIDE DEF i1
    <3> QED BY <2>2, <3>1, <3>3, <3>4
  <2>3. CASE S # {} /\ x \notin S
    <3>1. S \in SUBSET (1 .. (x - 1)) BY <2>3
    <3>2. S \ {Worker!Max(S)} \in SUBSET (1 .. (x - 1)) /\ S \ {Worker!Max(S)} \in SUBSET (1 .. x) BY <3>1
    <3>3. i0[S] = Worker!Turn(i0[S \ {Worker!Max(S)}], s[Worker!Max(S)]) BY <1>4, <2>3, <3>1 DEF TurnIter
    <3>4. i1[S \ {Worker!Max(S)}] = i0[S \ {Worker!Max(S)}]
      <4>1. i0[{}] = b
        <5>1. {} \in SUBSET (1 .. (x - 1)) OBVIOUS
        <5> QED BY <1>4, <5>1 DEF TurnIter
      <4>2. x \notin S \ {Worker!Max(S)} BY <2>3
      <4> QED BY <3>2, <4>1, <4>2
    <3>5. i1[S] = i0[S] BY <2>3
    <3> HIDE DEF i1
    <3> QED BY <2>3, <3>3, <3>4, <3>5
  <2> QED BY <2>1, <2>2, <2>3
<1>6. TurnIter(i1, b, s, 1 .. x)
  <2>1. i1 = [S \in SUBSET (1 .. x) |-> i1[S]] OBVIOUS
  <2> HIDE DEF i1
  <2> QED BY <1>5, <2>1 DEF TurnIter
<1> QED BY <1>6

\* from the first job on,
TurnSteps(g, b, s) ==
  /\ g[0] = b
  /\ \A i \in 1 .. Len(s) : g[i] = Worker!Turn(g[i - 1], s[i])

\* and the fold is the last turn.
LEMMA TurnFold ==
  ASSUME NEW b, NEW A, NEW s \in Seq(A)
  PROVE  \E g : TurnSteps(g, b, s) /\ g = [i \in 0 .. Len(s) |-> g[i]]
         /\ Worker!FoldLeft(Worker!Turn, b, s) = g[Len(s)]
<1>1. Len(s) \in Nat /\ DOMAIN s = 1 .. Len(s) BY LenProperties
<1> DEFINE it == CHOOSE it : TurnIter(it, b, s, 1 .. Len(s))
           g == [i \in 0 .. Len(s) |-> it[1 .. i]]
<1>2. Worker!FoldLeft(Worker!Turn, b, s) = it[1 .. Len(s)]
  BY <1>1 DEF Worker!FoldLeft, Worker!MapThenFoldSet, TurnIter
<1>3. TurnIter(it, b, s, 1 .. Len(s)) BY <1>1, TurnIterExists
<1> HIDE DEF it
<1>4. g[0] = b
  <2>1. 1 .. 0 = {} /\ 1 .. 0 \in SUBSET (1 .. Len(s)) OBVIOUS
  <2>2. it[1 .. 0] = b BY <1>3, <2>1 DEF TurnIter
  <2> QED BY <1>1, <2>2
<1>5. ASSUME NEW i \in 1 .. Len(s) PROVE g[i] = Worker!Turn(g[i - 1], s[i])
  <2>1. Worker!Max(1 .. i) = i
    <3>1. i \in Nat /\ i \in 1 .. i BY <1>1
    <3>2. 1 .. i \subseteq 1 .. i OBVIOUS
    <3> QED BY <3>1, <3>2, MaxTop
  <2>2. (1 .. i) \ {i} = 1 .. (i - 1) /\ 1 .. i # {} /\ 1 .. i \in SUBSET (1 .. Len(s))
    <3>1. i \in Nat /\ i >= 1 /\ i <= Len(s) BY <1>1
    <3>2. (1 .. i) \ {i} = 1 .. (i - 1) BY <3>1
    <3>3. i \in 1 .. i BY <3>1
    <3>4. 1 .. i # {} BY <3>3
    <3> QED BY <1>1, <3>1, <3>2, <3>4
  <2>3. it[1 .. i] = Worker!Turn(it[(1 .. i) \ {Worker!Max(1 .. i)}], s[Worker!Max(1 .. i)])
    BY <1>3, <2>2 DEF TurnIter
  <2>4. g[i] = it[1 .. i] /\ g[i - 1] = it[1 .. (i - 1)] BY <1>1
  <2> HIDE DEF g
  <2>5. g[i] = Worker!Turn(it[1 .. (i - 1)], s[i]) BY <2>1, <2>2, <2>3, <2>4
  <2> QED BY <2>4, <2>5, Zenon
<1>6. Worker!FoldLeft(Worker!Turn, b, s) = g[Len(s)]
  <2>1. g[Len(s)] = it[1 .. Len(s)] BY <1>1
  <2> HIDE DEF g
  <2> QED BY <1>2, <2>1, Zenon
<1>7. g = [i \in 0 .. Len(s) |-> g[i]] OBVIOUS
<1> HIDE DEF g
<1> QED BY <1>4, <1>5, <1>6, <1>7 DEF TurnSteps

\* and of the submits of a packet
SubmitIter(it, b, s, D) ==
  it = [S \in SUBSET D |-> IF S = {} THEN b ELSE Worker!Submit(it[S \ {Worker!Max(S)}], s[Worker!Max(S)])]

\* That function of the submits exists,
LEMMA SubmitIterExists ==
  ASSUME NEW b, NEW s, NEW n \in Nat
  PROVE  \E it : SubmitIter(it, b, s, 1 .. n)
<1> DEFINE T == {m \in Nat : ~ \E it : SubmitIter(it, b, s, 1 .. m)}
<1> SUFFICES ASSUME T # {} PROVE FALSE OBVIOUS
<1>1. PICK x \in T : \A y \in T : x <= y
  <2>1. T \subseteq Nat OBVIOUS
  <2> HIDE DEF T
  <2> QED BY <2>1, Least
<1>2. x # 0
  <2>1. SUBSET (1 .. 0) = {{}} OBVIOUS
  <2>2. SubmitIter([S \in SUBSET (1 .. 0) |-> b], b, s, 1 .. 0) BY <2>1 DEF SubmitIter
  <2> QED BY <2>2
<1>3. x - 1 \in Nat /\ ~ (x <= x - 1) BY <1>2
<1>4. PICK i0 : SubmitIter(i0, b, s, 1 .. (x - 1)) BY <1>1, <1>3
<1> DEFINE i1 == [S \in SUBSET (1 .. x) |-> IF S = {} THEN b
                                      ELSE IF x \in S THEN Worker!Submit(i0[S \ {x}], s[x]) ELSE i0[S]]
<1>5. ASSUME NEW S \in SUBSET (1 .. x)
      PROVE  i1[S] = IF S = {} THEN b ELSE Worker!Submit(i1[S \ {Worker!Max(S)}], s[Worker!Max(S)])
  <2>1. CASE S = {} BY <2>1
  <2>2. CASE x \in S
    <3>1. Worker!Max(S) = x BY <2>2, MaxTop
    <3>2. S \ {x} \in SUBSET (1 .. (x - 1)) /\ S \ {x} \in SUBSET (1 .. x) OBVIOUS
    <3>3. i1[S \ {x}] = i0[S \ {x}]
      <4>1. i0[{}] = b
        <5>1. {} \in SUBSET (1 .. (x - 1)) OBVIOUS
        <5> QED BY <1>4, <5>1 DEF SubmitIter
      <4> QED BY <3>2, <4>1
    <3>4. i1[S] = Worker!Submit(i0[S \ {x}], s[x]) BY <2>2
    <3> HIDE DEF i1
    <3> QED BY <2>2, <3>1, <3>3, <3>4
  <2>3. CASE S # {} /\ x \notin S
    <3>1. S \in SUBSET (1 .. (x - 1)) BY <2>3
    <3>2. S \ {Worker!Max(S)} \in SUBSET (1 .. (x - 1)) /\ S \ {Worker!Max(S)} \in SUBSET (1 .. x) BY <3>1
    <3>3. i0[S] = Worker!Submit(i0[S \ {Worker!Max(S)}], s[Worker!Max(S)]) BY <1>4, <2>3, <3>1 DEF SubmitIter
    <3>4. i1[S \ {Worker!Max(S)}] = i0[S \ {Worker!Max(S)}]
      <4>1. i0[{}] = b
        <5>1. {} \in SUBSET (1 .. (x - 1)) OBVIOUS
        <5> QED BY <1>4, <5>1 DEF SubmitIter
      <4>2. x \notin S \ {Worker!Max(S)} BY <2>3
      <4> QED BY <3>2, <4>1, <4>2
    <3>5. i1[S] = i0[S] BY <2>3
    <3> HIDE DEF i1
    <3> QED BY <2>3, <3>3, <3>4, <3>5
  <2> QED BY <2>1, <2>2, <2>3
<1>6. SubmitIter(i1, b, s, 1 .. x)
  <2>1. i1 = [S \in SUBSET (1 .. x) |-> i1[S]] OBVIOUS
  <2> HIDE DEF i1
  <2> QED BY <1>5, <2>1 DEF SubmitIter
<1> QED BY <1>6

\* from its first receipt on.
SubmitSteps(g, b, s) ==
  /\ g[0] = b
  /\ \A i \in 1 .. Len(s) : g[i] = Worker!Submit(g[i - 1], s[i])

\* and the fold is the last submit.
LEMMA SubmitFold ==
  ASSUME NEW b, NEW A, NEW s \in Seq(A)
  PROVE  \E g : SubmitSteps(g, b, s) /\ g = [i \in 0 .. Len(s) |-> g[i]]
         /\ Worker!FoldLeft(Worker!Submit, b, s) = g[Len(s)]
<1>1. Len(s) \in Nat /\ DOMAIN s = 1 .. Len(s) BY LenProperties
<1> DEFINE it == CHOOSE it : SubmitIter(it, b, s, 1 .. Len(s))
           g == [i \in 0 .. Len(s) |-> it[1 .. i]]
<1>2. Worker!FoldLeft(Worker!Submit, b, s) = it[1 .. Len(s)]
  BY <1>1 DEF Worker!FoldLeft, Worker!MapThenFoldSet, SubmitIter
<1>3. SubmitIter(it, b, s, 1 .. Len(s)) BY <1>1, SubmitIterExists
<1> HIDE DEF it
<1>4. g[0] = b
  <2>1. 1 .. 0 = {} /\ 1 .. 0 \in SUBSET (1 .. Len(s)) OBVIOUS
  <2>2. it[1 .. 0] = b BY <1>3, <2>1 DEF SubmitIter
  <2> QED BY <1>1, <2>2
<1>5. ASSUME NEW i \in 1 .. Len(s) PROVE g[i] = Worker!Submit(g[i - 1], s[i])
  <2>1. Worker!Max(1 .. i) = i
    <3>1. i \in Nat /\ i \in 1 .. i BY <1>1
    <3>2. 1 .. i \subseteq 1 .. i OBVIOUS
    <3> QED BY <3>1, <3>2, MaxTop
  <2>2. (1 .. i) \ {i} = 1 .. (i - 1) /\ 1 .. i # {} /\ 1 .. i \in SUBSET (1 .. Len(s))
    <3>1. i \in Nat /\ i >= 1 /\ i <= Len(s) BY <1>1
    <3>2. (1 .. i) \ {i} = 1 .. (i - 1) BY <3>1
    <3>3. i \in 1 .. i BY <3>1
    <3>4. 1 .. i # {} BY <3>3
    <3> QED BY <1>1, <3>1, <3>2, <3>4
  <2>3. it[1 .. i] = Worker!Submit(it[(1 .. i) \ {Worker!Max(1 .. i)}], s[Worker!Max(1 .. i)])
    BY <1>3, <2>2 DEF SubmitIter
  <2>4. g[i] = it[1 .. i] /\ g[i - 1] = it[1 .. (i - 1)] BY <1>1
  <2> HIDE DEF g
  <2>5. g[i] = Worker!Submit(it[1 .. (i - 1)], s[i]) BY <2>1, <2>2, <2>3, <2>4
  <2> QED BY <2>4, <2>5, Zenon
<1>6. Worker!FoldLeft(Worker!Submit, b, s) = g[Len(s)]
  <2>1. g[Len(s)] = it[1 .. Len(s)] BY <1>1
  <2> HIDE DEF g
  <2> QED BY <1>2, <2>1, Zenon
<1>7. g = [i \in 0 .. Len(s) |-> g[i]] OBVIOUS
<1> HIDE DEF g
<1> QED BY <1>4, <1>5, <1>6, <1>7 DEF SubmitSteps

-----------------------------------------------------------------------------
\* The sizes of a sequence are summed as its prefixes are.
LEMMA PrefixNat ==
  ASSUME Worker!ReceiptConstants, NEW s \in Seq(Keys), NEW g, SumSteps(g, 0, s), NEW i \in 0 .. Len(s)
  PROVE  g[i] \in Nat
<1> DEFINE T == {n \in Nat : n <= Len(s) /\ g[n] \notin Nat}
<1> SUFFICES ASSUME T # {} PROVE FALSE
  <2>1. Len(s) \in Nat BY LenProperties
  <2> QED BY <2>1
<1>1. PICK x \in T : \A y \in T : x <= y
  <2>1. T \subseteq Nat OBVIOUS
  <2> HIDE DEF T
  <2> QED BY <2>1, Least
<1>2. x # 0 BY DEF SumSteps
<1>3. Len(s) \in Nat BY LenProperties
<1>4. x \in 1 .. Len(s) /\ x - 1 \in Nat BY <1>2, <1>3
<1>5. g[x] = g[x - 1] + Size[s[x]] BY <1>4 DEF SumSteps
<1>6. Size[s[x]] \in Nat BY <1>4, ElementOfSeq DEF Worker!ReceiptConstants
<1>7. g[x - 1] \in Nat BY <1>1, <1>3, <1>4
<1> QED BY <1>5, <1>6, <1>7

\* Two sums over the same first keys agree.
LEMMA PrefixesAgree ==
  ASSUME Worker!ReceiptConstants, NEW s \in Seq(Keys), NEW t \in Seq(Keys), NEW g, NEW h, SumSteps(g, 0, s),
         SumSteps(h, 0, t),
         NEW m \in Nat, m <= Len(s), m <= Len(t), \A i \in 1 .. m : s[i] = t[i]
  PROVE  g[m] = h[m]
<1> DEFINE T == {n \in Nat : n <= m /\ g[n] # h[n]}
<1> SUFFICES ASSUME T # {} PROVE FALSE OBVIOUS
<1>1. PICK x \in T : \A y \in T : x <= y
  <2>1. T \subseteq Nat OBVIOUS
  <2> HIDE DEF T
  <2> QED BY <2>1, Least
<1>2. x # 0 BY DEF SumSteps
<1>3. Len(s) \in Nat /\ Len(t) \in Nat BY LenProperties
<1>4. x \in 1 .. m /\ x \in 1 .. Len(s) /\ x \in 1 .. Len(t) /\ x - 1 \in Nat /\ x - 1 <= m BY <1>2, <1>3
<1>5. g[x] = g[x - 1] + Size[s[x]] BY <1>4 DEF SumSteps
<1>6. h[x] = h[x - 1] + Size[t[x]] BY <1>4 DEF SumSteps
<1>7. g[x - 1] = h[x - 1]
  <2>1. x \in Nat /\ ~ (x <= x - 1) BY <1>4
  <2>2. x - 1 \notin T BY <1>1, <2>1
  <2> QED BY <1>4, <2>2
<1>8. s[x] = t[x] BY <1>4
<1> QED BY <1>5, <1>6, <1>7, <1>8

\* The total is the last sum, of whichever function sums them.
LEMMA TotalSteps ==
  ASSUME Worker!ReceiptConstants, NEW s \in Seq(Keys)
  PROVE  /\ \E g : SumSteps(g, 0, s)
         /\ \A g : SumSteps(g, 0, s) => Worker!Total(s) = g[Len(s)]
<1>1. PICK g : SumSteps(g, 0, s) /\ Worker!FoldLeft(LAMBDA sum, k : sum + Size[k], 0, s) = g[Len(s)] BY SumFold
<1>2. Worker!Total(s) = g[Len(s)] BY <1>1 DEF Worker!Total
<1>3. Len(s) \in Nat BY LenProperties
<1>4. ASSUME NEW h, SumSteps(h, 0, s) PROVE h[Len(s)] = g[Len(s)]
  <2>1. Len(s) <= Len(s) /\ \A i \in 1 .. Len(s) : s[i] = s[i] BY <1>3
  <2>2. SumSteps(g, 0, s) BY <1>1, Zenon
  <2> QED BY <1>3, <1>4, <2>1, <2>2, PrefixesAgree
<1>5. SumSteps(g, 0, s) BY <1>1, Zenon
<1> QED BY <1>2, <1>4, <1>5

\* Total is a number,
LEMMA TotalNat ==
  ASSUME Worker!ReceiptConstants, NEW s \in Seq(Keys)
  PROVE  Worker!Total(s) \in Nat
<1>1. Len(s) \in Nat BY LenProperties
<1> QED BY <1>1, TotalSteps, PrefixNat

\* zero of no key,
LEMMA TotalEmpty ==
  ASSUME Worker!ReceiptConstants
  PROVE  Worker!Total(<<>>) = 0
<1>1. <<>> \in Seq(Keys) /\ Len(<<>>) = 0 BY EmptySeq
<1>2. PICK g : SumSteps(g, 0, <<>>) BY <1>1, TotalSteps
<1>3. Worker!Total(<<>>) = g[0] BY <1>1, <1>2, TotalSteps
<1> QED BY <1>2, <1>3 DEF SumSteps

\* with one key more its size more,
LEMMA TotalAppend ==
  ASSUME Worker!ReceiptConstants, NEW s \in Seq(Keys), NEW k \in Keys
  PROVE  Append(s, k) \in Seq(Keys) /\ Worker!Total(Append(s, k)) = Worker!Total(s) + Size[k]
<1> DEFINE t == Append(s, k)
<1>1. t \in Seq(Keys) /\ Len(t) = Len(s) + 1 /\ (\A i \in 1 .. Len(s) : t[i] = s[i]) /\ t[Len(s) + 1] = k
  BY AppendProperties
<1>2. Len(s) \in Nat BY LenProperties
<1> HIDE DEF t
<1>3. PICK g : SumSteps(g, 0, s) BY TotalSteps
<1>4. PICK h : SumSteps(h, 0, t) BY <1>1, TotalSteps
<1>5. h[Len(s) + 1] = h[Len(s)] + Size[k]
  <2>1. Len(s) + 1 \in 1 .. Len(t) BY <1>1, <1>2
  <2>2. (Len(s) + 1) - 1 = Len(s) BY <1>2
  <2> QED BY <1>1, <1>4, <2>1, <2>2 DEF SumSteps
<1>6. h[Len(s)] = g[Len(s)]
  <2>1. Len(s) <= Len(t) /\ Len(s) <= Len(s) BY <1>1, <1>2
  <2>2. t \in Seq(Keys) /\ \A i \in 1 .. Len(s) : s[i] = t[i] BY <1>1
  <2>3. \A m \in Nat : m <= Len(s) /\ m <= Len(t) /\ (\A i \in 1 .. m : s[i] = t[i]) => g[m] = h[m]
    BY <1>3, <1>4, <2>2, PrefixesAgree
  <2>4. g[Len(s)] = h[Len(s)] BY <1>2, <2>1, <2>2, <2>3
  <2> QED BY <2>4
<1>7. Worker!Total(s) = g[Len(s)] /\ Worker!Total(t) = h[Len(t)] BY <1>1, <1>3, <1>4, TotalSteps
<1> QED BY <1>1, <1>5, <1>6, <1>7 DEF t

\* of two sequences the sum of both,
LEMMA TotalConcat ==
  ASSUME Worker!ReceiptConstants, NEW s \in Seq(Keys), NEW t \in Seq(Keys)
  PROVE  Worker!Total(s \o t) = Worker!Total(s) + Worker!Total(t)
<1> DEFINE u == s \o t
<1>1. /\ u \in Seq(Keys) /\ Len(u) = Len(s) + Len(t)
      /\ \A i \in 1 .. Len(s) + Len(t) : u[i] = IF i <= Len(s) THEN s[i] ELSE t[i - Len(s)]
  BY ConcatProperties
<1>2. Len(s) \in Nat /\ Len(t) \in Nat BY LenProperties
<1> HIDE DEF u
<1>3. PICK f : SumSteps(f, 0, s) BY TotalSteps
<1>4. PICK g : SumSteps(g, 0, t) BY TotalSteps
<1>5. PICK h : SumSteps(h, 0, u) BY <1>1, TotalSteps
<1>6. h[Len(s)] = f[Len(s)]
  <2> DEFINE a == Len(s)  b == Len(t)
  <2>1. \A i \in 1 .. a : i \in 1 .. a + b /\ i <= a
    <3>1. a \in Nat /\ b \in Nat BY <1>2
    <3> HIDE DEF a, b
    <3> QED BY <3>1
  <2>2. u \in Seq(Keys) /\ \A i \in 1 .. Len(s) : s[i] = u[i] BY <1>1, <2>1
  <2>3. Len(s) <= Len(u) /\ Len(s) <= Len(s)
    <3>1. a \in Nat /\ b \in Nat /\ Len(u) = a + b BY <1>1, <1>2
    <3> HIDE DEF a, b
    <3>2. a <= a + b /\ a <= a BY <3>1
    <3> QED BY <3>1, <3>2 DEF a
  <2>4. \A m \in Nat : m <= Len(s) /\ m <= Len(u) /\ (\A i \in 1 .. m : s[i] = u[i]) => f[m] = h[m]
    BY <1>3, <1>5, <2>2, PrefixesAgree
  <2>5. f[Len(s)] = h[Len(s)] BY <1>2, <2>2, <2>3, <2>4
  <2> QED BY <2>5
<1>7. h[Len(s) + Len(t)] = h[Len(s)] + g[Len(t)]
  <2> DEFINE T == {n \in Nat : n <= Len(t) /\ h[Len(s) + n] # h[Len(s)] + g[n]}
  <2>0. h[Len(s)] \in Nat BY <1>2, <1>3, <1>6, PrefixNat
  <2> SUFFICES ASSUME T # {} PROVE FALSE
    <3>1. Len(t) <= Len(t) BY <1>2
    <3> QED BY <1>2, <3>1
  <2>1. PICK x \in T : \A y \in T : x <= y
    <3>1. T \subseteq Nat OBVIOUS
    <3> HIDE DEF T
    <3> QED BY <3>1, Least
  <2>2. x # 0 BY <1>2, <1>4, <2>0 DEF SumSteps
  <2>3. x \in 1 .. Len(t) /\ x - 1 \in Nat /\ x - 1 \in 0 .. Len(t) BY <1>2, <2>2
  <2>4. Len(s) + x \in 1 .. Len(u) /\ (Len(s) + x) - 1 = Len(s) + (x - 1) /\ ~ (Len(s) + x <= Len(s))
        /\ (Len(s) + x) - Len(s) = x
    <3> DEFINE a == Len(s)  b == Len(t)
    <3>1. a \in Nat /\ b \in Nat /\ x \in 1 .. b /\ Len(u) = a + b BY <1>1, <1>2, <2>3
    <3> HIDE DEF a, b
    <3>2. a + x \in 1 .. a + b /\ (a + x) - 1 = a + (x - 1) /\ ~ (a + x <= a) /\ (a + x) - a = x BY <3>1
    <3> QED BY <3>1, <3>2 DEF a
  <2>5. u[Len(s) + x] = t[x] BY <1>1, <2>4
  <2>6. h[Len(s) + x] = h[Len(s) + (x - 1)] + Size[t[x]] BY <1>5, <2>4, <2>5 DEF SumSteps
  <2>7. g[x] = g[x - 1] + Size[t[x]] BY <1>4, <2>3 DEF SumSteps
  <2>8. h[Len(s) + (x - 1)] = h[Len(s)] + g[x - 1] BY <1>2, <2>1, <2>3
  <2>9. Size[t[x]] \in Nat BY <2>3, ElementOfSeq DEF Worker!ReceiptConstants
  <2>10. g[x - 1] \in Nat BY <1>4, <2>3, PrefixNat
  <2>11. h[Len(s) + x] = h[Len(s)] + g[x]
    <3> DEFINE hs == h[Len(s)]  hx == h[Len(s) + x]  gp == g[x - 1]  gx == g[x]  z == Size[t[x]]
    <3>1. hs \in Nat /\ gp \in Nat /\ z \in Nat BY <2>0, <2>9, <2>10
    <3>2. hx = (hs + gp) + z BY <2>6, <2>8
    <3>3. gx = gp + z BY <2>7
    <3> HIDE DEF hs, hx, gp, gx, z
    <3>4. hx = hs + gx BY <3>1, <3>2, <3>3
    <3> QED BY <3>4 DEF hs, hx, gx
  <2> QED BY <2>11
<1>8. Worker!Total(s) = f[Len(s)] /\ Worker!Total(t) = g[Len(t)] /\ Worker!Total(u) = h[Len(u)]
  BY <1>1, <1>3, <1>4, <1>5, TotalSteps
<1> QED BY <1>1, <1>6, <1>7, <1>8 DEF u

\* and without its first key less by its size.
LEMMA TotalTail ==
  ASSUME Worker!ReceiptConstants, NEW s \in Seq(Keys), s # <<>>
  PROVE  Tail(s) \in Seq(Keys) /\ Head(s) \in Keys /\ Worker!Total(Tail(s)) = Worker!Total(s) - Size[Head(s)]
<1>1. Tail(s) \in Seq(Keys) /\ Head(s) \in Keys BY HeadTailProperties
<1>2. s = <<Head(s)>> \o Tail(s) OBVIOUS
<1>3. <<Head(s)>> = Append(<<>>, Head(s)) /\ <<>> \in Seq(Keys) OBVIOUS
<1>4. <<Head(s)>> \in Seq(Keys) /\ Worker!Total(<<Head(s)>>) = 0 + Size[Head(s)]
  BY <1>1, <1>3, TotalAppend, TotalEmpty
<1>5. Worker!Total(s) = Worker!Total(<<Head(s)>>) + Worker!Total(Tail(s)) BY <1>1, <1>2, <1>4, TotalConcat
<1>6. Worker!Total(Tail(s)) \in Nat /\ Size[Head(s)] \in Nat BY <1>1, TotalNat DEF Worker!ReceiptConstants
<1> QED BY <1>1, <1>4, <1>5, <1>6

\* A sequence without one of its places.
LEMMA RemovedAt ==
  ASSUME NEW S, NEW s \in Seq(S), NEW i \in 1 .. Len(s)
  PROVE  /\ Worker!RemoveAt(s, i) \in Seq(S) /\ Len(Worker!RemoveAt(s, i)) = Len(s) - 1
         /\ \A n \in 1 .. Len(s) - 1 : Worker!RemoveAt(s, i)[n] = IF n < i THEN s[n] ELSE s[n + 1]
<1>1. Len(s) \in Nat /\ \A n \in 1 .. Len(s) : s[n] \in S BY LenProperties, ElementOfSeq
<1> DEFINE a == SubSeq(s, 1, i - 1)
           b == SubSeq(s, i + 1, Len(s))
<1>2. a \in Seq(S) /\ Len(a) = i - 1 /\ \A n \in 1 .. i - 1 : a[n] = s[n]
  <2>1. 1 \in Int /\ i - 1 \in Int /\ \A n \in 1 .. i - 1 : s[n] \in S BY <1>1
  <2>2. a \in Seq(S) /\ Len(a) = (IF 1 <= i - 1 THEN (i - 1) - 1 + 1 ELSE 0)
        /\ \A n \in 1 .. (i - 1) - 1 + 1 : a[n] = s[1 + n - 1]
    BY <2>1, SubSeqProperties
  <2> HIDE DEF a
  <2> QED BY <1>1, <2>2
<1>3. b \in Seq(S) /\ Len(b) = Len(s) - i /\ \A n \in 1 .. Len(s) - i : b[n] = s[i + n]
  <2>1. i + 1 \in Int /\ Len(s) \in Int /\ \A n \in i + 1 .. Len(s) : s[n] \in S BY <1>1
  <2>2. b \in Seq(S) /\ Len(b) = (IF i + 1 <= Len(s) THEN Len(s) - (i + 1) + 1 ELSE 0)
        /\ \A n \in 1 .. Len(s) - (i + 1) + 1 : b[n] = s[i + 1 + n - 1]
    BY <2>1, SubSeqProperties
  <2> HIDE DEF b
  <2>3. Len(b) = Len(s) - i BY <1>1, <2>2
  <2>4. ASSUME NEW n \in 1 .. Len(s) - i PROVE b[n] = s[i + n]
    <3>1. n \in 1 .. Len(s) - (i + 1) + 1 /\ i + 1 + n - 1 = i + n BY <1>1
    <3> QED BY <2>2, <3>1
  <2> QED BY <2>2, <2>3, <2>4
<1>4. Worker!RemoveAt(s, i) = a \o b BY DEF Worker!RemoveAt
<1> HIDE DEF a, b
<1>5. /\ a \o b \in Seq(S) /\ Len(a \o b) = Len(a) + Len(b)
      /\ \A n \in 1 .. Len(a) + Len(b) : (a \o b)[n] = IF n <= Len(a) THEN a[n] ELSE b[n - Len(a)]
  BY <1>2, <1>3, ConcatProperties
<1>6. Len(a) + Len(b) = Len(s) - 1 BY <1>1, <1>2, <1>3
<1>7. ASSUME NEW n \in 1 .. Len(s) - 1 PROVE (a \o b)[n] = IF n < i THEN s[n] ELSE s[n + 1]
  <2>1. CASE n < i
    <3>1. n <= Len(a) /\ n \in 1 .. i - 1 BY <1>1, <1>2, <2>1
    <3> QED BY <1>2, <1>5, <1>6, <2>1, <3>1
  <2>2. CASE ~ (n < i)
    <3>1. ~ (n <= Len(a)) /\ n - Len(a) \in 1 .. Len(s) - i /\ i + (n - Len(a)) = n + 1
      BY <1>1, <1>2, <2>2
    <3>2. b[n - Len(a)] = s[n + 1] BY <1>3, <3>1
    <3> QED BY <1>5, <1>6, <2>2, <3>1, <3>2
  <2> QED BY <2>1, <2>2
<1> QED BY <1>4, <1>5, <1>6, <1>7

\* A key removed takes its size with it.
LEMMA TotalRemoved ==
  ASSUME Worker!ReceiptConstants, NEW s \in Seq(Keys), NEW i \in 1 .. Len(s)
  PROVE  Worker!Total(Worker!RemoveAt(s, i)) = Worker!Total(s) - Size[s[i]]
<1>1. Len(s) \in Nat /\ \A n \in 1 .. Len(s) : s[n] \in Keys BY LenProperties, ElementOfSeq
<1> DEFINE a == SubSeq(s, 1, i - 1)
           b == SubSeq(s, i + 1, Len(s))
           c == SubSeq(s, 1, i)
<1>2. a \in Seq(Keys) /\ b \in Seq(Keys)
  <2>1. i - 1 \in Int /\ i + 1 \in Int /\ Len(s) \in Int BY <1>1
  <2>2. (\A n \in 1 .. i - 1 : s[n] \in Keys) /\ (\A n \in i + 1 .. Len(s) : s[n] \in Keys) BY <1>1
  <2> QED BY <2>1, <2>2, SubSeqProperties
<1>3. c = a \o <<s[i]>>
  <2>1. i \in 1 .. Len(s) /\ 1 \in 1 .. Len(s) /\ i \in 1 .. Len(s) BY <1>1
  <2> QED BY <2>1, SubSeqRecursiveSecond
<1>4. c \o b = s
  <2>1. 1 \in 1 .. Len(s) + 1 /\ i \in 1 - 1 .. Len(s) /\ Len(s) \in i .. Len(s) BY <1>1
  <2>2. c \o b = SubSeq(s, 1, Len(s)) BY <2>1, ConcatAdjacentSubSeq
  <2> QED BY <2>2, SubSeqFull
<1>5. Worker!RemoveAt(s, i) = a \o b BY DEF Worker!RemoveAt
<1>6. s[i] \in Keys BY <1>1
<1> HIDE DEF a, b, c
<1>7. c = Append(a, s[i])
  BY <1>2, <1>3, <1>6, AppendIsConcat
<1>8. c \in Seq(Keys) /\ Worker!Total(c) = Worker!Total(a) + Size[s[i]] BY <1>2, <1>6, <1>7, TotalAppend
<1>9. Worker!Total(s) = Worker!Total(c) + Worker!Total(b) BY <1>2, <1>4, <1>8, TotalConcat
<1>10. Worker!Total(Worker!RemoveAt(s, i)) = Worker!Total(a) + Worker!Total(b) BY <1>2, <1>5, TotalConcat
<1>11. Worker!Total(a) \in Nat /\ Worker!Total(b) \in Nat /\ Size[s[i]] \in Nat
  BY <1>2, <1>6, TotalNat DEF Worker!ReceiptConstants
<1> QED BY <1>8, <1>9, <1>10, <1>11

-----------------------------------------------------------------------------
\* The bytes of jobs.
Bytes(js) == Worker!Total(Worker!KeysOf(js))

\* The keys of jobs, in their order.
LEMMA KeysAre ==
  ASSUME Worker!ReceiptConstants, NEW js \in Seq(Worker!Job)
  PROVE  /\ Worker!KeysOf(js) \in Seq(Keys) /\ Len(Worker!KeysOf(js)) = Len(js)
         /\ \A i \in 1 .. Len(js) : Worker!KeysOf(js)[i] = js[i].key
<1>1. Len(js) \in Nat /\ DOMAIN js = 1 .. Len(js) BY LenProperties
<1>2. \A i \in 1 .. Len(js) : js[i].key \in Keys
  <2>1. \A i \in 1 .. Len(js) : js[i] \in Worker!Job BY ElementOfSeq
  <2> QED BY <2>1 DEF Worker!Job
<1>3. Worker!KeysOf(js) = [i \in 1 .. Len(js) |-> js[i].key] BY <1>1 DEF Worker!KeysOf
<1>4. Worker!KeysOf(js) \in [1 .. Len(js) -> Keys] BY <1>2, <1>3
<1>5. Worker!KeysOf(js) \in Seq(Keys) /\ DOMAIN Worker!KeysOf(js) = 1 .. Len(js) BY <1>1, <1>4, SeqDef
<1>6. Len(Worker!KeysOf(js)) = Len(js) BY <1>1, <1>5, LenProperties
<1> QED BY <1>3, <1>5, <1>6

\* A sequence that gives every job its key is KeysOf.
LEMMA SameKeys ==
  ASSUME Worker!ReceiptConstants, NEW js \in Seq(Worker!Job), NEW s \in Seq(Keys), Len(s) = Len(js),
         \A i \in 1 .. Len(js) : s[i] = js[i].key
  PROVE  Worker!KeysOf(js) = s
<1>1. Worker!KeysOf(js) \in Seq(Keys) /\ Len(Worker!KeysOf(js)) = Len(js)
      /\ \A i \in 1 .. Len(js) : Worker!KeysOf(js)[i] = js[i].key
  BY KeysAre
<1> QED BY <1>1, SeqEqual

\* No jobs have no bytes.
LEMMA BytesEmpty ==
  ASSUME Worker!ReceiptConstants
  PROVE  Bytes(<<>>) = 0
<1>1. <<>> \in Seq(Worker!Job) /\ <<>> \in Seq(Keys) /\ Len(<<>>) = 0 /\ 1 .. 0 = {} BY EmptySeq
<1>2. Worker!KeysOf(<<>>) = <<>> BY <1>1, SameKeys
<1> QED BY <1>2, TotalEmpty DEF Bytes

\* The bytes of jobs are a number,
LEMMA BytesNat ==
  ASSUME Worker!ReceiptConstants, NEW js \in Seq(Worker!Job)
  PROVE  Bytes(js) \in Nat
BY KeysAre, TotalNat DEF Bytes

\* grow with a job by its size
LEMMA BytesAppend ==
  ASSUME Worker!ReceiptConstants, NEW js \in Seq(Worker!Job), NEW j \in Worker!Job
  PROVE  Bytes(Append(js, j)) = Bytes(js) + Size[j.key]
<1>1. j.key \in Keys BY DEF Worker!Job
<1>2. Worker!KeysOf(js) \in Seq(Keys) /\ Len(Worker!KeysOf(js)) = Len(js)
      /\ \A i \in 1 .. Len(js) : Worker!KeysOf(js)[i] = js[i].key
  BY KeysAre
<1>3. /\ Append(js, j) \in Seq(Worker!Job) /\ Len(Append(js, j)) = Len(js) + 1
      /\ (\A i \in 1 .. Len(js) : Append(js, j)[i] = js[i]) /\ Append(js, j)[Len(js) + 1] = j
  BY AppendProperties
<1>4. /\ Append(Worker!KeysOf(js), j.key) \in Seq(Keys) /\ Len(Append(Worker!KeysOf(js), j.key)) = Len(js) + 1
      /\ (\A i \in 1 .. Len(js) : Append(Worker!KeysOf(js), j.key)[i] = Worker!KeysOf(js)[i])
      /\ Append(Worker!KeysOf(js), j.key)[Len(js) + 1] = j.key
  BY <1>1, <1>2, AppendProperties
<1>5. Len(js) \in Nat BY LenProperties
<1>6. \A i \in 1 .. Len(js) + 1 : Append(Worker!KeysOf(js), j.key)[i] = Append(js, j)[i].key
  <2> TAKE i \in 1 .. Len(js) + 1
  <2>1. i \in 1 .. Len(js) \/ i = Len(js) + 1 BY <1>5
  <2> QED BY <1>2, <1>3, <1>4, <2>1
<1>7. Worker!KeysOf(Append(js, j)) = Append(Worker!KeysOf(js), j.key) BY <1>3, <1>4, <1>6, SameKeys
<1> QED BY <1>1, <1>2, <1>7, TotalAppend DEF Bytes

\* and shrink by it when it is removed.
LEMMA BytesRemoved ==
  ASSUME Worker!ReceiptConstants, NEW js \in Seq(Worker!Job), NEW i \in 1 .. Len(js)
  PROVE  Bytes(Worker!RemoveAt(js, i)) = Bytes(js) - Size[js[i].key]
<1>1. Worker!KeysOf(js) \in Seq(Keys) /\ Len(Worker!KeysOf(js)) = Len(js)
      /\ \A n \in 1 .. Len(js) : Worker!KeysOf(js)[n] = js[n].key
  BY KeysAre
<1>2. /\ Worker!RemoveAt(js, i) \in Seq(Worker!Job) /\ Len(Worker!RemoveAt(js, i)) = Len(js) - 1
      /\ \A n \in 1 .. Len(js) - 1 : Worker!RemoveAt(js, i)[n] = IF n < i THEN js[n] ELSE js[n + 1]
  BY RemovedAt
<1>3. /\ Worker!RemoveAt(Worker!KeysOf(js), i) \in Seq(Keys)
         /\ Len(Worker!RemoveAt(Worker!KeysOf(js), i)) = Len(js) - 1
      /\ \A n \in 1 .. Len(js) - 1 :
           Worker!RemoveAt(Worker!KeysOf(js), i)[n] = IF n < i THEN Worker!KeysOf(js)[n] ELSE Worker!KeysOf(js)[n + 1]
  BY <1>1, RemovedAt
<1>4. Len(js) \in Nat BY LenProperties
<1>5. \A n \in 1 .. Len(js) - 1 : Worker!RemoveAt(Worker!KeysOf(js), i)[n] = Worker!RemoveAt(js, i)[n].key
  <2> TAKE n \in 1 .. Len(js) - 1
  <2>1. n \in 1 .. Len(js) /\ n + 1 \in 1 .. Len(js) BY <1>4
  <2> QED BY <1>1, <1>2, <1>3, <2>1
<1>6. Worker!KeysOf(Worker!RemoveAt(js, i)) = Worker!RemoveAt(Worker!KeysOf(js), i)
  BY <1>2, <1>3, <1>5, SameKeys
<1> QED BY <1>1, <1>6, TotalRemoved DEF Bytes

\* A deadline changes neither the keys nor the places of the jobs.
LEMMA MarkedIs ==
  ASSUME Worker!ReceiptConstants, NEW js \in Seq(Worker!Job), NEW id
  PROVE  /\ Worker!Marked(js, id) \in Seq(Worker!Job) /\ Len(Worker!Marked(js, id)) = Len(js)
            /\ Bytes(Worker!Marked(js, id)) = Bytes(js)
         /\ \A i \in 1 .. Len(js) :
              LET j == js[i]  m == Worker!Marked(js, id)[i] IN
              /\ m.key = j.key /\ m.call = j.call /\ m.place = j.place
              /\ m.expired <=> j.expired \/ Worker!Id(j) = id
<1>1. Len(js) \in Nat /\ DOMAIN js = 1 .. Len(js) BY LenProperties
<1> DEFINE f(i) == IF Worker!Id(js[i]) = id THEN [js[i] EXCEPT !.expired = TRUE] ELSE js[i]
<1>2. ASSUME NEW i \in 1 .. Len(js)
      PROVE  /\ f(i) \in Worker!Job /\ f(i).key = js[i].key /\ f(i).call = js[i].call
                /\ f(i).place = js[i].place
             /\ f(i).expired <=> js[i].expired \/ Worker!Id(js[i]) = id
  <2>1. js[i] \in Worker!Job BY ElementOfSeq
  <2> QED BY <2>1 DEF Worker!Job
<1>3. Worker!Marked(js, id) = [i \in 1 .. Len(js) |-> f(i)] BY <1>1 DEF Worker!Marked
<1> HIDE DEF f
<1>4. Worker!Marked(js, id) \in [1 .. Len(js) -> Worker!Job] BY <1>2, <1>3
<1>5. Worker!Marked(js, id) \in Seq(Worker!Job) /\ DOMAIN Worker!Marked(js, id) = 1 .. Len(js)
  BY <1>1, <1>4, SeqDef
<1>6. Len(Worker!Marked(js, id)) = Len(js) BY <1>1, <1>5, LenProperties
<1>7. \A i \in 1 .. Len(js) : Worker!Marked(js, id)[i] = f(i) BY <1>3
<1>8. Bytes(Worker!Marked(js, id)) = Bytes(js)
  <2>1. Worker!KeysOf(js) \in Seq(Keys) /\ Len(Worker!KeysOf(js)) = Len(js)
        /\ \A i \in 1 .. Len(js) : Worker!KeysOf(js)[i] = js[i].key
    BY KeysAre
  <2>2. Worker!KeysOf(Worker!Marked(js, id)) = Worker!KeysOf(js) BY <1>2, <1>5, <1>6, <1>7, <2>1, SameKeys
  <2> QED BY <2>2 DEF Bytes
<1> QED BY <1>2, <1>5, <1>6, <1>7, <1>8

-----------------------------------------------------------------------------
\* What a job is known by, whether or not its append found the key.
Tag(j)   == <<j.call, j.place, j.key, j.expired>>
Tags(js) == {Tag(js[i]) : i \in 1 .. Len(js)}
Work(w)  == Tags(w.queue) \cup Tags(w.active)
Kept(w)  == {w.recovery[i] : i \in 1 .. Len(w.recovery)}
LateTag(x, id) == <<x[1], x[2], x[3], x[4] \/ <<x[1], x[2]>> = id>>

\* No job is known of an empty queue.
LEMMA TagsEmpty ==
  ASSUME Worker!ReceiptConstants
  PROVE  Tags(<<>>) = {}
<1>1. Len(<<>>) = 0 /\ 1 .. 0 = {} BY EmptySeq
<1> QED BY <1>1 DEF Tags

\* A job appended is known beside the others.
LEMMA TagsAppend ==
  ASSUME Worker!ReceiptConstants, NEW js \in Seq(Worker!Job), NEW j \in Worker!Job
  PROVE  Tags(Append(js, j)) = Tags(js) \cup {Tag(j)}
<1>1. /\ Len(Append(js, j)) = Len(js) + 1
      /\ (\A i \in 1 .. Len(js) : Append(js, j)[i] = js[i]) /\ Append(js, j)[Len(js) + 1] = j
  BY AppendProperties
<1>2. Len(js) \in Nat BY LenProperties
<1>3. \A i : i \in 1 .. Len(js) + 1 <=> i \in 1 .. Len(js) \/ i = Len(js) + 1 BY <1>2
<1> QED BY <1>1, <1>3 DEF Tags

\* A job removed is the only one no longer known.
LEMMA TagsRemoved ==
  ASSUME Worker!ReceiptConstants, NEW js \in Seq(Worker!Job), NEW i \in 1 .. Len(js)
  PROVE  /\ Tags(Worker!RemoveAt(js, i)) \subseteq Tags(js) /\ Tag(js[i]) \in Tags(js)
         /\ Tags(js) \subseteq Tags(Worker!RemoveAt(js, i)) \cup {Tag(js[i])}
<1>1. /\ Len(Worker!RemoveAt(js, i)) = Len(js) - 1
      /\ \A n \in 1 .. Len(js) - 1 : Worker!RemoveAt(js, i)[n] = IF n < i THEN js[n] ELSE js[n + 1]
  BY RemovedAt
<1>2. Len(js) \in Nat BY LenProperties
<1>3. Tags(Worker!RemoveAt(js, i)) \subseteq Tags(js)
  <2>1. \A n \in 1 .. Len(js) - 1 : n \in 1 .. Len(js) /\ n + 1 \in 1 .. Len(js) BY <1>2
  <2> QED BY <1>1, <2>1 DEF Tags
<1>4. ASSUME NEW n \in 1 .. Len(js), n # i PROVE Tag(js[n]) \in Tags(Worker!RemoveAt(js, i))
  <2>1. CASE n < i
    <3>1. n \in 1 .. Len(js) - 1 BY <1>2, <2>1
    <3> QED BY <1>1, <2>1, <3>1 DEF Tags
  <2>2. CASE ~ (n < i)
    <3>1. n - 1 \in 1 .. Len(js) - 1 /\ ~ (n - 1 < i) /\ (n - 1) + 1 = n BY <1>2, <1>4, <2>2
    <3>2. Worker!RemoveAt(js, i)[n - 1] = js[n] BY <1>1, <3>1
    <3> QED BY <1>1, <3>1, <3>2 DEF Tags
  <2> QED BY <2>1, <2>2
<1>5. Tags(js) \subseteq Tags(Worker!RemoveAt(js, i)) \cup {Tag(js[i])} BY <1>4 DEF Tags
<1> QED BY <1>3, <1>5 DEF Tags

\* A deadline marks the jobs of its id.
LEMMA TagsMarked ==
  ASSUME Worker!ReceiptConstants, NEW js \in Seq(Worker!Job), NEW id
  PROVE  Tags(Worker!Marked(js, id)) = {LateTag(x, id) : x \in Tags(js)}
<1>1. Worker!Marked(js, id) \in Seq(Worker!Job) /\ Len(Worker!Marked(js, id)) = Len(js) BY MarkedIs
<1>2. ASSUME NEW i \in 1 .. Len(js) PROVE Tag(Worker!Marked(js, id)[i]) = LateTag(Tag(js[i]), id)
  <2> DEFINE j == js[i]
             m == Worker!Marked(js, id)[i]
  <2>1. m.key = j.key /\ m.call = j.call /\ m.place = j.place /\ (m.expired <=> j.expired \/ Worker!Id(j) = id)
    BY MarkedIs
  <2>2. j \in Worker!Job /\ m \in Worker!Job BY <1>1, ElementOfSeq
  <2>3. j.expired \in BOOLEAN /\ m.expired \in BOOLEAN BY <2>2 DEF Worker!Job
  <2> HIDE DEF j, m
  <2>4. m.expired = (j.expired \/ <<j.call, j.place>> = id) BY <2>1, <2>3 DEF Worker!Id
  <2>5. Tag(m) = LateTag(Tag(j), id) BY <2>1, <2>4 DEF Tag, LateTag
  <2> QED BY <2>5 DEF j, m
<1> QED BY <1>1, <1>2 DEF Tags

\* The worker, in the middle of a turn as well.
Workers == [there : BOOLEAN, unhealthy : BOOLEAN, queue : Seq(Worker!Job), bytes : Int,
            active : Seq(Worker!Job), activeBytes : Int, recovery : Seq(Keys), recoveryBytes : Int]

\* The same worker but for what is in work.
Beside(v, w) ==
  /\ v \in Workers /\ v.there = w.there /\ v.unhealthy = w.unhealthy
  /\ v.recovery = w.recovery /\ v.recoveryBytes = w.recoveryBytes

\* A turn leaves the job in the queue, drops an expired one, or begins one.
LEMMA TurnIs ==
  ASSUME Worker!ReceiptConstants, NEW w \in Workers, NEW j \in Worker!Job
  PROVE  LET v == Worker!Turn(w, j) IN
         /\ Beside(v, w)
         /\ \/ v.queue = Append(w.queue, j) /\ v.active = w.active /\ v.bytes = w.bytes
               /\ v.activeBytes = w.activeBytes
            \/ v.queue = w.queue /\ v.active = w.active /\ v.bytes = w.bytes - Size[j.key] /\ j.expired
               /\ v.activeBytes = w.activeBytes
            \/ /\ ~ (Len(w.active) >= Concurrent) /\ v.queue = w.queue /\ v.bytes = w.bytes - Size[j.key]
               /\ v.activeBytes = w.activeBytes + Size[j.key]
               /\ \E n \in Worker!Job : v.active = Append(w.active, n) /\ n.key = j.key /\ Tag(n) = Tag(j)
<1>1. j.key \in Keys /\ Size[j.key] \in Nat BY DEF Worker!ReceiptConstants, Worker!Job
<1>2. w.queue \in Seq(Worker!Job) /\ w.active \in Seq(Worker!Job) /\ w.bytes \in Int /\ w.activeBytes \in Int
  BY DEF Workers
<1>3. CASE Len(w.active) >= Concurrent
  <2>1. Worker!Turn(w, j) = [w EXCEPT !.queue = Append(w.queue, j)] BY <1>3 DEF Worker!Turn
  <2>2. Append(w.queue, j) \in Seq(Worker!Job) BY <1>2, AppendProperties
  <2> QED BY <2>1, <2>2 DEF Workers, Beside
<1>4. CASE ~ (Len(w.active) >= Concurrent) /\ j.expired
  <2>1. Worker!Turn(w, j) = [w EXCEPT !.bytes = w.bytes - Size[j.key]] BY <1>4 DEF Worker!Turn
  <2>2. w.bytes - Size[j.key] \in Int BY <1>1, <1>2
  <2> QED BY <1>4, <2>1, <2>2 DEF Workers, Beside
<1>5. CASE ~ (Len(w.active) >= Concurrent) /\ ~ j.expired
  <2> DEFINE n == [j EXCEPT !.found = j.key \in journal]
             b == w.bytes - Size[j.key]
             a == w.activeBytes + Size[j.key]
             q == Append(w.active, n)
  <2>1. Worker!Turn(w, j) = [w EXCEPT !.bytes = b, !.activeBytes = a, !.active = q] BY <1>5 DEF Worker!Turn
  <2>2. n \in Worker!Job /\ n.key = j.key /\ Tag(n) = Tag(j)
    <3>1. \A e \in BOOLEAN : LET m == [j EXCEPT !.found = e] IN
            m \in Worker!Job /\ m.key = j.key /\ m.call = j.call /\ m.place = j.place /\ m.expired = j.expired
      BY DEF Worker!Job
    <3>2. (j.key \in journal) \in BOOLEAN OBVIOUS
    <3>3. n \in Worker!Job /\ n.key = j.key /\ n.call = j.call /\ n.place = j.place /\ n.expired = j.expired
      BY <3>1, <3>2, Zenon
    <3> HIDE DEF n
    <3> QED BY <3>3 DEF Tag
  <2> HIDE DEF n
  <2>3. b \in Int /\ a \in Int BY <1>1, <1>2
  <2>4. q \in Seq(Worker!Job) BY <1>2, <2>2, AppendProperties
  <2>5. q = Append(w.active, n) /\ b = w.bytes - Size[j.key] /\ a = w.activeBytes + Size[j.key] OBVIOUS
  <2> HIDE DEF b, a, q
  <2>6. LET v == Worker!Turn(w, j) IN
        Beside(v, w) /\ v.queue = w.queue /\ v.bytes = b /\ v.activeBytes = a /\ v.active = q
    BY <2>1, <2>3, <2>4 DEF Workers, Beside
  <2> QED BY <1>5, <2>2, <2>5, <2>6
<1> QED BY <1>3, <1>4, <1>5

\* The counters of the queue and of the slots are those of a worker between calls.
Counted(w) ==
  /\ w \in Workers /\ Len(w.active) <= Concurrent
  /\ w.bytes = Bytes(w.queue) /\ w.activeBytes = Bytes(w.active)

\* After the first i turns of a pump of w, with the sums t of its queue.
Turned(v, w, i, t) ==
  /\ Beside(v, w) /\ Len(v.active) <= Concurrent /\ Len(v.queue) + Len(v.active) <= i + Len(w.active)
  /\ v.bytes = Bytes(v.queue) + (t[Len(w.queue)] - t[i]) /\ v.activeBytes = Bytes(v.active)
  /\ v.bytes + v.activeBytes <= w.bytes + w.activeBytes
  /\ Work(v) \subseteq Work(w)
  /\ Tags(w.active) \subseteq Work(v)
  /\ \A m \in 1 .. i : w.queue[m].expired \/ Tag(w.queue[m]) \in Work(v)

\* The next turn keeps the sums, the limits and what is in work.
LEMMA TurnedNext ==
  ASSUME Worker!ReceiptConstants, NEW w \in Workers, Counted(w), NEW t, SumSteps(t, 0, Worker!KeysOf(w.queue)),
         NEW i \in 1 .. Len(w.queue), NEW u, Turned(u, w, i - 1, t)
  PROVE  Turned(Worker!Turn(u, w.queue[i]), w, i, t)
<1> DEFINE j == w.queue[i]
           v == Worker!Turn(u, j)
           n == Len(w.queue)
<1>1. w.queue \in Seq(Worker!Job) /\ w.active \in Seq(Worker!Job) /\ w.bytes \in Int
      /\ w.activeBytes \in Int /\ n \in Nat
      /\ Len(w.active) \in Nat
  BY LenProperties DEF Workers
<1>2. u \in Workers BY DEF Turned, Beside
<1>3. u.queue \in Seq(Worker!Job) /\ u.active \in Seq(Worker!Job) /\ u.bytes \in Int /\ u.activeBytes \in Int
      /\ Len(u.queue) \in Nat /\ Len(u.active) \in Nat
  BY <1>2, LenProperties DEF Workers
<1>4. j \in Worker!Job BY <1>1, ElementOfSeq
<1>5. j.key \in Keys /\ Size[j.key] \in Nat BY <1>4 DEF Worker!ReceiptConstants, Worker!Job
<1>6. Worker!KeysOf(w.queue) \in Seq(Keys) /\ Len(Worker!KeysOf(w.queue)) = n
      /\ Worker!KeysOf(w.queue)[i] = j.key
  BY <1>1, KeysAre
<1>7. t[i] = t[i - 1] + Size[j.key] BY <1>6 DEF SumSteps
<1>8. t[i] \in Nat /\ t[i - 1] \in Nat /\ t[n] \in Nat
  <2>1. i \in 0 .. n /\ i - 1 \in 0 .. n /\ n \in 0 .. n BY <1>1
  <2> QED BY <1>6, <2>1, PrefixNat
<1>9. Bytes(u.queue) \in Nat /\ Bytes(u.active) \in Nat BY <1>3, BytesNat
<1>10. Tag(j) \in Work(w) BY DEF Work, Tags
<1>11. Beside(u, w) /\ Len(u.active) <= Concurrent /\ Len(u.queue) + Len(u.active) <= (i - 1) + Len(w.active)
       /\ u.bytes = Bytes(u.queue) + (t[n] - t[i - 1]) /\ u.activeBytes = Bytes(u.active)
       /\ u.bytes + u.activeBytes <= w.bytes + w.activeBytes
       /\ Work(u) \subseteq Work(w) /\ Tags(w.active) \subseteq Work(u)
       /\ \A m \in 1 .. (i - 1) : w.queue[m].expired \/ Tag(w.queue[m]) \in Work(u)
  BY DEF Turned
<1>12. \A m \in 1 .. i : m \in 1 .. (i - 1) \/ m = i BY <1>1
<1>13. i \in Nat /\ Concurrent \in Nat BY <1>1 DEF Worker!ReceiptConstants
<1>14. Beside(v, u)
       /\ \/ v.queue = Append(u.queue, j) /\ v.active = u.active /\ v.bytes = u.bytes
             /\ v.activeBytes = u.activeBytes
          \/ v.queue = u.queue /\ v.active = u.active /\ v.bytes = u.bytes - Size[j.key] /\ j.expired
             /\ v.activeBytes = u.activeBytes
          \/ /\ ~ (Len(u.active) >= Concurrent) /\ v.queue = u.queue /\ v.bytes = u.bytes - Size[j.key]
             /\ v.activeBytes = u.activeBytes + Size[j.key]
             /\ \E e \in Worker!Job : v.active = Append(u.active, e) /\ e.key = j.key /\ Tag(e) = Tag(j)
  BY <1>2, <1>4, TurnIs
<1>15. Beside(v, w) BY <1>11, <1>14 DEF Beside
<1> DEFINE uq == Len(u.queue)  ua == Len(u.active)  wa == Len(w.active)  vq == Len(v.queue)  va == Len(v.active)
           ub == u.bytes  uc == u.activeBytes  wb == w.bytes  wc == w.activeBytes  vb == v.bytes  vc == v.activeBytes
           us == Bytes(u.queue)  vs == Bytes(v.queue)  k == Size[j.key]
           ti == t[i]  tp == t[i - 1]  tn == t[n]
<1>16. SUFFICES /\ va <= Concurrent /\ vq + va <= i + wa /\ vb = vs + (tn - ti) /\ vc = Bytes(v.active)
                /\ vb + vc <= wb + wc
                /\ Work(v) \subseteq Work(w) /\ Work(u) \subseteq Work(v)
                /\ (j.expired \/ Tag(j) \in Work(v))
  <2>1. Tags(w.active) \subseteq Work(v) BY <1>11, <1>16
  <2>2. \A m \in 1 .. i : w.queue[m].expired \/ Tag(w.queue[m]) \in Work(v) BY <1>11, <1>12, <1>16
  <2> QED BY <1>15, <1>16, <2>1, <2>2 DEF Turned
<1>20. uq + ua <= (i - 1) + wa /\ ub = us + (tn - tp) /\ ub + uc <= wb + wc BY <1>11
<1>21. uq \in Nat /\ ua \in Nat /\ wa \in Nat /\ ub \in Int /\ uc \in Int /\ wb \in Int /\ wc \in Int
       /\ us \in Nat
  BY <1>1, <1>3, <1>9
<1>22. k \in Nat /\ ti = tp + k /\ ti \in Nat /\ tp \in Nat /\ tn \in Nat BY <1>5, <1>7, <1>8
<1>17. CASE v.queue = Append(u.queue, j) /\ v.active = u.active /\ v.bytes = u.bytes
            /\ v.activeBytes = u.activeBytes
  <2>0. va = ua /\ vb = ub /\ vc = uc /\ vc = Bytes(v.active) /\ ua <= Concurrent BY <1>11, <1>17
  <2>1. vq = uq + 1 BY <1>3, <1>4, <1>17, AppendProperties
  <2>2. vs = us + k BY <1>3, <1>4, <1>17, BytesAppend
  <2>3. Tags(v.queue) = Tags(u.queue) \cup {Tag(j)} BY <1>3, <1>4, <1>17, TagsAppend
  <2>6. Work(v) = Work(u) \cup {Tag(j)} BY <1>17, <2>3 DEF Work
  <2>7. Work(v) \subseteq Work(w) BY <1>10, <1>11, <2>6
  <2> HIDE DEF uq, ua, wa, vq, va, ub, uc, wb, wc, vb, vc, us, vs, k, ti, tp, tn
  <2>4. vq + va <= i + wa BY <1>13, <1>20, <1>21, <2>0, <2>1
  <2>5. vb = vs + (tn - ti)
    <3>1. ub = us + (tn - tp) /\ vb = ub /\ vs = us + k BY <1>20, <2>0, <2>2
    <3>2. vs \in Int /\ tn - ti = tn - (tp + k) BY <1>21, <1>22, <2>2
    <3> QED BY <1>21, <1>22, <3>1, <3>2
  <2> QED BY <1>20, <2>0, <2>4, <2>5, <2>6, <2>7
<1>18. CASE v.queue = u.queue /\ v.active = u.active /\ v.bytes = u.bytes - Size[j.key] /\ j.expired
            /\ v.activeBytes = u.activeBytes
  <2>0. va = ua /\ vq = uq /\ vb = ub - k /\ vs = us /\ vc = uc /\ vc = Bytes(v.active) /\ ua <= Concurrent
    BY <1>11, <1>18
  <2>4. Work(v) = Work(u) BY <1>18 DEF Work
  <2>5. Work(v) \subseteq Work(w) BY <1>11, <2>4
  <2> HIDE DEF uq, ua, wa, vq, va, ub, uc, wb, wc, vb, vc, us, vs, k, ti, tp, tn
  <2>1. vq + va <= i + wa BY <1>13, <1>20, <1>21, <2>0
  <2>2. vb = vs + (tn - ti) BY <1>20, <1>21, <1>22, <2>0
  <2>3. vb + vc <= wb + wc BY <1>20, <1>21, <1>22, <2>0
  <2> QED BY <1>18, <2>0, <2>1, <2>2, <2>3, <2>4, <2>5
<1>19. CASE /\ ~ (Len(u.active) >= Concurrent) /\ v.queue = u.queue /\ v.bytes = u.bytes - Size[j.key]
            /\ v.activeBytes = u.activeBytes + Size[j.key]
            /\ \E e \in Worker!Job : v.active = Append(u.active, e) /\ e.key = j.key /\ Tag(e) = Tag(j)
  <2>1. PICK e \in Worker!Job : v.active = Append(u.active, e) /\ e.key = j.key /\ Tag(e) = Tag(j) BY <1>19
  <2>2. va = ua + 1 BY <1>3, <2>1, AppendProperties
  <2>3. Bytes(v.active) = Bytes(u.active) + k BY <1>3, <2>1, BytesAppend
  <2>4. Tags(v.active) = Tags(u.active) \cup {Tag(j)} BY <1>3, <2>1, TagsAppend
  <2>0. vq = uq /\ vb = ub - k /\ vs = us /\ vc = uc + k /\ uc = Bytes(u.active) /\ ~ (ua >= Concurrent)
    BY <1>11, <1>19
  <2>8. vc = Bytes(v.active) BY <2>0, <2>3
  <2>10. Work(v) = Work(u) \cup {Tag(j)} BY <1>19, <2>4 DEF Work
  <2>11. Work(v) \subseteq Work(w) BY <1>10, <1>11, <2>10
  <2> HIDE DEF uq, ua, wa, vq, va, ub, uc, wb, wc, vb, vc, us, vs, k, ti, tp, tn
  <2>5. va <= Concurrent BY <1>13, <1>21, <2>0, <2>2
  <2>6. vq + va <= i + wa BY <1>13, <1>20, <1>21, <2>0, <2>2
  <2>7. vb = vs + (tn - ti) BY <1>20, <1>21, <1>22, <2>0
  <2>9. vb + vc <= wb + wc BY <1>20, <1>21, <1>22, <2>0
  <2> QED BY <2>5, <2>6, <2>7, <2>8, <2>9, <2>10, <2>11
<1> QED BY <1>14, <1>17, <1>18, <1>19

\* pump keeps the counters, brings nothing new, and drops expired jobs only.
Pumped(v, w) ==
  /\ Counted(v) /\ Beside(v, w) /\ Len(v.queue) + Len(v.active) <= Len(w.queue) + Len(w.active)
  /\ v.bytes + v.activeBytes <= w.bytes + w.activeBytes
  /\ Work(v) \subseteq Work(w) /\ \A x \in Work(w) : x[4] \/ x \in Work(v)

\* By the least turn that would not.
LEMMA PumpIs ==
  ASSUME Worker!ReceiptConstants, NEW w \in Workers, Counted(w)
  PROVE  Pumped(Worker!Pump(w), w)
<1> DEFINE q == w.queue
           b == [w EXCEPT !.queue = <<>>]
<1>1. q \in Seq(Worker!Job) /\ w.active \in Seq(Worker!Job) /\ Len(q) \in Nat /\ Len(w.active) \in Nat
      /\ w.bytes \in Int /\ w.activeBytes \in Int
  BY LenProperties DEF Workers
<1>2. PICK g : TurnSteps(g, b, q) /\ Worker!FoldLeft(Worker!Turn, b, q) = g[Len(q)] BY <1>1, TurnFold
<1>3. Worker!Pump(w) = g[Len(q)] BY <1>2 DEF Worker!Pump
<1>4. TurnSteps(g, b, q) BY <1>2, Zenon
<1>5. Worker!KeysOf(q) \in Seq(Keys) /\ Len(Worker!KeysOf(q)) = Len(q) BY <1>1, KeysAre
<1>6. PICK t : SumSteps(t, 0, Worker!KeysOf(q)) BY <1>5, TotalSteps
<1>7. t[Len(q)] = Bytes(q) /\ t[0] = 0 BY <1>5, <1>6, TotalSteps DEF Bytes, SumSteps
<1>8. Turned(g[0], w, 0, t)
  <2>1. g[0] = b BY <1>4 DEF TurnSteps
  <2>2. Beside(b, w) /\ b.queue = <<>> /\ b.active = w.active /\ b.bytes = w.bytes
        /\ b.activeBytes = w.activeBytes
    <3>1. <<>> \in Seq(Worker!Job) BY EmptySeq
    <3> QED BY <3>1 DEF Workers, Beside
  <2> HIDE DEF b
  <2>3. Len(b.queue) = 0 /\ Bytes(b.queue) = 0 /\ Tags(b.queue) = {} BY <2>2, EmptySeq, BytesEmpty, TagsEmpty
  <2>4. Bytes(q) \in Nat BY <1>1, BytesNat
  <2>5. Work(b) = Tags(w.active) BY <2>2, <2>3 DEF Work
  <2>6. Len(b.queue) + Len(b.active) <= 0 + Len(w.active) BY <1>1, <2>2, <2>3
  <2>7. b.bytes = Bytes(b.queue) + (t[Len(w.queue)] - t[0]) BY <1>7, <2>2, <2>3, <2>4 DEF Counted
  <2>8. b.bytes + b.activeBytes <= w.bytes + w.activeBytes BY <1>1, <2>2
  <2>9. 1 .. 0 = {} OBVIOUS
  <2> QED BY <2>1, <2>2, <2>5, <2>6, <2>7, <2>8, <2>9 DEF Turned, Counted, Work
<1>9. \A i \in Nat : i <= Len(q) => Turned(g[i], w, i, t)
  <2> DEFINE T == {i \in Nat : i <= Len(q) /\ ~ Turned(g[i], w, i, t)}
  <2> SUFFICES ASSUME T # {} PROVE FALSE OBVIOUS
  <2>1. PICK x \in T : \A y \in T : x <= y
    <3>1. T \subseteq Nat OBVIOUS
    <3> HIDE DEF T
    <3> QED BY <3>1, Least
  <2>2. x # 0 BY <1>8
  <2>3. x \in 1 .. Len(q) /\ x - 1 \in Nat /\ x - 1 <= Len(q) /\ ~ (x <= x - 1) BY <1>1, <2>2
  <2>4. Turned(g[x - 1], w, x - 1, t) BY <2>1, <2>3
  <2>5. g[x] = Worker!Turn(g[x - 1], q[x]) BY <1>4, <2>3 DEF TurnSteps
  <2>6. Turned(g[x], w, x, t) BY <1>6, <2>3, <2>4, <2>5, TurnedNext
  <2> QED BY <2>6
<1>10. Turned(g[Len(q)], w, Len(q), t)
  <2>1. Len(q) <= Len(q) BY <1>1
  <2> QED BY <1>1, <1>9, <2>1
<1> DEFINE v == Worker!Pump(w)
<1>11. Turned(v, w, Len(q), t) BY <1>3, <1>10
<1> HIDE DEF v, b
<1>12. v.bytes = Bytes(v.queue)
  <2>1. v.queue \in Seq(Worker!Job) BY <1>11 DEF Turned, Beside, Workers
  <2>2. Bytes(v.queue) \in Nat /\ Bytes(q) \in Nat BY <1>1, <2>1, BytesNat
  <2> QED BY <1>7, <1>11, <2>2 DEF Turned
<1>13. \A x \in Work(w) : x[4] \/ x \in Work(v)
  <2>1. \A m \in 1 .. Len(q) : q[m].expired \/ Tag(q[m]) \in Work(v) BY <1>11 DEF Turned
  <2>2. \A m \in 1 .. Len(q) : Tag(q[m])[4] = q[m].expired BY DEF Tag
  <2> QED BY <1>11, <2>1, <2>2 DEF Turned, Work, Tags
<1>14. Pumped(v, w) BY <1>11, <1>12, <1>13 DEF Turned, Pumped, Counted, Beside
<1> QED BY <1>14 DEF v

-----------------------------------------------------------------------------
\* A worker between calls: its counters tell what is there, within the limits.
Firm(w) ==
  /\ Counted(w) /\ w.recoveryBytes = Worker!Total(w.recovery)
  /\ Len(w.queue) + Len(w.active) <= QueueItems /\ w.bytes + w.activeBytes <= QueueBytes
  /\ Len(w.recovery) <= RecoveryItems /\ w.recoveryBytes <= RecoveryBytes
  /\ \A i, m \in 1 .. Len(w.recovery) : w.recovery[i] = w.recovery[m] => i = m

\* A pump leaves a firm worker firm.
LEMMA FirmPump ==
  ASSUME Worker!ReceiptConstants, NEW w \in Workers, Firm(w)
  PROVE  Firm(Worker!Pump(w)) /\ Pumped(Worker!Pump(w), w)
<1> DEFINE v == Worker!Pump(w)
<1>1. Pumped(v, w) BY PumpIs DEF Firm
<1>2. w.queue \in Seq(Worker!Job) /\ w.active \in Seq(Worker!Job) /\ w.bytes \in Int /\ w.activeBytes \in Int
  BY DEF Workers
<1>3. v.queue \in Seq(Worker!Job) /\ v.active \in Seq(Worker!Job) /\ v.bytes \in Int /\ v.activeBytes \in Int
  BY <1>1 DEF Pumped, Beside, Workers
<1> HIDE DEF v
<1> DEFINE vq == Len(v.queue)  va == Len(v.active)  wq == Len(w.queue)  wa == Len(w.active)
           vb == v.bytes  vc == v.activeBytes  wb == w.bytes  wc == w.activeBytes
<1>4. /\ vq \in Nat /\ va \in Nat /\ wq \in Nat /\ wa \in Nat
      /\ vb \in Int /\ vc \in Int /\ wb \in Int /\ wc \in Int
      /\ vq + va <= wq + wa /\ vb + vc <= wb + wc /\ wq + wa <= QueueItems /\ wb + wc <= QueueBytes
  BY <1>1, <1>2, <1>3, LenProperties DEF Pumped, Firm
<1>5. QueueItems \in Nat /\ QueueBytes \in Nat BY DEF Worker!ReceiptConstants
<1>6. vq + va <= QueueItems /\ vb + vc <= QueueBytes
  <2> HIDE DEF vq, va, wq, wa, vb, vc, wb, wc
  <2> QED BY <1>4, <1>5
<1>7. v.recovery = w.recovery /\ v.recoveryBytes = w.recoveryBytes /\ Counted(v) BY <1>1 DEF Pumped, Beside
<1>8. Firm(v) BY <1>6, <1>7 DEF Firm
<1> QED BY <1>1, <1>8 DEF v

\* The worker with what it waits for, lets go and has met, in the middle of a call.
States == [w : Workers, waits : SUBSET (Worker!Calls \X Nat), lost : SUBSET Keys, gap : BOOLEAN]
Fine(c) == c \in States /\ Firm(c.w)

\* Nothing is forgotten from c to d: gaps, what is retained or let go, and work
\* that is still waited for.
Grows(c, d) ==
  /\ c.gap => d.gap
  /\ c.w.unhealthy => d.w.unhealthy
  /\ Kept(c.w) \subseteq Kept(d.w) /\ c.lost \subseteq d.lost
  /\ \A x \in Work(c.w) : x[4] \/ x \in Work(d.w)

\* What a sequence holds it holds with one more, and the one more.
LEMMA KeptAppend ==
  ASSUME Worker!ReceiptConstants, NEW s \in Seq(Keys), NEW k \in Keys
  PROVE  /\ \A i \in 1 .. Len(s) : s[i] \in {Append(s, k)[m] : m \in 1 .. Len(Append(s, k))}
         /\ k \in {Append(s, k)[m] : m \in 1 .. Len(Append(s, k))}
<1>1. /\ Len(Append(s, k)) = Len(s) + 1
      /\ (\A i \in 1 .. Len(s) : Append(s, k)[i] = s[i]) /\ Append(s, k)[Len(s) + 1] = k
  BY AppendProperties
<1>2. Len(s) \in Nat BY LenProperties
<1>3. \A i \in 1 .. Len(s) : i \in 1 .. Len(Append(s, k)) BY <1>1, <1>2
<1>4. Len(s) + 1 \in 1 .. Len(Append(s, k)) BY <1>1, <1>2
<1> QED BY <1>1, <1>3, <1>4

\* A gap is known, and its key retained or let go.
LEMMA GapIs ==
  ASSUME Worker!ReceiptConstants, NEW c, Fine(c), NEW k \in Keys
  PROVE  LET d == Worker!Gap(c, k) IN
         /\ Fine(d) /\ Grows(c, d) /\ d.gap /\ d.w.unhealthy /\ d.waits = c.waits
         /\ d.w.queue = c.w.queue /\ d.w.active = c.w.active /\ d.w.there = c.w.there
         /\ d.w.bytes = c.w.bytes /\ d.w.activeBytes = c.w.activeBytes
         /\ k \in Kept(d.w) \cup d.lost
<1> DEFINE b == [c EXCEPT !.gap = TRUE, !.w.unhealthy = TRUE]
           d == Worker!Gap(c, k)
<1>1. c \in States /\ c.w \in Workers /\ Firm(c.w) BY DEF Fine, States
<1>2. b = [c EXCEPT !.gap = TRUE, !.w = [c.w EXCEPT !.unhealthy = TRUE]] BY <1>1 DEF States
<1>3. [c.w EXCEPT !.unhealthy = TRUE] \in Workers BY <1>1 DEF Workers
<1>4. /\ b \in States /\ b.gap = TRUE /\ b.w = [c.w EXCEPT !.unhealthy = TRUE] /\ b.waits = c.waits
         /\ b.lost = c.lost
  BY <1>1, <1>2, <1>3 DEF States
<1>5. /\ b.w \in Workers /\ b.w.unhealthy = TRUE /\ b.w.there = c.w.there /\ b.w.queue = c.w.queue
         /\ b.w.active = c.w.active
      /\ b.w.bytes = c.w.bytes /\ b.w.activeBytes = c.w.activeBytes /\ b.w.recovery = c.w.recovery
      /\ b.w.recoveryBytes = c.w.recoveryBytes
  BY <1>1, <1>3, <1>4 DEF Workers
<1>6. Firm(b.w) BY <1>1, <1>5 DEF Firm, Counted
<1>7. Grows(c, b) BY <1>4, <1>5 DEF Grows, Kept, Work
<1>8. c.w.recovery \in Seq(Keys) /\ DOMAIN c.w.recovery = 1 .. Len(c.w.recovery) /\ Len(c.w.recovery) \in Nat
  <2>1. c.w.recovery \in Seq(Keys) BY <1>1 DEF Workers
  <2> QED BY <2>1, LenProperties
<1> HIDE DEF b
<1>9. CASE Worker!Retained(c.w, k)
  <2>1. d = b BY <1>9 DEF Worker!Gap, b
  <2>2. k \in Kept(d.w) BY <1>5, <1>8, <1>9, <2>1 DEF Worker!Retained, Kept
  <2> HIDE DEF d
  <2> QED BY <1>4, <1>5, <1>6, <1>7, <2>1, <2>2 DEF Fine, d
<1>10. CASE ~ Worker!Retained(c.w, k) /\ Worker!Fits(c.w, k)
  <2> DEFINE q == Append(c.w.recovery, k)
             n == c.w.recoveryBytes + Size[k]
  <2>1. d = [b EXCEPT !.w.recovery = Append(@, k), !.w.recoveryBytes = @ + Size[k]] BY <1>10 DEF Worker!Gap, b
  <2>2. d = [b EXCEPT !.w = [b.w EXCEPT !.recovery = q, !.recoveryBytes = n]]
    BY <1>4, <1>5, <2>1 DEF States, Workers
  <2>3. q \in Seq(Keys) /\ Worker!Total(q) = Worker!Total(c.w.recovery) + Size[k] BY <1>8, TotalAppend
  <2>4. n \in Int /\ n = Worker!Total(q) /\ n <= RecoveryBytes
    <3>1. Worker!Total(c.w.recovery) \in Nat /\ Size[k] \in Nat BY <1>8, TotalNat DEF Worker!ReceiptConstants
    <3>2. c.w.recoveryBytes = Worker!Total(c.w.recovery) BY <1>1 DEF Firm
    <3>3. n <= RecoveryBytes BY <1>10 DEF Worker!Fits
    <3> QED BY <2>3, <3>1, <3>2, <3>3
  <2>5. Len(q) = Len(c.w.recovery) + 1 /\ (\A i \in 1 .. Len(c.w.recovery) : q[i] = c.w.recovery[i])
        /\ q[Len(c.w.recovery) + 1] = k
    BY <1>8, AppendProperties
  <2>6. Len(q) <= RecoveryItems
    <3>1. Len(c.w.recovery) < RecoveryItems /\ RecoveryItems \in Nat
      BY <1>10 DEF Worker!ReceiptConstants, Worker!Fits
    <3> QED BY <1>8, <2>5, <3>1
  <2>7. \A i, m \in 1 .. Len(q) : q[i] = q[m] => i = m
    <3>1. \A i \in 1 .. Len(q) : i \in 1 .. Len(c.w.recovery) \/ i = Len(c.w.recovery) + 1 BY <1>8, <2>5
    <3>2. \A i \in 1 .. Len(c.w.recovery) : c.w.recovery[i] # k BY <1>8, <1>10 DEF Worker!Retained
    <3>3. \A i, m \in 1 .. Len(c.w.recovery) : c.w.recovery[i] = c.w.recovery[m] => i = m BY <1>1 DEF Firm
    <3> HIDE DEF q
    <3> QED BY <2>5, <3>1, <3>2, <3>3
  <2>8. (\A i \in 1 .. Len(c.w.recovery) : c.w.recovery[i] \in {q[m] : m \in 1 .. Len(q)})
         /\ k \in {q[m] : m \in 1 .. Len(q)}
    BY <1>8, KeptAppend
  <2> HIDE DEF q, n, d
  <2>9. LET v == [b.w EXCEPT !.recovery = q, !.recoveryBytes = n] IN
        /\ v \in Workers /\ v.unhealthy = TRUE /\ v.there = c.w.there /\ v.queue = c.w.queue
           /\ v.active = c.w.active
        /\ v.bytes = c.w.bytes /\ v.activeBytes = c.w.activeBytes /\ v.recovery = q /\ v.recoveryBytes = n
    BY <1>5, <2>3, <2>4 DEF Workers
  <2> DEFINE v == [b.w EXCEPT !.recovery = q, !.recoveryBytes = n]
  <2>10. d \in States /\ d.gap = TRUE /\ d.w = v /\ d.waits = c.waits /\ d.lost = c.lost
    BY <1>4, <2>2, <2>9 DEF States
  <2> HIDE DEF v
  <2>11. /\ v \in Workers /\ v.unhealthy = TRUE /\ v.there = c.w.there /\ v.queue = c.w.queue
            /\ v.active = c.w.active
         /\ v.bytes = c.w.bytes /\ v.activeBytes = c.w.activeBytes /\ v.recovery = q /\ v.recoveryBytes = n
    BY <2>9 DEF v
  <2>12. Firm(v) BY <1>1, <2>4, <2>6, <2>7, <2>11 DEF Firm, Counted
  <2>13. Kept(c.w) \subseteq Kept(v) /\ k \in Kept(v) /\ Work(v) = Work(c.w) BY <2>8, <2>11 DEF Kept, Work
  <2>14. Grows(c, d) BY <2>10, <2>11, <2>13 DEF Grows
  <2> QED BY <2>10, <2>11, <2>12, <2>13, <2>14 DEF Fine, d
<1>11. CASE ~ Worker!Retained(c.w, k) /\ ~ Worker!Fits(c.w, k)
  <2>1. d = [b EXCEPT !.lost = c.lost \cup {k}] BY <1>4, <1>11 DEF Worker!Gap, b
  <2>2. d \in States /\ d.gap = TRUE /\ d.w = b.w /\ d.waits = c.waits /\ d.lost = c.lost \cup {k}
    <3>1. c.lost \cup {k} \in SUBSET Keys BY <1>1 DEF States
    <3> HIDE DEF d
    <3> QED BY <1>4, <2>1, <3>1 DEF States
  <2> HIDE DEF d
  <2>3. Grows(c, d) BY <1>7, <2>2 DEF Grows
  <2> QED BY <1>5, <1>6, <2>2, <2>3 DEF Fine, d
<1> QED BY <1>9, <1>10, <1>11

\* What a submitted job leaves: it is waited for, or a gap.
Submitted(d, c, j) ==
  /\ Fine(d) /\ Grows(c, d)
  /\ c.waits \subseteq d.waits /\ d.waits \subseteq c.waits \cup {Worker!Id(j)}
  /\ Worker!Id(j) \in d.waits \/ (d.gap /\ d.w.unhealthy)
  /\ Work(d.w) \subseteq Work(c.w) \cup {Tag(j)}
  /\ Tag(j) \in Work(d.w) \/ j.key \in Kept(d.w) \cup d.lost
  /\ d.w.there = c.w.there

\* A submit queues the job and pumps, or is a gap (saturated).
LEMMA SubmitIs ==
  ASSUME Worker!ReceiptConstants, NEW c, Fine(c), NEW j \in Worker!Job, ~ j.expired
  PROVE  Submitted(Worker!Submit(c, j), c, j)
<1>1. j.key \in Keys /\ Worker!Id(j) \in Worker!Calls \X Nat /\ Size[j.key] \in Nat
  BY DEF Worker!ReceiptConstants, Worker!Job, Worker!Id
<1>2. CASE Worker!Saturated(c.w, j.key)
  <2>1. Worker!Submit(c, j) = Worker!Gap(c, j.key) BY <1>2 DEF Worker!Submit
  <2> DEFINE d == Worker!Gap(c, j.key)
  <2>2. /\ Fine(d) /\ Grows(c, d) /\ d.gap /\ d.w.unhealthy /\ d.waits = c.waits
        /\ d.w.queue = c.w.queue /\ d.w.active = c.w.active /\ d.w.there = c.w.there
        /\ j.key \in Kept(d.w) \cup d.lost
    BY <1>1, GapIs
  <2> HIDE DEF d
  <2>3. Submitted(d, c, j) BY <2>2 DEF Submitted, Work
  <2> QED BY <2>1, <2>3 DEF d
<1>3. CASE ~ Worker!Saturated(c.w, j.key)
  <2> DEFINE w == c.w
             q == Append(w.queue, j)
             n == w.bytes + Size[j.key]
             v == [w EXCEPT !.queue = q, !.bytes = n]
             p == Worker!Pump(v)
             d == Worker!Submit(c, j)
  <2>1. c \in States /\ w \in Workers /\ Firm(w) BY DEF Fine, States
  <2>2. d = [c EXCEPT !.waits = c.waits \cup {Worker!Id(j)}, !.w = p] BY <1>3, <2>1 DEF Worker!Submit, States
  <2>3. w.queue \in Seq(Worker!Job) /\ w.active \in Seq(Worker!Job) /\ w.bytes \in Int /\ w.activeBytes \in Int
    BY <2>1 DEF Workers
  <2>4. q \in Seq(Worker!Job) /\ Len(q) = Len(w.queue) + 1 BY <2>3, AppendProperties
  <2>5. n \in Int BY <1>1, <2>3
  <2>6. Bytes(q) = n BY <2>1, <2>3, BytesAppend DEF Firm, Counted
  <2>7. Tags(q) = Tags(w.queue) \cup {Tag(j)} BY <2>3, TagsAppend
  <2>8. /\ v \in Workers /\ v.queue = q /\ v.bytes = n /\ v.active = w.active /\ v.activeBytes = w.activeBytes
        /\ v.recovery = w.recovery /\ v.recoveryBytes = w.recoveryBytes /\ v.unhealthy = w.unhealthy
           /\ v.there = w.there
    <3> HIDE DEF q, n, w
    <3> QED BY <2>1, <2>4, <2>5 DEF Workers
  <2> HIDE DEF v, p, d
  <2>9. Len(q) + Len(w.active) <= QueueItems /\ n + w.activeBytes <= QueueBytes
    <3> DEFINE a == Len(w.queue)  e == Len(w.active)  f == w.bytes  g == w.activeBytes  k == Size[j.key]
    <3>1. a \in Nat /\ e \in Nat /\ f \in Int /\ g \in Int /\ k \in Nat /\ QueueItems \in Nat
          /\ QueueBytes \in Nat
      BY <1>1, <2>3, LenProperties DEF Worker!ReceiptConstants
    <3>2. ~ (a + e >= QueueItems) /\ ~ (f + g + k > QueueBytes) BY <1>3 DEF Worker!Saturated
    <3>3. Len(q) = a + 1 /\ n = f + k BY <2>4
    <3> HIDE DEF a, e, f, g, k, q, n
    <3>4. (a + 1) + e <= QueueItems /\ (f + k) + g <= QueueBytes BY <3>1, <3>2
    <3> QED BY <3>3, <3>4 DEF e, g
  <2>10. Firm(v) BY <2>1, <2>6, <2>8, <2>9 DEF Firm, Counted
  <2>11. Firm(p) /\ Pumped(p, v) BY <2>8, <2>10, FirmPump DEF p
  <2>12. p \in Workers /\ p.recovery = w.recovery /\ p.unhealthy = w.unhealthy /\ p.there = w.there
    BY <2>8, <2>11 DEF Pumped, Beside
  <2>13. Work(p) \subseteq Work(v) /\ \A x \in Work(v) : x[4] \/ x \in Work(p) BY <2>11 DEF Pumped
  <2>14. Work(v) = Work(w) \cup {Tag(j)} BY <2>7, <2>8 DEF Work
  <2>15. Tag(j)[4] = j.expired BY DEF Tag
  <2>16. /\ d \in States /\ d.w = p /\ d.waits = c.waits \cup {Worker!Id(j)} /\ d.lost = c.lost /\ d.gap = c.gap
    <3>1. c.waits \cup {Worker!Id(j)} \in SUBSET (Worker!Calls \X Nat) BY <1>1, <2>1 DEF States
    <3> QED BY <2>1, <2>2, <2>12, <3>1 DEF States
  <2>17. Kept(p) = Kept(w) BY <2>12 DEF Kept
  <2>18. Grows(c, d) BY <2>12, <2>13, <2>14, <2>16, <2>17 DEF Grows
  <2>19. Tag(j) \in Work(p) BY <2>13, <2>14, <2>15
  <2>20. Submitted(d, c, j) BY <2>11, <2>12, <2>13, <2>14, <2>16, <2>18, <2>19 DEF Submitted, Fine
  <2> QED BY <2>20 DEF d
<1> QED BY <1>2, <1>3


\* The types of what is known of a job.
LEMMA WorkIs ==
  ASSUME Worker!ReceiptConstants, NEW w \in Workers, NEW x \in Work(w)
  PROVE  x[1] \in Worker!Calls /\ x[2] \in Nat /\ x[3] \in Keys /\ x[4] \in BOOLEAN
<1>1. w.queue \in Seq(Worker!Job) /\ w.active \in Seq(Worker!Job) BY DEF Workers
<1>2. PICK js \in Seq(Worker!Job) : x \in Tags(js) BY <1>1 DEF Work
<1>3. PICK i \in 1 .. Len(js) : x = Tag(js[i]) BY <1>2 DEF Tags
<1>4. js[i] \in Worker!Job BY ElementOfSeq
<1> DEFINE j == js[i]
<1>5. j.call \in Worker!Calls /\ j.place \in Nat /\ j.key \in Keys /\ j.expired \in BOOLEAN
  BY <1>4 DEF Worker!Job
<1> HIDE DEF j
<1>6. Tag(j)[1] = j.call /\ Tag(j)[2] = j.place /\ Tag(j)[3] = j.key /\ Tag(j)[4] = j.expired BY DEF Tag
<1> QED BY <1>3, <1>5, <1>6 DEF j

\* What the first n receipts of a packet leave.
Captured(d, c, h, p, n) ==
  /\ Fine(d) /\ Grows(c, d) /\ c.waits \subseteq d.waits
  /\ \A m \in 1 .. n : <<h, m>> \in d.waits \/ (d.gap /\ d.w.unhealthy)
  /\ \A x \in Work(d.w) : x \in Work(c.w) \/ \E m \in 1 .. n : x = <<h, m, p[m], FALSE>>
  /\ \A m \in 1 .. n : <<h, m, p[m], FALSE>> \in Work(d.w) \/ p[m] \in Kept(d.w) \cup d.lost

\* The next receipt of the packet.
LEMMA CapturedNext ==
  ASSUME Worker!ReceiptConstants, NEW c, Fine(c), NEW h \in Worker!Calls, NEW p \in Seq(Keys),
         NEW i \in 1 .. Len(p),
         NEW u, Captured(u, c, h, p, i - 1)
  PROVE  Captured(Worker!Submit(u, Worker!NewJob(h, i, p[i])), c, h, p, i)
<1> DEFINE j == Worker!NewJob(h, i, p[i])
           d == Worker!Submit(u, j)
<1>1. p[i] \in Keys /\ Len(p) \in Nat /\ i \in Nat BY ElementOfSeq, LenProperties
<1>2. /\ j \in Worker!Job /\ ~ j.expired /\ j.key = p[i] /\ Worker!Id(j) = <<h, i>>
         /\ Tag(j) = <<h, i, p[i], FALSE>>
  BY <1>1 DEF Worker!NewJob, Worker!Job, Worker!Id, Tag
<1> HIDE DEF j
<1>3. Fine(u) BY DEF Captured
<1>4. Submitted(d, u, j) BY <1>2, <1>3, SubmitIs
<1> HIDE DEF d
<1>5. \A m \in 1 .. i : m \in 1 .. (i - 1) \/ m = i BY <1>1
<1>6. Fine(d) /\ Grows(u, d) /\ Grows(c, u) /\ u.waits \subseteq d.waits /\ c.waits \subseteq u.waits
  BY <1>4 DEF Captured, Submitted
<1>7. Grows(c, d) BY <1>6 DEF Grows
<1>8. \A m \in 1 .. i : <<h, m>> \in d.waits \/ (d.gap /\ d.w.unhealthy)
  <2>1. <<h, i>> \in d.waits \/ (d.gap /\ d.w.unhealthy) BY <1>2, <1>4 DEF Submitted
  <2>2. \A m \in 1 .. (i - 1) : <<h, m>> \in u.waits \/ (u.gap /\ u.w.unhealthy) BY DEF Captured
  <2>3. u.gap /\ u.w.unhealthy => d.gap /\ d.w.unhealthy BY <1>6 DEF Grows
  <2> QED BY <1>5, <1>6, <2>1, <2>2, <2>3
<1>9. \A x \in Work(d.w) : x \in Work(c.w) \/ \E m \in 1 .. i : x = <<h, m, p[m], FALSE>>
  <2> TAKE x \in Work(d.w)
  <2>1. CASE x \in Work(u.w)
    <3>1. \A m \in 1 .. (i - 1) : m \in 1 .. i BY <1>1
    <3> QED BY <2>1, <3>1 DEF Captured
  <2>2. CASE x = Tag(j)
    <3>1. i \in 1 .. i BY <1>1
    <3> QED BY <1>2, <2>2, <3>1
  <2> QED BY <1>4, <2>1, <2>2 DEF Submitted
<1>10. ASSUME NEW m \in 1 .. i PROVE <<h, m, p[m], FALSE>> \in Work(d.w) \/ p[m] \in Kept(d.w) \cup d.lost
  <2>1. CASE m = i BY <1>2, <1>4, <2>1 DEF Submitted
  <2>2. CASE m \in 1 .. (i - 1)
    <3> DEFINE x == <<h, m, p[m], FALSE>>
    <3>1. x \in Work(u.w) \/ p[m] \in Kept(u.w) \cup u.lost BY <2>2 DEF Captured
    <3>2. x[4] = FALSE OBVIOUS
    <3> HIDE DEF x
    <3>3. x \in Work(u.w) => x \in Work(d.w) BY <1>6, <3>2 DEF Grows
    <3>4. Kept(u.w) \subseteq Kept(d.w) /\ u.lost \subseteq d.lost BY <1>6 DEF Grows
    <3>5. x \in Work(d.w) \/ p[m] \in Kept(d.w) \cup d.lost BY <3>1, <3>3, <3>4
    <3> QED BY <3>5 DEF x
  <2> QED BY <1>5, <2>1, <2>2
<1>11. Captured(d, c, h, p, i) BY <1>6, <1>7, <1>8, <1>9, <1>10 DEF Captured
<1> QED BY <1>11 DEF d, j

\* All of them: by the least one that would leave something else.
LEMMA CapturedIs ==
  ASSUME Worker!ReceiptConstants, NEW c, Fine(c), NEW h \in Worker!Calls, NEW p \in Seq(Keys)
  PROVE  Captured(Worker!FoldLeft(Worker!Submit, c, [i \in DOMAIN p |-> Worker!NewJob(h, i, p[i])]), c, h, p, Len(p))
<1> DEFINE q == [i \in DOMAIN p |-> Worker!NewJob(h, i, p[i])]
<1>1. Len(p) \in Nat /\ DOMAIN p = 1 .. Len(p) /\ \A i \in 1 .. Len(p) : p[i] \in Keys
  BY LenProperties, ElementOfSeq
<1>2. q \in Seq(Worker!Job) /\ Len(q) = Len(p) /\ \A i \in 1 .. Len(p) : q[i] = Worker!NewJob(h, i, p[i])
  <2>1. \A i \in 1 .. Len(p) : Worker!NewJob(h, i, p[i]) \in Worker!Job BY <1>1 DEF Worker!NewJob, Worker!Job
  <2>2. q = [i \in 1 .. Len(p) |-> Worker!NewJob(h, i, p[i])] BY <1>1
  <2>3. q \in [1 .. Len(p) -> Worker!Job] BY <2>1, <2>2
  <2>4. q \in Seq(Worker!Job) /\ DOMAIN q = 1 .. Len(p) BY <1>1, <2>3, SeqDef
  <2>5. \A i \in 1 .. Len(p) : q[i] = Worker!NewJob(h, i, p[i]) BY <2>2
  <2> HIDE DEF q
  <2>6. Len(q) = Len(p) BY <1>1, <2>4, LenProperties
  <2> QED BY <2>4, <2>5, <2>6
<1> HIDE DEF q
<1>3. PICK g : SubmitSteps(g, c, q) /\ Worker!FoldLeft(Worker!Submit, c, q) = g[Len(q)] BY <1>2, SubmitFold
<1>4. SubmitSteps(g, c, q) BY <1>3, Zenon
<1>5. Captured(g[0], c, h, p, 0)
  <2>1. g[0] = c BY <1>4 DEF SubmitSteps
  <2>2. 1 .. 0 = {} OBVIOUS
  <2>3. Grows(c, c) BY DEF Grows
  <2> QED BY <2>1, <2>2, <2>3 DEF Captured
<1>6. \A i \in Nat : i <= Len(p) => Captured(g[i], c, h, p, i)
  <2> DEFINE T == {i \in Nat : i <= Len(p) /\ ~ Captured(g[i], c, h, p, i)}
  <2> SUFFICES ASSUME T # {} PROVE FALSE OBVIOUS
  <2>1. PICK x \in T : \A y \in T : x <= y
    <3>1. T \subseteq Nat OBVIOUS
    <3> HIDE DEF T
    <3> QED BY <3>1, Least
  <2>2. x # 0 BY <1>5
  <2>3. x \in 1 .. Len(p) /\ x - 1 \in Nat /\ x - 1 <= Len(p) /\ ~ (x <= x - 1) BY <1>1, <2>2
  <2>4. Captured(g[x - 1], c, h, p, x - 1) BY <2>1, <2>3
  <2>5. g[x] = Worker!Submit(g[x - 1], Worker!NewJob(h, x, p[x])) BY <1>2, <1>4, <2>3 DEF SubmitSteps
  <2>6. Captured(g[x], c, h, p, x) BY <2>3, <2>4, <2>5, CapturedNext
  <2> QED BY <2>6
<1>7. Captured(g[Len(p)], c, h, p, Len(p))
  <2>1. Len(p) <= Len(p) BY <1>1
  <2> QED BY <1>1, <1>6, <2>1
<1>8. Worker!FoldLeft(Worker!Submit, c, q) = g[Len(p)] BY <1>2, <1>3
<1> QED BY <1>7, <1>8 DEF q

-----------------------------------------------------------------------------
\* The end of an append frees its slot, and drops only its job and expired ones.
LEMMA FreedIs ==
  ASSUME Worker!ReceiptConstants, NEW c, Fine(c), c.w.active = worker.active, NEW i \in 1 .. Len(worker.active)
  PROVE  LET d == Worker!Freed(c, i) IN
         /\ Fine(d) /\ d.waits = c.waits /\ d.lost = c.lost /\ d.gap = c.gap
         /\ d.w.unhealthy = c.w.unhealthy /\ Kept(d.w) = Kept(c.w) /\ Work(d.w) \subseteq Work(c.w)
         /\ \A x \in Work(c.w) : x[4] \/ x \in Work(d.w) \/ x = Tag(worker.active[i])
<1> DEFINE w == c.w
           a == w.active
           k == a[i].key
           q == Worker!RemoveAt(a, i)
           n == w.activeBytes - Size[k]
           v == [w EXCEPT !.active = q, !.activeBytes = n]
           p == Worker!Pump(v)
           d == Worker!Freed(c, i)
<1>1. c \in States /\ w \in Workers /\ Firm(w) BY DEF Fine, States
<1>2. d = [c EXCEPT !.w = p] BY DEF Worker!Freed
<1>3. w.queue \in Seq(Worker!Job) /\ a \in Seq(Worker!Job) /\ w.bytes \in Int /\ w.activeBytes \in Int
  BY <1>1 DEF Workers
<1>4. i \in 1 .. Len(a) /\ a[i] \in Worker!Job BY <1>3, ElementOfSeq
<1>5. k \in Keys /\ Size[k] \in Nat \ {0} BY <1>4 DEF Worker!ReceiptConstants, Worker!Job
<1>6. q \in Seq(Worker!Job) /\ Len(q) = Len(a) - 1 BY <1>3, <1>4, RemovedAt
<1>7. Bytes(q) = Bytes(a) - Size[k] /\ Bytes(a) = w.activeBytes
  BY <1>1, <1>3, <1>4, BytesRemoved DEF Firm, Counted
<1>8. /\ Tags(q) \subseteq Tags(a) /\ Tag(a[i]) \in Tags(a) /\ Tags(a) \subseteq Tags(q) \cup {Tag(a[i])}
  BY <1>3, <1>4, TagsRemoved
<1>9. n \in Int /\ Bytes(q) = n /\ n <= w.activeBytes
  <2> DEFINE e == w.activeBytes  z == Size[k]
  <2>1. e \in Int /\ z \in Nat BY <1>3, <1>5
  <2>2. n = e - z /\ Bytes(q) = e - z BY <1>7
  <2> HIDE DEF e, z, n
  <2>3. e - z <= e /\ e - z \in Int BY <2>1
  <2> QED BY <2>2, <2>3 DEF e
<1> HIDE DEF q, n, k
<1>10. /\ v \in Workers /\ v.queue = w.queue /\ v.bytes = w.bytes /\ v.active = q /\ v.activeBytes = n
       /\ v.recovery = w.recovery /\ v.recoveryBytes = w.recoveryBytes /\ v.unhealthy = w.unhealthy
  BY <1>1, <1>6, <1>9 DEF Workers
<1> HIDE DEF v, p, d
<1>11. /\ Len(q) <= Concurrent /\ Len(w.queue) + Len(q) <= QueueItems /\ w.bytes + n <= QueueBytes
  <2> DEFINE ql == Len(q)  al == Len(a)  wl == Len(w.queue)  b == w.bytes  e == w.activeBytes
  <2>1. /\ ql \in Nat /\ al \in Nat /\ wl \in Nat /\ b \in Int /\ e \in Int /\ ql = al - 1 /\ n \in Int
           /\ n <= e
        /\ al <= Concurrent /\ wl + al <= QueueItems /\ b + e <= QueueBytes
        /\ Concurrent \in Nat /\ QueueItems \in Nat /\ QueueBytes \in Nat
    BY <1>1, <1>3, <1>6, <1>9, LenProperties DEF Worker!ReceiptConstants, Firm, Counted
  <2> HIDE DEF ql, al, wl, b, e
  <2>2. ql <= Concurrent /\ wl + ql <= QueueItems /\ b + n <= QueueBytes BY <2>1
  <2> QED BY <2>2 DEF ql, wl, b
<1>12. Firm(v) BY <1>1, <1>9, <1>10, <1>11 DEF Firm, Counted
<1>13. Firm(p) /\ Pumped(p, v) BY <1>10, <1>12, FirmPump DEF p
<1>14. p \in Workers /\ p.recovery = w.recovery /\ p.unhealthy = w.unhealthy
  BY <1>10, <1>13 DEF Pumped, Beside
<1>15. Work(p) \subseteq Work(v) /\ \A x \in Work(v) : x[4] \/ x \in Work(p) BY <1>13 DEF Pumped
<1>16. Work(v) = Tags(w.queue) \cup Tags(q) /\ Work(w) = Tags(w.queue) \cup Tags(a) BY <1>10 DEF Work
<1>17. d \in States /\ d.w = p /\ d.waits = c.waits /\ d.lost = c.lost /\ d.gap = c.gap
  BY <1>1, <1>2, <1>14 DEF States
<1>18. Kept(p) = Kept(w) BY <1>14 DEF Kept
<1>19. Work(p) \subseteq Work(w) BY <1>8, <1>15, <1>16
<1>20. \A x \in Work(w) : x[4] \/ x \in Work(p) \/ x = Tag(a[i]) BY <1>8, <1>15, <1>16
<1>21. Fine(d) BY <1>13, <1>17 DEF Fine
<1>22. a = worker.active OBVIOUS
<1> QED BY <1>14, <1>17, <1>18, <1>19, <1>20, <1>21, <1>22 DEF d

\* The worker as it is, in the middle of no call.
LEMMA NowIs ==
  ASSUME Worker!ReceiptConstants, Worker!TypeOK, Firm(worker)
  PROVE  /\ Fine(Worker!Now) /\ Worker!Now.w = worker /\ Worker!Now.waits = waits
            /\ Worker!Now.lost = lost /\ Worker!Now.gap = FALSE
         /\ worker \in Workers
<1>1. worker \in Workers BY DEF Firm, Counted
<1>2. waits \in SUBSET (Worker!Calls \X Nat) /\ lost \in SUBSET Keys BY DEF Worker!TypeOK
<1>3. Worker!Now \in States /\ Worker!Now.w = worker /\ Worker!Now.waits = waits /\ Worker!Now.lost = lost
      /\ Worker!Now.gap = FALSE
  BY <1>1, <1>2 DEF Worker!Now, States
<1> QED BY <1>1, <1>3 DEF Fine

\* A worker of the same contents is as firm as before.
LEMMA SameFirm ==
  ASSUME Worker!ReceiptConstants, NEW w \in Workers, Firm(w), NEW v \in Workers,
         v.queue = w.queue, v.active = w.active, v.bytes = w.bytes, v.activeBytes = w.activeBytes,
         v.recovery = w.recovery, v.recoveryBytes = w.recoveryBytes
  PROVE  Firm(v) /\ Work(v) = Work(w) /\ Kept(v) = Kept(w)
<1>1. Counted(v) BY DEF Firm, Counted
<1>2. Len(v.queue) + Len(v.active) = Len(w.queue) + Len(w.active)
      /\ v.bytes + v.activeBytes = w.bytes + w.activeBytes
  OBVIOUS
<1>3. \A i, m \in 1 .. Len(v.recovery) : v.recovery[i] = v.recovery[m] => i = m BY DEF Firm
<1>4. Firm(v) BY <1>1, <1>2, <1>3 DEF Firm
<1> QED BY <1>4 DEF Work, Kept

\* A deadline marks what is in work, and forgets none of it.
LEMMA LateIs ==
  ASSUME Worker!ReceiptConstants, Worker!TypeOK, Firm(worker), NEW id
  PROVE  LET c == Worker!Resolved(Worker!Late(id), id) IN
         /\ Fine(c) /\ c.waits = waits \ {id} /\ c.lost = lost /\ c.w.unhealthy = worker.unhealthy
         /\ Kept(c.w) = Kept(worker) /\ Work(c.w) = {LateTag(x, id) : x \in Work(worker)}
<1> DEFINE q == Worker!Marked(worker.queue, id)
           a == Worker!Marked(worker.active, id)
           v == [worker EXCEPT !.queue = q, !.active = a]
           c == Worker!Resolved(Worker!Late(id), id)
<1>1. /\ Fine(Worker!Now) /\ Worker!Now.w = worker /\ Worker!Now.waits = waits /\ Worker!Now.lost = lost
         /\ Worker!Now.gap = FALSE
      /\ worker \in Workers
  BY NowIs
<1>2. worker.queue \in Seq(Worker!Job) /\ worker.active \in Seq(Worker!Job) BY <1>1 DEF Workers
<1>3. /\ q \in Seq(Worker!Job) /\ Len(q) = Len(worker.queue) /\ Bytes(q) = Bytes(worker.queue)
      /\ a \in Seq(Worker!Job) /\ Len(a) = Len(worker.active) /\ Bytes(a) = Bytes(worker.active)
  BY <1>2, MarkedIs
<1>4. Tags(q) = {LateTag(x, id) : x \in Tags(worker.queue)}
      /\ Tags(a) = {LateTag(x, id) : x \in Tags(worker.active)}
  BY <1>2, TagsMarked
<1>5. Worker!Late(id) = [Worker!Now EXCEPT !.w = v] BY <1>1 DEF Worker!Late, Worker!Now
<1> HIDE DEF q, a
<1>6. /\ v \in Workers /\ v.queue = q /\ v.active = a /\ v.bytes = worker.bytes
         /\ v.activeBytes = worker.activeBytes
      /\ v.recovery = worker.recovery /\ v.recoveryBytes = worker.recoveryBytes
         /\ v.unhealthy = worker.unhealthy
  BY <1>1, <1>3 DEF Workers
<1> HIDE DEF v
<1>7. Firm(v) BY <1>3, <1>6 DEF Firm, Counted
<1>8. Work(v) = {LateTag(x, id) : x \in Work(worker)} BY <1>4, <1>6 DEF Work
<1>9. Kept(v) = Kept(worker) BY <1>6 DEF Kept
<1>10. Worker!Late(id) \in States /\ Worker!Late(id).w = v /\ Worker!Late(id).waits = waits
       /\ Worker!Late(id).lost = lost
  BY <1>1, <1>5, <1>6 DEF States, Fine
<1>11. c \in States /\ c.w = v /\ c.waits = waits \ {id} /\ c.lost = lost
  <2>1. c = [Worker!Late(id) EXCEPT !.waits = waits \ {id}] BY <1>10 DEF Worker!Resolved, States
  <2>2. waits \ {id} \in SUBSET (Worker!Calls \X Nat) BY DEF Worker!TypeOK
  <2> HIDE DEF c
  <2> QED BY <1>10, <2>1, <2>2 DEF States
<1> HIDE DEF c
<1>12. Fine(c) BY <1>7, <1>11 DEF Fine
<1> QED BY <1>6, <1>8, <1>9, <1>11, <1>12 DEF c

\* The timer takes the first key of the buffer.
LEMMA TakenBack ==
  ASSUME Worker!ReceiptConstants, Worker!TypeOK, Firm(worker), worker.recovery # <<>>
  PROVE  LET k == Head(worker.recovery)
             c == [Worker!Now EXCEPT !.w.recovery = Tail(@), !.w.recoveryBytes = @ - Size[k]]
         IN /\ k \in Keys /\ Fine(c) /\ c.waits = waits /\ c.lost = lost /\ c.w.unhealthy = worker.unhealthy
            /\ Kept(worker) \subseteq Kept(c.w) \cup {k} /\ Work(c.w) = Work(worker)
<1> DEFINE s == worker.recovery
           k == Head(s)
           q == Tail(s)
           n == worker.recoveryBytes - Size[k]
           v == [worker EXCEPT !.recovery = q, !.recoveryBytes = n]
           c == [Worker!Now EXCEPT !.w.recovery = Tail(@), !.w.recoveryBytes = @ - Size[k]]
<1>1. /\ Fine(Worker!Now) /\ Worker!Now.w = worker /\ Worker!Now.waits = waits /\ Worker!Now.lost = lost
         /\ Worker!Now.gap = FALSE
      /\ worker \in Workers
  BY NowIs
<1>2. s \in Seq(Keys) /\ worker.recoveryBytes \in Int BY <1>1 DEF Workers
<1>3. q \in Seq(Keys) /\ k \in Keys /\ Worker!Total(q) = Worker!Total(s) - Size[k] BY <1>2, TotalTail
<1>4. Size[k] \in Nat /\ Worker!Total(s) \in Nat /\ Worker!Total(q) \in Nat
      /\ worker.recoveryBytes = Worker!Total(s)
  BY <1>2, <1>3, TotalNat DEF Worker!ReceiptConstants, Firm
<1>5. Len(s) \in Nat /\ Len(s) >= 1 /\ Len(q) = Len(s) - 1 /\ s[1] = k /\ \A i \in 1 .. Len(q) : q[i] = s[i + 1]
  BY <1>2, HeadTailProperties, LenProperties, EmptySeq
<1>6. n \in Int /\ n = Worker!Total(q) /\ n <= RecoveryBytes
  <2>1. Worker!Total(s) <= RecoveryBytes /\ RecoveryBytes \in Nat BY <1>4 DEF Worker!ReceiptConstants, Firm
  <2> DEFINE t == Worker!Total(s)  u == Worker!Total(q)  z == Size[k]
  <2>2. t \in Nat /\ u \in Nat /\ z \in Nat /\ u = t - z /\ n = t - z /\ t <= RecoveryBytes BY <1>3, <1>4, <2>1
  <2> HIDE DEF t, u, z, n
  <2>3. n \in Int /\ n = u /\ n <= RecoveryBytes BY <2>1, <2>2
  <2> QED BY <2>3 DEF u
<1>7. Len(q) <= RecoveryItems
  <2> DEFINE a == Len(s)  b == Len(q)
  <2>1. a \in Nat /\ b = a - 1 /\ a <= RecoveryItems /\ RecoveryItems \in Nat
    BY <1>5 DEF Worker!ReceiptConstants, Firm
  <2> HIDE DEF a, b
  <2>2. b <= RecoveryItems BY <2>1
  <2> QED BY <2>2 DEF b
<1>8. \A i \in 1 .. Len(q) : i + 1 \in 1 .. Len(s) BY <1>5
<1>9. \A i, m \in 1 .. Len(q) : q[i] = q[m] => i = m
  <2> TAKE i, m \in 1 .. Len(q)
  <2> HAVE q[i] = q[m]
  <2>1. s[i + 1] = s[m + 1] BY <1>5
  <2>2. i + 1 = m + 1 BY <1>8, <2>1 DEF Firm
  <2> QED BY <2>2
<1>10. \A i \in 1 .. Len(s) : s[i] = k \/ \E m \in 1 .. Len(q) : s[i] = q[m]
  <2> TAKE i \in 1 .. Len(s)
  <2>1. CASE i = 1 BY <1>5, <2>1
  <2>2. CASE i # 1
    <3>1. i - 1 \in 1 .. Len(q) /\ (i - 1) + 1 = i BY <1>5, <2>2
    <3>2. q[i - 1] = s[i] BY <1>5, <3>1
    <3> QED BY <3>1, <3>2
  <2> QED BY <2>1, <2>2
<1>11. c = [Worker!Now EXCEPT !.w = v] BY <1>1 DEF Worker!Now
<1> HIDE DEF s, q, n, k
<1>12. /\ v \in Workers /\ v.queue = worker.queue /\ v.active = worker.active /\ v.bytes = worker.bytes
       /\ v.activeBytes = worker.activeBytes /\ v.recovery = q /\ v.recoveryBytes = n
          /\ v.unhealthy = worker.unhealthy
  BY <1>1, <1>3, <1>6 DEF Workers
<1> HIDE DEF v, c
<1>13. Firm(v) BY <1>6, <1>7, <1>9, <1>12 DEF Firm, Counted
<1>14. Work(v) = Work(worker) BY <1>12 DEF Work
<1>15. Kept(worker) \subseteq Kept(v) \cup {k} BY <1>10, <1>12 DEF Kept, s
<1>16. c \in States /\ c.w = v /\ c.waits = waits /\ c.lost = lost BY <1>1, <1>11, <1>12 DEF States, Fine
<1>17. Fine(c) BY <1>13, <1>16 DEF Fine
<1> QED BY <1>3, <1>12, <1>14, <1>15, <1>16, <1>17 DEF c, k, s

-----------------------------------------------------------------------------
\* What is journaled, let go, retained or in work.
Covered(w) == journal \cup lost \cup Kept(w) \cup {x[3] : x \in Work(w)}
\* A gap is known, or was forgotten with a write or a crash.
Gapped == worker.unhealthy \/ health.unhealthy \/ health.writing \/ unrecorded

\* An expired job's key is retained or let go.
ExpiredKept == \A x \in Work(worker) : x[4] => x[3] \in Kept(worker) \cup lost
\* A call and a place name one key, that of the packet still waited for.
OneKey == \A x, y \in Work(worker) : x[1] = y[1] /\ x[2] = y[2] => x[3] = y[3]
OfPackets ==
  \A x \in Work(worker) :
    /\ x[1] <= Len(packets)
    /\ x[1] >= 1 /\ packets[x[1]] # <<>> => x[2] \in 1 .. Len(packets[x[1]]) /\ packets[x[1]][x[2]] = x[3]
TakenCovered == handled \subseteq Covered(worker)
PacketsCovered == \A h \in 1 .. Len(packets) : \A m \in 1 .. Len(packets[h]) : packets[h][m] \in Covered(worker)
SettledKnown ==
  \A h \in 1 .. Len(packets) : \A m \in 1 .. Len(packets[h]) :
    <<h, m>> \in waits \/ packets[h][m] \in journal \/ Gapped
TakenKnown == \A k \in handled : k \in journal \/ Gapped

\* The strengthening of WorkerInv that every step preserves.
WorkerInd ==
  /\ Worker!TypeOK /\ Firm(worker) /\ ExpiredKept /\ OneKey /\ OfPackets
  /\ TakenCovered /\ PacketsCovered /\ SettledKnown /\ TakenKnown

\* Packets and their receipts.
LEMMA PacketsAre ==
  ASSUME Worker!ReceiptConstants, Worker!TypeOK
  PROVE  /\ Len(packets) \in Nat /\ DOMAIN packets = 1 .. Len(packets)
         /\ \A h \in 1 .. Len(packets) : packets[h] \in Packets \cup {<<>>} /\ packets[h] \in Seq(Keys)
         /\ \A p \in Packets : p \in Seq(Keys) /\ Worker!ToSet(p) = {p[m] : m \in 1 .. Len(p)}
            /\ Worker!ToSet(p) \subseteq Keys
         /\ <<>> \in Seq(Keys) /\ 1 .. Len(<<>>) = {}
<1>1. packets \in Seq(Packets \cup {<<>>}) BY DEF Worker!TypeOK
<1>2. Len(packets) \in Nat /\ DOMAIN packets = 1 .. Len(packets) BY <1>1, LenProperties
<1>3. \A h \in 1 .. Len(packets) : packets[h] \in Packets \cup {<<>>} BY <1>1, ElementOfSeq
<1>4. \A p \in Packets : p \in Seq(Keys) BY DEF Worker!ReceiptConstants
<1>5. <<>> \in Seq(Keys) /\ Len(<<>>) = 0 /\ 1 .. 0 = {} BY EmptySeq
<1>6. ASSUME NEW p \in Packets PROVE Worker!ToSet(p) = {p[m] : m \in 1 .. Len(p)}
      /\ Worker!ToSet(p) \subseteq Keys
  <2>1. p \in Seq(Keys) BY <1>4
  <2>2. DOMAIN p = 1 .. Len(p) /\ \A m \in 1 .. Len(p) : p[m] \in Keys BY <2>1, LenProperties, ElementOfSeq
  <2> QED BY <2>2 DEF Worker!ToSet
<1> QED BY <1>2, <1>3, <1>4, <1>5, <1>6

\* The types of a firm worker.
LEMMA FirmTypes ==
  ASSUME Worker!ReceiptConstants, NEW w, Firm(w)
  PROVE  /\ w.there \in BOOLEAN /\ w.unhealthy \in BOOLEAN
         /\ w.queue \in Seq(Worker!Job) /\ w.active \in Seq(Worker!Job) /\ w.recovery \in Seq(Keys)
         /\ {w.bytes, w.activeBytes, w.recoveryBytes} \subseteq Nat
<1>1. /\ w.there \in BOOLEAN /\ w.unhealthy \in BOOLEAN
      /\ w.queue \in Seq(Worker!Job) /\ w.active \in Seq(Worker!Job) /\ w.recovery \in Seq(Keys)
  BY DEF Firm, Counted, Workers
<1>2. w.bytes = Bytes(w.queue) /\ w.activeBytes = Bytes(w.active) /\ w.recoveryBytes = Worker!Total(w.recovery)
  BY DEF Firm, Counted
<1>3. Bytes(w.queue) \in Nat /\ Bytes(w.active) \in Nat /\ Worker!Total(w.recovery) \in Nat
  BY <1>1, BytesNat, TotalNat
<1> QED BY <1>1, <1>2, <1>3

\* A call ends: the worker is firm and typed, a gap starts a health write.
LEMMA BecomesIs ==
  ASSUME Worker!ReceiptConstants, Worker!TypeOK, NEW c, Fine(c), Worker!Becomes(c)
  PROVE  /\ worker' = c.w /\ waits' = c.waits /\ lost' = c.lost /\ Firm(worker')
         /\ health' \in [unhealthy : BOOLEAN, writing : BOOLEAN] /\ health'.unhealthy = health.unhealthy
         /\ (health.writing => health'.writing) /\ (c.gap => health'.writing)
         /\ waits' \subseteq Worker!Calls \X Nat /\ lost' \subseteq Keys
         /\ worker'.there \in BOOLEAN /\ worker'.unhealthy \in BOOLEAN
         /\ worker'.queue \in Seq(Worker!Job) /\ worker'.active \in Seq(Worker!Job)
            /\ worker'.recovery \in Seq(Keys)
         /\ {worker'.bytes, worker'.activeBytes, worker'.recoveryBytes} \subseteq Nat
<1>1. worker' = c.w /\ waits' = c.waits /\ lost' = c.lost
      /\ health' = [health EXCEPT !.writing = health.writing \/ c.gap]
  BY DEF Worker!Becomes
<1>2. c \in States /\ Firm(c.w) BY DEF Fine
<1>3. c.waits \subseteq Worker!Calls \X Nat /\ c.lost \subseteq Keys /\ c.gap \in BOOLEAN BY <1>2 DEF States
<1>4. health \in [unhealthy : BOOLEAN, writing : BOOLEAN] BY DEF Worker!TypeOK
<1>5. \A e \in BOOLEAN : LET g == [health EXCEPT !.writing = e] IN
        g \in [unhealthy : BOOLEAN, writing : BOOLEAN] /\ g.unhealthy = health.unhealthy /\ g.writing = e
  BY <1>4
<1>6. health.writing \in BOOLEAN BY <1>4
<1>7. (health.writing \/ c.gap) \in BOOLEAN BY <1>3, <1>6
<1>8. /\ health' \in [unhealthy : BOOLEAN, writing : BOOLEAN] /\ health'.unhealthy = health.unhealthy
      /\ health'.writing = (health.writing \/ c.gap)
  BY <1>1, <1>5, <1>7, Zenon
<1>9. (health.writing => health'.writing) /\ (c.gap => health'.writing) BY <1>8
<1> QED BY <1>1, <1>2, <1>3, <1>8, <1>9, FirmTypes

\* What is covered stays so, and a gap stays known, if the step keeps what is
\* retained and what is in work.
LEMMA NothingForgotten ==
  ASSUME Worker!ReceiptConstants, WorkerInd, NEW c, Fine(c), Worker!Becomes(c), journal \subseteq journal',
         unrecorded' = unrecorded,
         lost \subseteq c.lost, worker.unhealthy => c.w.unhealthy,
         \A k \in Kept(worker) : k \in Covered(worker)', \A x \in Work(worker) : x[3] \in Covered(worker)'
  PROVE  Covered(worker) \subseteq Covered(worker)' /\ (Gapped => Gapped')
<1>1. Worker!TypeOK BY DEF WorkerInd
<1>2. /\ worker' = c.w /\ lost' = c.lost /\ health'.unhealthy = health.unhealthy
      /\ (health.writing => health'.writing)
  BY <1>1, BecomesIs
<1>3. journal \subseteq Covered(worker)' /\ lost \subseteq Covered(worker)' BY <1>2 DEF Covered
<1>4. Covered(worker) \subseteq Covered(worker)' BY <1>3 DEF Covered
<1>5. Gapped => Gapped' BY <1>2 DEF Gapped
<1> QED BY <1>4, <1>5

\* A worker is firm when it is made.
LEMMA NewFirm ==
  ASSUME Worker!ReceiptConstants
  PROVE  Firm(Worker!NewWorker) /\ Work(Worker!NewWorker) = {} /\ Kept(Worker!NewWorker) = {}
<1>1. <<>> \in Seq(Worker!Job) /\ <<>> \in Seq(Keys) /\ Len(<<>>) = 0 /\ 1 .. 0 = {} BY EmptySeq
<1>2. Worker!NewWorker \in Workers BY <1>1 DEF Worker!NewWorker, Workers
<1>3. /\ Worker!NewWorker.queue = <<>> /\ Worker!NewWorker.active = <<>> /\ Worker!NewWorker.recovery = <<>>
      /\ Worker!NewWorker.bytes = 0 /\ Worker!NewWorker.activeBytes = 0 /\ Worker!NewWorker.recoveryBytes = 0
  BY DEF Worker!NewWorker
<1>4. /\ Concurrent \in Nat /\ QueueItems \in Nat /\ QueueBytes \in Nat /\ RecoveryItems \in Nat
      /\ RecoveryBytes \in Nat
  BY DEF Worker!ReceiptConstants
<1>5. Firm(Worker!NewWorker) BY <1>1, <1>2, <1>3, <1>4, TotalEmpty, BytesEmpty DEF Firm, Counted
<1>6. Work(Worker!NewWorker) = {} BY <1>3, TagsEmpty DEF Work
<1>7. Kept(Worker!NewWorker) = {} BY <1>1, <1>3 DEF Kept
<1> QED BY <1>5, <1>6, <1>7

\* The invariant holds before the first call.
LEMMA InitInd ==
  ASSUME Worker!ReceiptConstants
  PROVE  Worker!Init => WorkerInd
<1> HAVE Worker!Init
<1>1. /\ worker = Worker!NewWorker /\ packets = <<>> /\ waits = {} /\ recovering = FALSE
      /\ health = [unhealthy |-> FALSE, writing |-> FALSE]
      /\ journal = {} /\ handled = {} /\ lost = {} /\ unrecorded = FALSE /\ failures = 0
  BY DEF Worker!Init
<1>2. Firm(Worker!NewWorker) /\ Work(Worker!NewWorker) = {} /\ Kept(Worker!NewWorker) = {} BY NewFirm
<1>3. Worker!TypeOK
  <2>1. <<>> \in Seq(Packets \cup {<<>>}) BY EmptySeq
  <2> QED BY <1>1, <1>2, <2>1, FirmTypes DEF Worker!TypeOK
<1>4. 1 .. Len(packets) = {} BY <1>1, EmptySeq
<1> QED BY <1>1, <1>2, <1>3, <1>4 DEF WorkerInd, ExpiredKept, OneKey, OfPackets, TakenCovered, PacketsCovered,
  SettledKnown, TakenKnown

\* A captured receipt is waited for, or a gap retained or let go.
LEMMA CaptureStep ==
  ASSUME Worker!ReceiptConstants, WorkerInd, NEW p \in Packets, Worker!Capture(p)
  PROVE  WorkerInd'
<1> DEFINE h == Len(packets) + 1
           b == [Worker!Now EXCEPT !.w.there = TRUE]
           c == Worker!FoldLeft(Worker!Submit, b, [i \in DOMAIN p |-> Worker!NewJob(h, i, p[i])])
<1>1. Worker!TypeOK /\ Firm(worker) BY DEF WorkerInd
<1>2. /\ h <= MaxPackets /\ packets' = Append(packets, p) /\ Worker!Becomes(c)
      /\ UNCHANGED <<recovering, journal, handled, unrecorded, failures>>
  BY DEF Worker!Capture
<1>3. Fine(Worker!Now) /\ Worker!Now.w = worker /\ Worker!Now.waits = waits /\ Worker!Now.lost = lost
      /\ worker \in Workers
  BY <1>1, NowIs
<1>4. p \in Seq(Keys) BY <1>1, PacketsAre
<1>5. Len(packets) \in Nat /\ packets \in Seq(Packets \cup {<<>>}) BY <1>1, PacketsAre DEF Worker!TypeOK
<1>6. h \in Worker!Calls /\ h \in Nat BY <1>2, <1>5 DEF Worker!ReceiptConstants, Worker!Calls
<1>7. Fine(b) /\ b.waits = waits /\ b.lost = lost /\ b.w.unhealthy = worker.unhealthy
      /\ Kept(b.w) = Kept(worker) /\ Work(b.w) = Work(worker)
  <2> DEFINE v == [worker EXCEPT !.there = TRUE]
  <2>1. b = [Worker!Now EXCEPT !.w = v] BY <1>3 DEF Worker!Now
  <2>2. /\ v \in Workers /\ v.queue = worker.queue /\ v.active = worker.active /\ v.bytes = worker.bytes
        /\ v.activeBytes = worker.activeBytes /\ v.recovery = worker.recovery
        /\ v.recoveryBytes = worker.recoveryBytes /\ v.unhealthy = worker.unhealthy
    BY <1>3 DEF Workers
  <2> HIDE DEF v, b
  <2>3. Firm(v) /\ Work(v) = Work(worker) /\ Kept(v) = Kept(worker) BY <1>1, <1>3, <2>2, SameFirm
  <2>4. b \in States /\ b.w = v /\ b.waits = waits /\ b.lost = lost BY <1>3, <2>1, <2>2 DEF States, Fine
  <2> QED BY <2>2, <2>3, <2>4 DEF Fine
<1> HIDE DEF b
<1>8. Captured(c, b, h, p, Len(p)) BY <1>4, <1>6, <1>7, CapturedIs
<1> HIDE DEF c
<1>9. /\ Fine(c) /\ waits \subseteq c.waits /\ lost \subseteq c.lost /\ Kept(worker) \subseteq Kept(c.w)
      /\ (worker.unhealthy => c.w.unhealthy) /\ (\A x \in Work(worker) : x[4] \/ x \in Work(c.w))
      /\ (\A m \in 1 .. Len(p) : <<h, m>> \in c.waits \/ (c.gap /\ c.w.unhealthy))
      /\ (\A x \in Work(c.w) : x \in Work(worker) \/ \E m \in 1 .. Len(p) : x = <<h, m, p[m], FALSE>>)
      /\ (\A m \in 1 .. Len(p) : <<h, m, p[m], FALSE>> \in Work(c.w) \/ p[m] \in Kept(c.w) \cup c.lost)
  BY <1>7, <1>8 DEF Captured, Grows
<1>10. worker' = c.w /\ waits' = c.waits /\ lost' = c.lost BY <1>1, <1>2, <1>9, BecomesIs
<1>11. /\ packets' \in Seq(Packets \cup {<<>>}) /\ Len(packets') = h /\ packets'[h] = p
       /\ \A g \in 1 .. Len(packets) : packets'[g] = packets[g]
  BY <1>2, <1>5, AppendProperties
<1>12. \A g \in 1 .. h : g \in 1 .. Len(packets) \/ g = h BY <1>5
<1>13. \A x \in Work(worker) : x[4] => x[3] \in Kept(worker) \cup lost BY DEF WorkerInd, ExpiredKept
<1>14. Covered(worker) \subseteq Covered(worker)' /\ (Gapped => Gapped')
  <2>1. \A k \in Kept(worker) : k \in Covered(worker)' BY <1>9, <1>10 DEF Covered
  <2>2. \A x \in Work(worker) : x[3] \in Covered(worker)' BY <1>9, <1>10, <1>13 DEF Covered
  <2> QED BY <1>2, <1>9, <2>1, <2>2, NothingForgotten
<1>15. \A x \in Work(worker) : x[1] \in 1 .. Len(packets) \/ x[1] = 0
  <2> TAKE x \in Work(worker)
  <2>1. x[1] \in Nat /\ x[1] <= Len(packets) BY <1>3, WorkIs DEF WorkerInd, OfPackets, Worker!Calls
  <2> QED BY <1>5, <2>1
<1>16. h \notin 1 .. Len(packets) /\ h # 0 BY <1>5
<1>17. Worker!TypeOK'
  <2>1. UNCHANGED <<recovering, journal, handled, unrecorded, failures>> BY <1>2
  <2> QED BY <1>1, <1>2, <1>9, <1>11, <2>1, BecomesIs DEF Worker!TypeOK
<1>18. Firm(worker)' BY <1>1, <1>2, <1>9, BecomesIs
<1>19. \A x \in Work(worker') :
         x \in Work(worker) \/ (~ x[4] /\ \E m \in 1 .. Len(p) : x[1] = h /\ x[2] = m /\ x[3] = p[m])
  <2> TAKE x \in Work(worker')
  <2>1. CASE x \in Work(worker) BY <2>1
  <2>2. CASE \E m \in 1 .. Len(p) : x = <<h, m, p[m], FALSE>>
    <3>1. PICK m \in 1 .. Len(p) : x = <<h, m, p[m], FALSE>> BY <2>2
    <3>2. ~ x[4] /\ x[1] = h /\ x[2] = m /\ x[3] = p[m] BY <3>1
    <3> QED BY <3>2
  <2> QED BY <1>9, <1>10, <2>1, <2>2
<1>20. ExpiredKept'
  <2> SUFFICES ASSUME NEW x \in Work(worker'), x[4] PROVE x[3] \in Kept(worker') \cup lost' BY DEF ExpiredKept
  <2>1. x \in Work(worker) BY <1>19
  <2> QED BY <1>9, <1>10, <1>13, <2>1
<1>21. OneKey'
  <2> SUFFICES ASSUME NEW x \in Work(worker'), NEW y \in Work(worker'), x[1] = y[1], x[2] = y[2]
               PROVE x[3] = y[3]
    BY DEF OneKey
  <2>1. CASE x \in Work(worker) /\ y \in Work(worker) BY <2>1 DEF WorkerInd, OneKey
  <2>2. CASE x \in Work(worker) /\ y \notin Work(worker) BY <1>15, <1>16, <1>19, <2>2
  <2>3. CASE x \notin Work(worker) /\ y \in Work(worker) BY <1>15, <1>16, <1>19, <2>3
  <2>4. CASE x \notin Work(worker) /\ y \notin Work(worker)
    <3>1. (\E m \in 1 .. Len(p) : x[1] = h /\ x[2] = m /\ x[3] = p[m])
          /\ \E m \in 1 .. Len(p) : y[1] = h /\ y[2] = m /\ y[3] = p[m]
      BY <1>19, <2>4
    <3>2. x[3] = p[x[2]] /\ y[3] = p[y[2]] BY <3>1
    <3> QED BY <3>2
  <2> QED BY <2>1, <2>2, <2>3, <2>4
<1>22. OfPackets'
  <2> SUFFICES ASSUME NEW x \in Work(worker')
               PROVE  /\ x[1] <= Len(packets')
                      /\ x[1] >= 1 /\ packets'[x[1]] # <<>> =>
                           x[2] \in 1 .. Len(packets'[x[1]]) /\ packets'[x[1]][x[2]] = x[3]
    BY DEF OfPackets
  <2>1. CASE x \in Work(worker)
    <3>1. CASE x[1] = 0 BY <1>6, <1>11, <3>1
    <3>2. CASE x[1] \in 1 .. Len(packets)
      <4>1. packets'[x[1]] = packets[x[1]] BY <1>11, <3>2
      <4>2. x[1] <= Len(packets') BY <1>5, <1>11, <3>2
      <4> QED BY <2>1, <4>1, <4>2 DEF WorkerInd, OfPackets
    <3> QED BY <1>15, <2>1, <3>1, <3>2
  <2>2. CASE \E m \in 1 .. Len(p) : x[1] = h /\ x[2] = m /\ x[3] = p[m]
    <3>1. h <= h BY <1>6
    <3> QED BY <1>11, <2>2, <3>1
  <2> QED BY <1>19, <2>1, <2>2
<1>23. TakenCovered' BY <1>2, <1>14 DEF WorkerInd, TakenCovered
<1>24. PacketsCovered'
  <2> SUFFICES ASSUME NEW g \in 1 .. Len(packets'), NEW m \in 1 .. Len(packets'[g])
               PROVE packets'[g][m] \in Covered(worker)'
    BY DEF PacketsCovered
  <2>1. CASE g \in 1 .. Len(packets) BY <1>11, <1>14, <2>1 DEF WorkerInd, PacketsCovered
  <2>2. CASE g = h
    <3>1. m \in 1 .. Len(p) /\ packets'[g][m] = p[m] BY <1>11, <2>2
    <3>2. <<h, m, p[m], FALSE>>[3] = p[m] OBVIOUS
    <3> QED BY <1>9, <1>10, <3>1, <3>2 DEF Covered
  <2> QED BY <1>11, <1>12, <2>1, <2>2
<1>25. SettledKnown'
  <2> SUFFICES ASSUME NEW g \in 1 .. Len(packets'), NEW m \in 1 .. Len(packets'[g])
               PROVE <<g, m>> \in waits' \/ packets'[g][m] \in journal' \/ Gapped'
    BY DEF SettledKnown
  <2>1. CASE g \in 1 .. Len(packets) BY <1>2, <1>9, <1>10, <1>11, <1>14, <2>1 DEF WorkerInd, SettledKnown
  <2>2. CASE g = h
    <3>1. m \in 1 .. Len(p) BY <1>11, <2>2
    <3> QED BY <1>9, <1>10, <2>2, <3>1 DEF Gapped
  <2> QED BY <1>11, <1>12, <2>1, <2>2
<1>26. TakenKnown' BY <1>2, <1>14 DEF WorkerInd, TakenKnown
<1> QED BY <1>17, <1>18, <1>20, <1>21, <1>22, <1>23, <1>24, <1>25, <1>26 DEF WorkerInd

\* A blind capture lets its receipts go, as a gap.
LEMMA BlindStep ==
  ASSUME Worker!ReceiptConstants, WorkerInd, NEW p \in Packets, Worker!Blind(p)
  PROVE  WorkerInd'
<1> DEFINE h == Len(packets) + 1
           c == [Worker!Now EXCEPT !.w.unhealthy = @ \/ worker.there, !.gap = TRUE, !.lost = @ \cup Worker!ToSet(p)]
<1>1. Worker!TypeOK /\ Firm(worker) BY DEF WorkerInd
<1>2. /\ packets' = Append(packets, <<>>) /\ Worker!Becomes(c) /\ handled' = handled \cup Worker!ToSet(p)
      /\ UNCHANGED <<recovering, journal, unrecorded, failures>>
  BY DEF Worker!Blind
<1>3. Fine(Worker!Now) /\ Worker!Now.w = worker /\ Worker!Now.waits = waits /\ Worker!Now.lost = lost
      /\ worker \in Workers
  BY <1>1, NowIs
<1>4. Worker!ToSet(p) \subseteq Keys BY <1>1, PacketsAre
<1>5. Len(packets) \in Nat /\ packets \in Seq(Packets \cup {<<>>}) /\ 1 .. Len(<<>>) = {}
  BY <1>1, PacketsAre DEF Worker!TypeOK
<1>6. /\ Fine(c) /\ c.waits = waits /\ c.lost = lost \cup Worker!ToSet(p) /\ c.gap = TRUE
      /\ (worker.unhealthy => c.w.unhealthy) /\ Kept(c.w) = Kept(worker) /\ Work(c.w) = Work(worker)
  <2> DEFINE f(e) == [worker EXCEPT !.unhealthy = e]
             u == worker.unhealthy \/ worker.there
             v == f(u)
  <2>1. c = [Worker!Now EXCEPT !.w = v, !.gap = TRUE, !.lost = lost \cup Worker!ToSet(p)] BY <1>3 DEF Worker!Now
  <2>2. \A e \in BOOLEAN :
          /\ f(e) \in Workers /\ f(e).queue = worker.queue /\ f(e).active = worker.active
             /\ f(e).bytes = worker.bytes
          /\ f(e).activeBytes = worker.activeBytes /\ f(e).recovery = worker.recovery
          /\ f(e).recoveryBytes = worker.recoveryBytes /\ f(e).unhealthy = e
    BY <1>3 DEF Workers
  <2>3. u \in BOOLEAN OBVIOUS
  <2> HIDE DEF f, c
  <2>4. /\ v \in Workers /\ v.queue = worker.queue /\ v.active = worker.active /\ v.bytes = worker.bytes
        /\ v.activeBytes = worker.activeBytes /\ v.recovery = worker.recovery
        /\ v.recoveryBytes = worker.recoveryBytes /\ v.unhealthy = u
    BY <2>2, <2>3, Zenon
  <2> HIDE DEF v
  <2>5. Firm(v) /\ Work(v) = Work(worker) /\ Kept(v) = Kept(worker) BY <1>1, <1>3, <2>4, SameFirm
  <2>6. lost \cup Worker!ToSet(p) \in SUBSET Keys BY <1>1, <1>4 DEF Worker!TypeOK
  <2>7. c \in States /\ c.w = v /\ c.waits = waits /\ c.lost = lost \cup Worker!ToSet(p) /\ c.gap = TRUE
    BY <1>3, <2>1, <2>4, <2>6 DEF States, Fine
  <2>8. worker.unhealthy => v.unhealthy BY <2>4
  <2> QED BY <2>5, <2>7, <2>8 DEF Fine
<1> HIDE DEF c
<1>7. worker' = c.w /\ waits' = waits /\ lost' = lost \cup Worker!ToSet(p) /\ health'.writing
  BY <1>1, <1>2, <1>6, BecomesIs
<1>8. Gapped' BY <1>7 DEF Gapped
<1>9. /\ packets' \in Seq(Packets \cup {<<>>}) /\ Len(packets') = h /\ packets'[h] = <<>>
      /\ \A g \in 1 .. Len(packets) : packets'[g] = packets[g]
  <2>1. <<>> \in Packets \cup {<<>>} OBVIOUS
  <2> QED BY <1>2, <1>5, <2>1, AppendProperties
<1>10. \A g \in 1 .. h : g \in 1 .. Len(packets) \/ g = h BY <1>5
<1>11. Covered(worker) \subseteq Covered(worker)' BY <1>2, <1>6, <1>7 DEF Covered
<1>12. Worker!TypeOK' /\ Firm(worker)'
  <2>1. handled' \subseteq Keys BY <1>1, <1>2, <1>4 DEF Worker!TypeOK
  <2>2. UNCHANGED <<recovering, journal, unrecorded, failures>> BY <1>2
  <2> QED BY <1>1, <1>2, <1>6, <1>9, <2>1, <2>2, BecomesIs DEF Worker!TypeOK
<1>13. ExpiredKept' /\ OneKey' BY <1>6, <1>7 DEF WorkerInd, ExpiredKept, OneKey
<1>14. OfPackets'
  <2> SUFFICES ASSUME NEW x \in Work(worker')
               PROVE  /\ x[1] <= Len(packets')
                      /\ x[1] >= 1 /\ packets'[x[1]] # <<>> =>
                           x[2] \in 1 .. Len(packets'[x[1]]) /\ packets'[x[1]][x[2]] = x[3]
    BY DEF OfPackets
  <2>1. x \in Work(worker) BY <1>6, <1>7
  <2>2. x[1] \in Nat /\ x[1] <= Len(packets) BY <1>3, <2>1, WorkIs DEF WorkerInd, OfPackets, Worker!Calls
  <2>3. x[1] <= Len(packets') BY <1>5, <1>9, <2>2
  <2>4. x[1] >= 1 => packets'[x[1]] = packets[x[1]]
    <3>1. x[1] >= 1 => x[1] \in 1 .. Len(packets) BY <1>5, <2>2
    <3> QED BY <1>9, <3>1
  <2> QED BY <2>1, <2>3, <2>4 DEF WorkerInd, OfPackets
<1>15. TakenCovered' BY <1>2, <1>7, <1>11 DEF WorkerInd, TakenCovered, Covered
<1>16. PacketsCovered'
  <2> SUFFICES ASSUME NEW g \in 1 .. Len(packets'), NEW m \in 1 .. Len(packets'[g])
               PROVE packets'[g][m] \in Covered(worker)'
    BY DEF PacketsCovered
  <2>1. CASE g \in 1 .. Len(packets) BY <1>9, <1>11, <2>1 DEF WorkerInd, PacketsCovered
  <2>2. CASE g = h BY <1>5, <1>9, <2>2
  <2> QED BY <1>9, <1>10, <2>1, <2>2
<1>17. SettledKnown' /\ TakenKnown' BY <1>8 DEF SettledKnown, TakenKnown
<1> QED BY <1>12, <1>13, <1>14, <1>15, <1>16, <1>17 DEF WorkerInd

\* The handler goes on with what is journaled, held or known as a gap.
LEMMA ReturnStep ==
  ASSUME Worker!ReceiptConstants, WorkerInd, NEW h \in Worker!Calls, Worker!Return(h)
  PROVE  WorkerInd'
<1>1. Worker!TypeOK /\ Firm(worker) BY DEF WorkerInd
<1>2. /\ h \in DOMAIN packets /\ packets[h] # <<>> /\ (\A i \in DOMAIN packets[h] : <<h, i>> \notin waits)
      /\ handled' = handled \cup Worker!ToSet(packets[h]) /\ packets' = [packets EXCEPT ![h] = <<>>]
      /\ worker' = worker /\ waits' = waits /\ recovering' = recovering /\ health' = health
         /\ journal' = journal
      /\ lost' = lost /\ unrecorded' = unrecorded /\ failures' = failures
  BY DEF Worker!Return
<1>3. Len(packets) \in Nat /\ DOMAIN packets = 1 .. Len(packets) /\ packets \in Seq(Packets \cup {<<>>})
      /\ 1 .. Len(<<>>) = {} /\ packets[h] \in Packets /\ worker \in Workers
  BY <1>1, <1>2, NowIs, PacketsAre DEF Worker!TypeOK
<1>4. Worker!ToSet(packets[h]) = {packets[h][m] : m \in 1 .. Len(packets[h])}
      /\ Worker!ToSet(packets[h]) \subseteq Keys
      /\ DOMAIN packets[h] = 1 .. Len(packets[h])
  BY <1>1, <1>3, PacketsAre, LenProperties
<1>5. /\ packets' \in Seq(Packets \cup {<<>>}) /\ Len(packets') = Len(packets) /\ packets'[h] = <<>>
      /\ \A g \in 1 .. Len(packets) : g # h => packets'[g] = packets[g]
  <2>1. <<>> \in Packets \cup {<<>>} OBVIOUS
  <2> QED BY <1>2, <1>3, <2>1, ExceptSeq
<1>6. Covered(worker)' = Covered(worker) /\ Gapped' = Gapped BY <1>2 DEF Covered, Gapped
<1>7. Worker!TypeOK' /\ Firm(worker)'
  <2>1. handled' \subseteq Keys BY <1>1, <1>2, <1>4 DEF Worker!TypeOK
  <2> QED BY <1>1, <1>2, <1>5, <2>1 DEF Worker!TypeOK
<1>8. ExpiredKept' /\ OneKey' BY <1>2 DEF WorkerInd, ExpiredKept, OneKey
<1>9. OfPackets'
  <2> SUFFICES ASSUME NEW x \in Work(worker)
               PROVE  /\ x[1] <= Len(packets')
                      /\ x[1] >= 1 /\ packets'[x[1]] # <<>> =>
                           x[2] \in 1 .. Len(packets'[x[1]]) /\ packets'[x[1]][x[2]] = x[3]
    BY <1>2 DEF OfPackets
  <2>1. x[1] \in Nat /\ x[1] <= Len(packets) BY <1>3, WorkIs DEF WorkerInd, OfPackets, Worker!Calls
  <2>2. x[1] >= 1 /\ packets'[x[1]] # <<>> => packets'[x[1]] = packets[x[1]]
    <3>1. x[1] >= 1 => x[1] \in 1 .. Len(packets) BY <1>3, <2>1
    <3> QED BY <1>5, <3>1
  <2> QED BY <1>5, <2>1, <2>2 DEF WorkerInd, OfPackets
<1>10. \A k \in Worker!ToSet(packets[h]) : k \in Covered(worker) /\ (k \in journal \/ Gapped)
  <2>1. h \in 1 .. Len(packets) BY <1>2, <1>3
  <2>2. \A m \in 1 .. Len(packets[h]) : packets[h][m] \in Covered(worker)
    BY <2>1 DEF WorkerInd, PacketsCovered
  <2>3. \A m \in 1 .. Len(packets[h]) : <<h, m>> \in waits \/ packets[h][m] \in journal \/ Gapped
    BY <2>1 DEF WorkerInd, SettledKnown
  <2>4. \A m \in 1 .. Len(packets[h]) : <<h, m>> \notin waits BY <1>2, <1>4
  <2> QED BY <1>4, <2>2, <2>3, <2>4
<1>11. TakenCovered' BY <1>2, <1>6, <1>10 DEF WorkerInd, TakenCovered
<1>12. TakenKnown' BY <1>2, <1>6, <1>10 DEF WorkerInd, TakenKnown
<1>13. PacketsCovered'
  <2> SUFFICES ASSUME NEW g \in 1 .. Len(packets), NEW m \in 1 .. Len(packets'[g])
               PROVE packets'[g][m] \in Covered(worker)
    BY <1>5, <1>6 DEF PacketsCovered
  <2>1. g # h BY <1>3, <1>5
  <2>2. packets'[g] = packets[g] BY <1>5, <2>1
  <2> QED BY <2>2 DEF WorkerInd, PacketsCovered
<1>14. SettledKnown' BY <1>2, <1>3, <1>5, <1>6 DEF WorkerInd, SettledKnown
<1> QED BY <1>7, <1>8, <1>9, <1>11, <1>12, <1>13, <1>14 DEF WorkerInd

\* A deadline: all jobs of the id have the key that the gap retains.
LEMMA ExpireStep ==
  ASSUME Worker!ReceiptConstants, WorkerInd, NEW id \in Worker!Ids, Worker!Expire(id)
  PROVE  WorkerInd'
<1> DEFINE b == Worker!Resolved(Worker!Late(id), id)
<1>1. Worker!TypeOK /\ Firm(worker) BY DEF WorkerInd
<1>2. PICK k \in Worker!Live(id) : Worker!Becomes(Worker!Gap(b, k)) BY DEF Worker!Expire
<1>3. UNCHANGED <<packets, recovering, journal, handled, unrecorded, failures>> BY DEF Worker!Expire
<1>4. /\ Fine(b) /\ b.waits = waits \ {id} /\ b.lost = lost /\ b.w.unhealthy = worker.unhealthy
      /\ Kept(b.w) = Kept(worker) /\ Work(b.w) = {LateTag(x, id) : x \in Work(worker)}
  BY <1>1, LateIs
<1>5. worker \in Workers /\ worker.queue \in Seq(Worker!Job) /\ worker.active \in Seq(Worker!Job)
  BY <1>1, NowIs DEF Worker!TypeOK
<1>6. PICK z \in Work(worker) : <<z[1], z[2]>> = id /\ z[3] = k
  <2>1. /\ DOMAIN worker.queue = 1 .. Len(worker.queue) /\ DOMAIN worker.active = 1 .. Len(worker.active)
    BY <1>5, LenProperties
  <2>2. PICK j : Tag(j) \in Work(worker) /\ Worker!Id(j) = id /\ j.key = k
    BY <1>2, <2>1 DEF Worker!Live, Worker!Pending, Worker!Running, Work, Tags
  <2>3. Tag(j)[1] = j.call /\ Tag(j)[2] = j.place /\ Tag(j)[3] = j.key BY DEF Tag
  <2> QED BY <2>2, <2>3 DEF Worker!Id
<1>7. k \in Keys BY <1>5, <1>6, WorkIs
<1> HIDE DEF b
<1> DEFINE c == Worker!Gap(b, k)
<1>8. /\ Fine(c) /\ Grows(b, c) /\ c.gap /\ c.w.unhealthy /\ c.waits = b.waits
      /\ c.w.queue = b.w.queue /\ c.w.active = b.w.active /\ k \in Kept(c.w) \cup c.lost
  BY <1>4, <1>7, GapIs
<1> HIDE DEF c
<1>9. Worker!Becomes(c) BY <1>2 DEF c
<1>10. worker' = c.w /\ waits' = waits \ {id} /\ lost' = c.lost /\ health'.writing
  BY <1>1, <1>4, <1>8, <1>9, BecomesIs
<1>11. Work(worker') = {LateTag(x, id) : x \in Work(worker)} BY <1>4, <1>8, <1>10 DEF Work
<1>12. \A x \in Work(worker) :
         LET y == LateTag(x, id) IN
         y[1] = x[1] /\ y[2] = x[2] /\ y[3] = x[3] /\ (y[4] <=> x[4] \/ <<x[1], x[2]>> = id)
  <2> TAKE x \in Work(worker)
  <2> DEFINE f == x[4] \/ <<x[1], x[2]>> = id
  <2>1. LateTag(x, id) = <<x[1], x[2], x[3], f>> BY DEF LateTag
  <2>2. f \in BOOLEAN BY <1>5, WorkIs
  <2>3. f <=> x[4] \/ <<x[1], x[2]>> = id OBVIOUS
  <2> HIDE DEF f
  <2>4. \A e : LET y == <<x[1], x[2], x[3], e>> IN y[1] = x[1] /\ y[2] = x[2] /\ y[3] = x[3] /\ y[4] = e OBVIOUS
  <2> QED BY <2>1, <2>3, <2>4
<1>13. Kept(worker) \subseteq Kept(worker') /\ lost \subseteq lost' /\ k \in Kept(worker') \cup lost'
  BY <1>4, <1>8, <1>10 DEF Grows
<1>14. Gapped' BY <1>10 DEF Gapped
<1>15. \A x \in Work(worker) : x[3] \in {y[3] : y \in Work(worker')} BY <1>11, <1>12
<1>16. Covered(worker) \subseteq Covered(worker)' BY <1>3, <1>13, <1>15 DEF Covered
<1>17. \A y \in Work(worker') : \E x \in Work(worker) :
         y[1] = x[1] /\ y[2] = x[2] /\ y[3] = x[3] /\ (y[4] <=> x[4] \/ <<x[1], x[2]>> = id)
  BY <1>11, <1>12
<1>18. Worker!TypeOK' /\ Firm(worker)'
  BY <1>1, <1>3, <1>8, <1>9, BecomesIs DEF Worker!TypeOK
<1>19. ExpiredKept'
  <2> SUFFICES ASSUME NEW y \in Work(worker'), y[4] PROVE y[3] \in Kept(worker') \cup lost' BY DEF ExpiredKept
  <2>1. PICK x \in Work(worker) :
          y[1] = x[1] /\ y[2] = x[2] /\ y[3] = x[3] /\ (y[4] <=> x[4] \/ <<x[1], x[2]>> = id)
    BY <1>17
  <2>2. CASE x[4] BY <1>13, <2>1, <2>2 DEF WorkerInd, ExpiredKept
  <2>3. CASE <<x[1], x[2]>> = id
    <3>1. x[1] = z[1] /\ x[2] = z[2] BY <1>6, <2>3
    <3>2. x[3] = k BY <1>6, <3>1 DEF WorkerInd, OneKey
    <3> QED BY <1>13, <2>1, <3>2
  <2> QED BY <2>1, <2>2, <2>3
<1>20. OneKey'
  <2> SUFFICES ASSUME NEW x \in Work(worker'), NEW y \in Work(worker'), x[1] = y[1], x[2] = y[2]
               PROVE x[3] = y[3]
    BY DEF OneKey
  <2>1. PICK v \in Work(worker) : x[1] = v[1] /\ x[2] = v[2] /\ x[3] = v[3] BY <1>17
  <2>2. PICK w \in Work(worker) : y[1] = w[1] /\ y[2] = w[2] /\ y[3] = w[3] BY <1>17
  <2> QED BY <2>1, <2>2 DEF WorkerInd, OneKey
<1>23. OfPackets'
  <2> SUFFICES ASSUME NEW x \in Work(worker')
               PROVE  /\ x[1] <= Len(packets)
                      /\ x[1] >= 1 /\ packets[x[1]] # <<>> =>
                           x[2] \in 1 .. Len(packets[x[1]]) /\ packets[x[1]][x[2]] = x[3]
    BY <1>3 DEF OfPackets
  <2>1. PICK v \in Work(worker) : x[1] = v[1] /\ x[2] = v[2] /\ x[3] = v[3] BY <1>17
  <2> QED BY <2>1 DEF WorkerInd, OfPackets
<1>21. TakenCovered' /\ PacketsCovered' BY <1>3, <1>16 DEF WorkerInd, TakenCovered, PacketsCovered
<1>22. SettledKnown' /\ TakenKnown' BY <1>14 DEF SettledKnown, TakenKnown
<1> QED BY <1>18, <1>19, <1>20, <1>21, <1>22, <1>23 DEF WorkerInd

\* What the end of an append settles, in success and in failure: b is the
\* worker as the append left it, k the key of its job.
LEMMA WorkerSettled ==
  ASSUME Worker!ReceiptConstants, WorkerInd, NEW id, NEW i \in 1 .. Len(worker.active),
         Worker!Id(worker.active[i]) = id,
         NEW b, Fine(b), Grows(Worker!Now, b), b.waits = waits \ {id},
         b.w.queue = worker.queue, b.w.active = worker.active,
         journal \subseteq journal', journal' \subseteq Keys, failures' \in Nat,
         worker.active[i].key \in journal' \cup Kept(b.w) \cup b.lost,
         worker.active[i].key \in journal' \/ b.gap,
         Worker!Becomes(Worker!Freed(b, i)), UNCHANGED <<packets, recovering, handled, unrecorded>>
  PROVE  WorkerInd'
<1> DEFINE j == worker.active[i]
           k == j.key
           c == Worker!Freed(b, i)
<1>1. Worker!TypeOK /\ Firm(worker) BY DEF WorkerInd
<1>2. /\ Worker!Now.w = worker /\ Worker!Now.lost = lost /\ worker \in Workers
         /\ worker.active \in Seq(Worker!Job)
      /\ Len(packets) \in Nat
  BY <1>1, NowIs, PacketsAre DEF Worker!TypeOK
<1>3. /\ Fine(c) /\ c.waits = b.waits /\ c.lost = b.lost /\ c.gap = b.gap
      /\ c.w.unhealthy = b.w.unhealthy /\ Kept(c.w) = Kept(b.w) /\ Work(c.w) \subseteq Work(b.w)
      /\ \A x \in Work(b.w) : x[4] \/ x \in Work(c.w) \/ x = Tag(j)
  BY FreedIs
<1>4. Worker!Becomes(c) OBVIOUS
<1> HIDE DEF c
<1>5. worker' = c.w /\ waits' = waits \ {id} /\ lost' = c.lost /\ (b.gap => health'.writing)
  BY <1>1, <1>3, <1>4, BecomesIs
<1>6. Work(b.w) = Work(worker) BY DEF Work
<1>7. /\ Kept(worker) \subseteq Kept(worker') /\ lost \subseteq lost' /\ (worker.unhealthy => c.w.unhealthy)
      /\ lost \subseteq c.lost
  BY <1>2, <1>3, <1>5 DEF Grows
<1>8. Work(worker') \subseteq Work(worker) BY <1>3, <1>5, <1>6
<1>9. Tag(j) \in Work(worker) /\ Tag(j)[3] = k /\ Tag(j)[1] = j.call /\ Tag(j)[2] = j.place
  BY DEF Tag, Work, Tags
<1> HIDE DEF j
<1>10. k \in Covered(worker)' BY <1>3, <1>5 DEF Covered, j
<1>11. Covered(worker) \subseteq Covered(worker)' /\ (Gapped => Gapped')
  <2>1. \A m \in Kept(worker) : m \in Covered(worker)' BY <1>7 DEF Covered
  <2>2. \A x \in Work(worker) : x[3] \in Covered(worker)'
    <3> TAKE x \in Work(worker)
    <3>1. CASE x[4]
      <4>1. x[3] \in Kept(worker) \cup lost BY <3>1 DEF WorkerInd, ExpiredKept
      <4> QED BY <1>7, <4>1 DEF Covered
    <3>2. CASE x \in Work(c.w) BY <1>5, <3>2 DEF Covered
    <3>3. CASE x = Tag(j) BY <1>9, <1>10, <3>3
    <3> QED BY <1>3, <1>6, <3>1, <3>2, <3>3
  <2> QED BY <1>3, <1>4, <1>7, <2>1, <2>2, NothingForgotten
<1>12. Worker!TypeOK' /\ Firm(worker)' BY <1>1, <1>3, <1>4, BecomesIs DEF Worker!TypeOK
<1>13. ExpiredKept' /\ OneKey' BY <1>7, <1>8 DEF WorkerInd, ExpiredKept, OneKey
<1>14. OfPackets' BY <1>8 DEF WorkerInd, OfPackets
<1>15. TakenCovered' /\ PacketsCovered' BY <1>11 DEF WorkerInd, TakenCovered, PacketsCovered
<1>16. TakenKnown' BY <1>11 DEF WorkerInd, TakenKnown
<1>17. SettledKnown'
  <2> SUFFICES ASSUME NEW h \in 1 .. Len(packets), NEW m \in 1 .. Len(packets[h])
               PROVE <<h, m>> \in waits' \/ packets[h][m] \in journal' \/ Gapped'
    BY DEF SettledKnown
  <2>1. CASE <<h, m>> \in waits /\ <<h, m>> # id BY <1>5, <2>1
  <2>2. CASE packets[h][m] \in journal \/ Gapped BY <1>11, <2>2
  <2>3. CASE <<h, m>> = id
    <3>1. j.call = h /\ j.place = m BY <2>3 DEF Worker!Id, j
    <3>2. h >= 1 /\ packets[h] # <<>>
      <4>1. 1 .. Len(<<>>) = {} BY EmptySeq
      <4> QED BY <1>2, <4>1
    <3>3. packets[h][m] = k BY <1>9, <3>1, <3>2 DEF WorkerInd, OfPackets
    <3>4. k \in journal' \/ b.gap BY DEF j
    <3> QED BY <1>5, <3>3, <3>4 DEF Gapped
  <2> QED BY <2>1, <2>2, <2>3 DEF WorkerInd, SettledKnown
<1> QED BY <1>12, <1>13, <1>14, <1>15, <1>16, <1>17 DEF WorkerInd

\* An append that succeeds journals the key it stops waiting for.
LEMMA AppendedStep ==
  ASSUME Worker!ReceiptConstants, WorkerInd, NEW id \in Worker!Ids, Worker!Appended(id)
  PROVE  WorkerInd'
<1> DEFINE b == Worker!Resolved(Worker!Now, id)
<1>1. Worker!TypeOK /\ Firm(worker) BY DEF WorkerInd
<1>2. PICK i \in Worker!Running(id) : /\ journal' = journal \cup {worker.active[i].key}
                                         /\ Worker!Becomes(Worker!Freed(b, i))
                               /\ UNCHANGED <<packets, recovering, handled, unrecorded, failures>>
  BY DEF Worker!Appended
<1>3. worker.active \in Seq(Worker!Job) BY <1>1 DEF Worker!TypeOK
<1>4. i \in 1 .. Len(worker.active) /\ Worker!Id(worker.active[i]) = id
  BY <1>2, <1>3, LenProperties DEF Worker!Running
<1>5. worker.active[i].key \in Keys
  <2>1. worker.active[i] \in Worker!Job BY <1>3, <1>4, ElementOfSeq
  <2> QED BY <2>1 DEF Worker!Job
<1>6. Fine(Worker!Now) /\ Worker!Now.w = worker /\ Worker!Now.waits = waits /\ Worker!Now.lost = lost
  BY <1>1, NowIs
<1>7. /\ Fine(b) /\ Grows(Worker!Now, b) /\ b.waits = waits \ {id} /\ b.w = worker
  <2>1. b = [Worker!Now EXCEPT !.waits = waits \ {id}] BY <1>6 DEF Worker!Resolved
  <2>2. waits \ {id} \in SUBSET (Worker!Calls \X Nat) BY <1>1 DEF Worker!TypeOK
  <2> HIDE DEF b
  <2>3. b \in States /\ b.w = Worker!Now.w /\ b.waits = waits \ {id} /\ b.lost = Worker!Now.lost
        /\ b.gap = Worker!Now.gap
    BY <1>6, <2>1, <2>2 DEF States, Fine
  <2> QED BY <1>6, <2>3 DEF Fine, Grows
<1> HIDE DEF b
<1>8. journal \subseteq journal' /\ journal' \subseteq Keys /\ failures' \in Nat
      /\ worker.active[i].key \in journal'
  BY <1>1, <1>2, <1>5 DEF Worker!TypeOK
<1>9. UNCHANGED <<packets, recovering, handled, unrecorded>> BY <1>2
<1> QED BY <1>2, <1>4, <1>7, <1>8, <1>9, WorkerSettled

\* One that fails retains it or lets it go, as a gap.
LEMMA AppendFailedStep ==
  ASSUME Worker!ReceiptConstants, WorkerInd, NEW id \in Worker!Ids, Worker!AppendFailed(id)
  PROVE  WorkerInd'
<1>1. Worker!TypeOK /\ Firm(worker) BY DEF WorkerInd
<1>2. PICK i \in Worker!Running(id) :
        /\ \/ UNCHANGED <<journal, failures>>
           \/ Worker!Fault /\ journal' \in {journal, journal \cup {worker.active[i].key}}
        /\ Worker!Becomes(Worker!Freed(Worker!Resolved(Worker!Gap(Worker!Now, worker.active[i].key), id), i))
        /\ UNCHANGED <<packets, recovering, handled, unrecorded>>
  BY DEF Worker!AppendFailed
<1> DEFINE k == worker.active[i].key
           a == Worker!Gap(Worker!Now, k)
           b == Worker!Resolved(a, id)
<1>3. worker.active \in Seq(Worker!Job) BY <1>1 DEF Worker!TypeOK
<1>4. i \in 1 .. Len(worker.active) /\ Worker!Id(worker.active[i]) = id
  BY <1>2, <1>3, LenProperties DEF Worker!Running
<1>5. k \in Keys
  <2>1. worker.active[i] \in Worker!Job BY <1>3, <1>4, ElementOfSeq
  <2> QED BY <2>1 DEF Worker!Job
<1>6. Fine(Worker!Now) /\ Worker!Now.w = worker /\ Worker!Now.waits = waits /\ Worker!Now.lost = lost
  BY <1>1, NowIs
<1>7. /\ Fine(a) /\ Grows(Worker!Now, a) /\ a.gap /\ a.waits = waits
      /\ a.w.queue = worker.queue /\ a.w.active = worker.active /\ k \in Kept(a.w) \cup a.lost
  BY <1>5, <1>6, GapIs
<1>8. Worker!Becomes(Worker!Freed(b, i)) BY <1>2
<1> HIDE DEF a
<1>9. /\ Fine(b) /\ Grows(Worker!Now, b) /\ b.gap /\ b.waits = waits \ {id} /\ b.w = a.w /\ b.lost = a.lost
  <2>1. b = [a EXCEPT !.waits = waits \ {id}] BY <1>7 DEF Worker!Resolved
  <2>2. waits \ {id} \in SUBSET (Worker!Calls \X Nat) BY <1>1 DEF Worker!TypeOK
  <2> HIDE DEF b
  <2>3. b \in States /\ b.w = a.w /\ b.waits = waits \ {id} /\ b.lost = a.lost /\ b.gap = a.gap
    BY <1>7, <2>1, <2>2 DEF States, Fine
  <2> QED BY <1>7, <2>3 DEF Fine, Grows
<1> HIDE DEF b
<1>10. journal \subseteq journal' /\ journal' \subseteq Keys /\ failures' \in Nat
  <2>1. journal \subseteq Keys /\ failures \in Nat BY <1>1 DEF Worker!TypeOK
  <2> QED BY <1>2, <1>5, <2>1 DEF Worker!Fault
<1>11. UNCHANGED <<packets, recovering, handled, unrecorded>> BY <1>2
<1> QED BY <1>4, <1>7, <1>8, <1>9, <1>10, <1>11, WorkerSettled

\* The timer takes a key back and submits it, with nothing in work.
LEMMA RecoverStep ==
  ASSUME Worker!ReceiptConstants, WorkerInd, Worker!Recover
  PROVE  WorkerInd'
<1> DEFINE k == Head(worker.recovery)
           b == [Worker!Now EXCEPT !.w.recovery = Tail(@), !.w.recoveryBytes = @ - Size[k]]
           j == Worker!NewJob(0, 1, k)
           c == Worker!Submit(b, j)
<1>1. Worker!TypeOK /\ Firm(worker) BY DEF WorkerInd
<1>2. /\ worker.active = <<>> /\ worker.queue = <<>> /\ worker.recovery # <<>>
      /\ Worker!Becomes(c) /\ recovering' = TRUE
         /\ UNCHANGED <<packets, journal, handled, unrecorded, failures>>
  BY DEF Worker!Recover
<1>3. /\ k \in Keys /\ Fine(b) /\ b.waits = waits /\ b.lost = lost /\ b.w.unhealthy = worker.unhealthy
      /\ Kept(worker) \subseteq Kept(b.w) \cup {k} /\ Work(b.w) = Work(worker)
  BY <1>1, <1>2, TakenBack
<1>4. Work(worker) = {} BY <1>2, TagsEmpty DEF Work
<1>5. j \in Worker!Job /\ ~ j.expired /\ j.key = k /\ Worker!Id(j) = <<0, 1>> /\ Tag(j) = <<0, 1, k, FALSE>>
  <2>1. 0 \in Worker!Calls /\ 1 \in Nat BY DEF Worker!ReceiptConstants, Worker!Calls
  <2> HIDE DEF k
  <2> QED BY <1>3, <2>1 DEF Worker!NewJob, Worker!Job, Worker!Id, Tag
<1> HIDE DEF j, b, k
<1>6. Submitted(c, b, j) BY <1>3, <1>5, SubmitIs
<1> HIDE DEF c
<1>7. /\ Fine(c) /\ waits \subseteq c.waits /\ lost \subseteq c.lost /\ Kept(b.w) \subseteq Kept(c.w)
      /\ (worker.unhealthy => c.w.unhealthy) /\ Work(c.w) \subseteq {Tag(j)}
      /\ Tag(j) \in Work(c.w) \/ k \in Kept(c.w) \cup c.lost
  BY <1>3, <1>4, <1>5, <1>6 DEF Submitted, Grows
<1>8. worker' = c.w /\ waits' = c.waits /\ lost' = c.lost BY <1>1, <1>2, <1>7, BecomesIs
<1>9. Tag(j)[1] = 0 /\ Tag(j)[3] = k /\ Tag(j)[4] = FALSE BY <1>5
<1>10. k \in Covered(worker)' BY <1>7, <1>8, <1>9 DEF Covered
<1>11. Covered(worker) \subseteq Covered(worker)' /\ (Gapped => Gapped')
  <2>1. \A m \in Kept(worker) : m \in Covered(worker)' BY <1>3, <1>7, <1>8, <1>10 DEF Covered
  <2>2. \A x \in Work(worker) : x[3] \in Covered(worker)' BY <1>4
  <2> QED BY <1>2, <1>7, <2>1, <2>2, NothingForgotten
<1>12. Worker!TypeOK' /\ Firm(worker)' BY <1>1, <1>2, <1>7, BecomesIs DEF Worker!TypeOK
<1>13. \A x \in Work(worker') : x = Tag(j) BY <1>7, <1>8
<1>14. ExpiredKept' /\ OneKey' BY <1>9, <1>13 DEF ExpiredKept, OneKey
<1>15. OfPackets'
  <2>1. Len(packets) \in Nat /\ packets' = packets BY <1>1, <1>2, PacketsAre
  <2>2. 0 <= Len(packets) /\ ~ (0 >= 1) BY <2>1
  <2> QED BY <1>9, <1>13, <2>1, <2>2 DEF OfPackets
<1>16. TakenCovered' /\ PacketsCovered' BY <1>2, <1>11 DEF WorkerInd, TakenCovered, PacketsCovered
<1>17. SettledKnown' /\ TakenKnown' BY <1>2, <1>7, <1>8, <1>11 DEF WorkerInd, SettledKnown, TakenKnown
<1> QED BY <1>12, <1>14, <1>15, <1>16, <1>17 DEF WorkerInd

\* A step beside the worker, after which a known gap is still known.
LEMMA BesideStep ==
  ASSUME Worker!ReceiptConstants, WorkerInd, Worker!TypeOK', Gapped => Gapped',
         UNCHANGED <<worker, packets, waits, journal, handled, lost>>
  PROVE  WorkerInd'
<1>1. Covered(worker)' = Covered(worker) /\ Firm(worker)' BY DEF Covered, WorkerInd
<1>2. ExpiredKept' /\ OneKey' /\ OfPackets' BY DEF WorkerInd, ExpiredKept, OneKey, OfPackets
<1>3. TakenCovered' /\ PacketsCovered' BY <1>1 DEF WorkerInd, TakenCovered, PacketsCovered
<1>4. SettledKnown' /\ TakenKnown' BY DEF WorkerInd, SettledKnown, TakenKnown
<1> QED BY <1>1, <1>2, <1>3, <1>4 DEF WorkerInd

\* The health row: written, the gap is stored; failed, it may be forgotten.
LEMMA HealthSteps ==
  ASSUME Worker!ReceiptConstants, WorkerInd, Worker!Recovered \/ Worker!HealthWritten \/ Worker!HealthFails
  PROVE  WorkerInd'
<1>1. Worker!TypeOK BY DEF WorkerInd
<1>2. health \in [unhealthy : BOOLEAN, writing : BOOLEAN] BY <1>1 DEF Worker!TypeOK
<1>3. CASE Worker!Recovered
  <2>1. Worker!TypeOK' BY <1>1, <1>3 DEF Worker!TypeOK, Worker!Recovered, Worker!books
  <2>2. Gapped => Gapped' BY <1>3 DEF Gapped, Worker!Recovered, Worker!books
  <2> QED BY <1>3, <2>1, <2>2, BesideStep DEF Worker!Recovered, Worker!books
<1>4. CASE Worker!HealthWritten
  <2>1. Worker!TypeOK' BY <1>1, <1>4 DEF Worker!TypeOK, Worker!HealthWritten, Worker!books
  <2>2. Gapped' BY <1>4 DEF Gapped, Worker!HealthWritten
  <2> QED BY <1>4, <2>1, <2>2, BesideStep DEF Worker!HealthWritten, Worker!books
<1>5. CASE Worker!HealthFails
  <2>1. health' \in [unhealthy : BOOLEAN, writing : BOOLEAN] /\ health'.unhealthy = health.unhealthy
    BY <1>2, <1>5 DEF Worker!HealthFails
  <2>2. (unrecorded' <=> unrecorded \/ ~ (worker.unhealthy \/ health.unhealthy)) /\ unrecorded' \in BOOLEAN
    <3>1. unrecorded' = (unrecorded \/ ~ (worker.unhealthy \/ health.unhealthy)) BY <1>5 DEF Worker!HealthFails
    <3> QED BY <3>1
  <2>3. failures' \in Nat BY <1>1, <1>5 DEF Worker!TypeOK, Worker!HealthFails, Worker!Fault
  <2>4. UNCHANGED <<worker, packets, waits, recovering, journal, handled, lost>> BY <1>5 DEF Worker!HealthFails
  <2>5. Worker!TypeOK' BY <1>1, <2>1, <2>2, <2>3, <2>4 DEF Worker!TypeOK
  <2>6. Gapped' BY <2>1, <2>2, <2>4 DEF Gapped
  <2> QED BY <2>4, <2>5, <2>6, BesideStep
<1> QED BY <1>3, <1>4, <1>5

\* What the worker holds is what it retains and what is in work.
LEMMA HeldIs ==
  ASSUME Worker!ReceiptConstants, Worker!TypeOK
  PROVE  Worker!Held = Kept(worker) \cup {x[3] : x \in Work(worker)} /\ Worker!Held \subseteq Keys
<1>1. worker.queue \in Seq(Worker!Job) /\ worker.active \in Seq(Worker!Job) /\ worker.recovery \in Seq(Keys)
  BY DEF Worker!TypeOK
<1>2. /\ DOMAIN worker.queue = 1 .. Len(worker.queue) /\ DOMAIN worker.active = 1 .. Len(worker.active)
      /\ DOMAIN worker.recovery = 1 .. Len(worker.recovery)
  BY <1>1, LenProperties
<1>3. Worker!ToSet(worker.recovery) = Kept(worker) BY <1>2 DEF Worker!ToSet, Kept
<1>4. \A j : Tag(j)[3] = j.key BY DEF Tag
<1>5. /\ {worker.queue[i].key : i \in DOMAIN worker.queue} = {x[3] : x \in Tags(worker.queue)}
      /\ {worker.active[i].key : i \in DOMAIN worker.active} = {x[3] : x \in Tags(worker.active)}
  BY <1>2, <1>4 DEF Tags
<1>6. Worker!Held = Kept(worker) \cup {x[3] : x \in Work(worker)} BY <1>3, <1>5 DEF Worker!Held, Work
<1>7. \A i \in 1 .. Len(worker.recovery) : worker.recovery[i] \in Keys BY <1>1, ElementOfSeq
<1>8. \A i \in 1 .. Len(worker.queue) : worker.queue[i].key \in Keys
  <2>1. \A i \in 1 .. Len(worker.queue) : worker.queue[i] \in Worker!Job BY <1>1, ElementOfSeq
  <2> QED BY <2>1 DEF Worker!Job
<1>9. \A i \in 1 .. Len(worker.active) : worker.active[i].key \in Keys
  <2>1. \A i \in 1 .. Len(worker.active) : worker.active[i] \in Worker!Job BY <1>1, ElementOfSeq
  <2> QED BY <2>1 DEF Worker!Job
<1>10. Worker!Held \subseteq Keys BY <1>2, <1>3, <1>7, <1>8, <1>9 DEF Worker!Held, Kept
<1> QED BY <1>6, <1>10

\* A crash lets go what was held.
LEMMA CrashStep ==
  ASSUME Worker!ReceiptConstants, WorkerInd, Worker!Crash
  PROVE  WorkerInd'
<1>1. Worker!TypeOK /\ Firm(worker) BY DEF WorkerInd
<1>2. /\ worker' = Worker!NewWorker /\ packets' = [h \in DOMAIN packets |-> <<>>] /\ waits' = {}
         /\ recovering' = FALSE
      /\ health' = [health EXCEPT !.writing = FALSE] /\ lost' = lost \cup Worker!Held
      /\ journal' = journal /\ handled' = handled /\ failures' \in Nat
  BY <1>1 DEF Worker!Crash, Worker!Fault, Worker!TypeOK
<1>3. /\ (unrecorded' <=> unrecorded \/ (~ health.unhealthy /\ (worker.unhealthy \/ health.writing)))
      /\ unrecorded' \in BOOLEAN
  <2>1. unrecorded' = (unrecorded \/ (~ health.unhealthy /\ (worker.unhealthy \/ health.writing)))
    BY DEF Worker!Crash
  <2> QED BY <2>1
<1>4. Firm(Worker!NewWorker) /\ Work(Worker!NewWorker) = {} /\ Kept(Worker!NewWorker) = {} BY NewFirm
<1>5. Worker!Held = Kept(worker) \cup {x[3] : x \in Work(worker)} /\ Worker!Held \subseteq Keys BY <1>1, HeldIs
<1>6. Len(packets) \in Nat /\ DOMAIN packets = 1 .. Len(packets) /\ 1 .. Len(<<>>) = {} BY <1>1, PacketsAre
<1>7. packets' \in Seq(Packets \cup {<<>>}) /\ Len(packets') = Len(packets)
      /\ \A h \in 1 .. Len(packets) : packets'[h] = <<>>
  <2>1. packets' = [h \in 1 .. Len(packets) |-> <<>>] BY <1>2, <1>6
  <2>2. packets' \in [1 .. Len(packets) -> Packets \cup {<<>>}] /\ DOMAIN packets' = 1 .. Len(packets) BY <2>1
  <2>3. packets' \in Seq(Packets \cup {<<>>}) BY <1>6, <2>2, SeqDef
  <2>4. Len(packets') = Len(packets) BY <1>6, <2>2, <2>3, LenProperties
  <2> QED BY <2>1, <2>3, <2>4
<1>8. health' \in [unhealthy : BOOLEAN, writing : BOOLEAN] /\ health'.unhealthy = health.unhealthy
  BY <1>1, <1>2 DEF Worker!TypeOK
<1>9. Worker!TypeOK'
  <2>1. lost' \subseteq Keys /\ journal' \subseteq Keys /\ handled' \subseteq Keys
    BY <1>1, <1>2, <1>5 DEF Worker!TypeOK
  <2> QED BY <1>2, <1>3, <1>4, <1>7, <1>8, <2>1, FirmTypes DEF Worker!TypeOK
<1>10. Firm(worker)' BY <1>2, <1>4
<1>11. Covered(worker) \subseteq Covered(worker)' BY <1>2, <1>4, <1>5 DEF Covered
<1>12. Gapped => Gapped' BY <1>2, <1>3, <1>8 DEF Gapped
<1>13. ExpiredKept' /\ OneKey' /\ OfPackets' BY <1>2, <1>4 DEF ExpiredKept, OneKey, OfPackets
<1>14. PacketsCovered' /\ SettledKnown' BY <1>6, <1>7 DEF PacketsCovered, SettledKnown
<1>15. TakenCovered' /\ TakenKnown' BY <1>2, <1>11, <1>12 DEF WorkerInd, TakenCovered, TakenKnown
<1> QED BY <1>9, <1>10, <1>13, <1>14, <1>15 DEF WorkerInd

\* Every step preserves the invariant.
LEMMA NextInd ==
  ASSUME Worker!ReceiptConstants
  PROVE  WorkerInd /\ [Worker!Next]_(Worker!vars) => WorkerInd'
<1> SUFFICES ASSUME WorkerInd, [Worker!Next]_(Worker!vars) PROVE WorkerInd' OBVIOUS
<1>1. CASE \E p \in Packets : Worker!Capture(p) \/ Worker!Blind(p) BY <1>1, CaptureStep, BlindStep
<1>2. CASE \E h \in Worker!Calls : Worker!Return(h) BY <1>2, ReturnStep
<1>3. CASE \E id \in Worker!Ids : Worker!Expire(id) \/ Worker!Appended(id) \/ Worker!AppendFailed(id)
  BY <1>3, ExpireStep, AppendedStep, AppendFailedStep
<1>4. CASE Worker!Recover BY <1>4, RecoverStep
<1>5. CASE Worker!Recovered \/ Worker!HealthWritten \/ Worker!HealthFails BY <1>5, HealthSteps
<1>6. CASE Worker!Crash BY <1>6, CrashStep
<1>7. CASE UNCHANGED Worker!vars
  <2>1. Worker!TypeOK' BY <1>7 DEF WorkerInd, Worker!TypeOK, Worker!vars, Worker!books
  <2>2. Gapped' = Gapped BY <1>7 DEF Gapped, Worker!vars, Worker!books
  <2> QED BY <1>7, <2>1, <2>2, BesideStep DEF Worker!vars, Worker!books
<1> QED BY <1>1, <1>2, <1>3, <1>4, <1>5, <1>6, <1>7 DEF Worker!Next

\* The invariant is stronger than WorkerInv.
LEMMA IndImplies ==
  ASSUME Worker!ReceiptConstants
  PROVE  WorkerInd => Worker!WorkerInv
<1> SUFFICES ASSUME WorkerInd PROVE Worker!WorkerInv OBVIOUS
<1>1. Worker!TypeOK /\ Firm(worker) BY DEF WorkerInd
<1>2. Worker!Accounted BY <1>1 DEF Worker!Accounted, Firm, Counted, Bytes
<1>3. DOMAIN worker.recovery = 1 .. Len(worker.recovery)
  <2>1. worker.recovery \in Seq(Keys) BY <1>1 DEF Worker!TypeOK
  <2> QED BY <2>1, LenProperties
<1>4. Worker!Bounded
  <2>1. Worker!Total(Worker!KeysOf(worker.queue)) = worker.bytes
        /\ Worker!Total(Worker!KeysOf(worker.active)) = worker.activeBytes
        /\ Worker!Total(worker.recovery) = worker.recoveryBytes
    BY <1>2 DEF Worker!Accounted
  <2>2. /\ Len(worker.queue) + Len(worker.active) <= QueueItems /\ Len(worker.active) <= Concurrent
        /\ worker.bytes + worker.activeBytes <= QueueBytes
        /\ Len(worker.recovery) <= RecoveryItems /\ worker.recoveryBytes <= RecoveryBytes
        /\ \A i, j \in 1 .. Len(worker.recovery) : worker.recovery[i] = worker.recovery[j] => i = j
    BY <1>1 DEF Firm, Counted
  <2> QED BY <1>3, <2>1, <2>2 DEF Worker!Bounded
<1>5. Worker!NoneForgotten
  <2>1. Worker!Held = Kept(worker) \cup {x[3] : x \in Work(worker)} BY <1>1, HeldIs
  <2> QED BY <2>1 DEF WorkerInd, TakenCovered, TakenKnown, Covered, Gapped, Worker!NoneForgotten
<1> QED BY <1>1, <1>2, <1>4, <1>5 DEF Worker!WorkerInv

\* WorkerInd is an invariant of the worker.
THEOREM SpecWorkerInd == Worker!ReceiptConstants /\ Worker!Spec => [](Worker!ReceiptConstants /\ WorkerInd)
<1>1. Worker!ReceiptConstants /\ Worker!Init => Worker!ReceiptConstants /\ WorkerInd BY InitInd
<1>2. (Worker!ReceiptConstants /\ WorkerInd) /\ [Worker!Next]_(Worker!vars) => (Worker!ReceiptConstants
       /\ WorkerInd)'
  BY NextInd
<1> QED BY <1>1, <1>2, PTL DEF Worker!Spec

\* Evidence in memory is bounded and accounted for, and no receipt the handler
\* went on with is forgotten: for any receipts, packets and capacities.
THEOREM SpecWorkerInv == Worker!ReceiptConstants /\ Worker!Spec => []Worker!WorkerInv
<1>1. Worker!ReceiptConstants /\ WorkerInd => Worker!WorkerInv BY IndImplies
<1> QED BY <1>1, SpecWorkerInd, PTL
=============================================================================
