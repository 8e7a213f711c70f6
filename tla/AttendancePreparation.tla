------------------------ MODULE AttendancePreparation -------------------------
(***************************************************************************)
(* The preparation of one unit of an attendance message (nexi-attendance:  *)
(* draft, prepare, closeCollision, replacementDraft, recoverPreparation,   *)
(* the prepare route and the timer).  A draft carries a candidate message  *)
(* id; the APP registers an attempt and reserves the candidate, or the     *)
(* candidate collides, is fenced there, and a replacement draft takes its  *)
(* place.  A reserved draft is frozen together with its event.  Requests   *)
(* and recoveries of several processes work on the same rows, and each     *)
(* statement and each request may fail with or without its effect.         *)
(***************************************************************************)
EXTENDS Naturals

CONSTANTS
  Workers,     \* exchanges of the route and recoveries in work at one time
  Timers,      \* the recovery of each process, one at a time by its flag running
  NoStamp,
  MaxRows,     \* bound on candidates: the last one does not collide
  MaxTries,    \* MAX_ATTEMPTS of the recovery
  MaxExchanges,\* bound on the exchanges the APP begins
  MaxFaults    \* bound on faults

ASSUME PreparationConstants ==
  /\ Timers \subseteq Workers /\ NoStamp \notin Workers
  /\ MaxRows \in Nat \ {0} /\ MaxTries \in Nat \ {0}
  /\ MaxExchanges \in Nat /\ MaxFaults \in Nat

VARIABLES
  row,        \* row[k]: the k-th preparation, of the k-th request id
  event,      \* event[k]: the attendance.transport.prepared event, by its time
  app,        \* app[k]: what the APP knows of the k-th candidate
  collides,   \* candidates that are taken already, there
  at,         \* workers, with their local variables
  exchanges,  \* exchanges so far
  faults

stored == <<row, event>>
vars   == <<stored, app, collides, at, exchanges, faults>>

Rows   == 1 .. MaxRows
Stamps == Workers \cup {NoStamp}

\* "later" are the states the authority takes a prepared row to.
States == {"absent", "draft", "reserved", "prepared", "later", "closed"}
Row    == [state : States, rev : Nat, attempt : BOOLEAN, reservation : BOOLEAN,
           frozen : Stamps, successor : BOOLEAN, tries : Nat]
Absent == [state |-> "absent", rev |-> 0, attempt |-> FALSE, reservation |-> FALSE,
           frozen |-> NoStamp, successor |-> FALSE, tries |-> 0]

Asking   == {"attempt", "reserve", "readback", "close"}
Updating == {"attempted", "reserved", "closed", "freeze", "link", "tried"}
Stages   == Asking \cup Updating \cup {"idle", "begin", "find", "context", "create", "reread", "failed"}

\* seen is the row as read, pred its predecessor's if that is being replaced; whence the row a recovery began with; next the stage
\* after a reread; last that the replacement is returned as it is.
Local == [pc : Stages, k : Rows, seen : Row, pred : Row, whence : {0} \cup Rows, next : Stages,
          conflict : BOOLEAN, last : BOOLEAN]
Idle  == [pc |-> "idle", k |-> 1, seen |-> Absent, pred |-> Absent, whence |-> 0, next |-> "idle",
          conflict |-> FALSE, last |-> FALSE]

TypeOK ==
  /\ row \in [Rows -> Row] /\ event \in [Rows -> Stamps]
  /\ app \in [Rows -> {"none", "registered", "reserved", "fenced"}]
  /\ collides \subseteq 1 .. MaxRows - 1
  /\ at \in [Workers -> Local] /\ exchanges \in Nat /\ faults \in Nat

Init ==
  /\ row = [k \in Rows |-> Absent] /\ event = [k \in Rows |-> NoStamp]
  /\ app = [k \in Rows |-> "none"]
  /\ collides \in SUBSET (1 .. MaxRows - 1)
  /\ at = [w \in Workers |-> Idle] /\ exchanges = 0 /\ faults = 0

With(w, d) == at' = [at EXCEPT ![w] = d]
Ends(w)    == With(w, Idle)
Fault      == faults < MaxFaults /\ faults' = faults + 1
\* An exception ends an exchange with an answer; a recovery notes the failure.
Throws(w)  == IF at[w].whence = 0 THEN Ends(w) ELSE With(w, [at[w] EXCEPT !.pc = "failed"])

\* prepare, up to its first request: by the state of the row at hand.
Prepare(w, k, r) ==
  LET d == [at[w] EXCEPT !.k = k, !.seen = r, !.pred = Absent] IN
  \/ r.state = "closed" /\ With(w, [d EXCEPT !.pc = "find", !.k = k + 1, !.seen = Absent, !.pred = r])
  \/ r.state \in {"prepared", "later"} /\ Ends(w)
  \/ /\ r.state \in {"draft", "reserved"}
     /\ With(w, [d EXCEPT !.pc = IF ~ r.attempt THEN "attempt"
                                 ELSE IF ~ r.reservation THEN "reserve" ELSE "freeze"])

-----------------------------------------------------------------------------
\* The prepare route: first the durable draft of this very exchange.
Exchange(w) ==
  /\ w \notin Timers /\ at[w] = Idle /\ exchanges < MaxExchanges /\ exchanges' = exchanges + 1
  /\ With(w, [Idle EXCEPT !.pc = "find"])
  /\ UNCHANGED <<stored, app, collides, faults>>

\* What-if variants: the recovery looks for drafts only; not for closed rows.
UnfinishedDrafts(k) == row[k].state = "draft" /\ row[k].tries < MaxTries
UnfinishedOpen(k)   == row[k].state \in {"draft", "reserved"} /\ row[k].tries < MaxTries

\* Rows the timer recovers, once their time came.
Unfinished(k) ==
  /\ row[k].tries < MaxTries
  /\ row[k].state \in {"draft", "reserved"} \/ (row[k].state = "closed" /\ ~ row[k].successor)

\* recoverPreparation, with the row as the timer's query found it.
Recover(w, k) ==
  /\ w \in Timers /\ at[w] = Idle /\ Unfinished(k)
  /\ With(w, [Idle EXCEPT !.pc = "begin", !.k = k, !.seen = row[k], !.whence = k])
  /\ UNCHANGED <<stored, app, collides, exchanges, faults>>

Begin(w) ==
  /\ at[w].pc = "begin" /\ Prepare(w, at[w].k, at[w].seen)
  /\ UNCHANGED <<stored, app, collides, exchanges, faults>>

\* What follows draft: replacementDraft tells the predecessor its successor.
Drafted(w, r) ==
  IF at[w].pred.state = "closed" /\ ~ at[w].pred.successor
  THEN With(w, [at[w] EXCEPT !.pc = "link", !.seen = r])
  ELSE IF at[w].last THEN Ends(w) ELSE Prepare(w, at[w].k, r)

\* What-if variant: the successor is noted before it is created.
FindLinksFirst(w) ==
  /\ at[w].pc = "find"
  /\ IF row[at[w].k].state # "absent" THEN Drafted(w, row[at[w].k])
     ELSE With(w, [at[w] EXCEPT !.pc = IF at[w].pred.state = "closed" THEN "link" ELSE "context"])
  /\ UNCHANGED <<stored, app, collides, exchanges, faults>>

\* The draft of a request id is found, or is to be created; the first one needs
\* the context of the session, from the APP.
Find(w) ==
  /\ at[w].pc = "find"
  /\ IF row[at[w].k].state # "absent" THEN Drafted(w, row[at[w].k])
     ELSE With(w, [at[w] EXCEPT !.pc = IF at[w].pred.state = "closed" THEN "create" ELSE "context"])
  /\ UNCHANGED <<stored, app, collides, exchanges, faults>>

\* refreshContext, with its answer or without.
Context(w) ==
  /\ at[w].pc = "context"
  /\ With(w, [at[w] EXCEPT !.pc = "create"]) \/ Throws(w)
  /\ UNCHANGED <<stored, app, collides, exchanges, faults>>

\* The unique request id: the loser of a race reads the winner.
Create(w) ==
  LET k == at[w].k IN
  /\ at[w].pc = "create"
  /\ IF row[k].state = "absent"
     THEN row' = [row EXCEPT ![k].state = "draft"] /\ Drafted(w, [Absent EXCEPT !.state = "draft"])
     ELSE With(w, [at[w] EXCEPT !.pc = "find"]) /\ UNCHANGED row
  /\ UNCHANGED <<event, app, collides, exchanges, faults>>

-----------------------------------------------------------------------------
\* The APP, as far as the requests show it: idempotent by request id.
Registers(k) == IF app[k] = "none" THEN "registered" ELSE app[k]
Reserves(k)  == IF app[k] = "registered" /\ k \notin collides THEN "reserved" ELSE app[k]
Fences(k)    == IF app[k] = "registered" /\ k \in collides THEN "fenced" ELSE app[k]

AfterRequest(w) ==
  LET k == at[w].k IN
  IF at[w].pc = "attempt" THEN Registers(k)
  ELSE IF at[w].pc = "reserve" THEN Reserves(k)
  ELSE IF at[w].pc = "close" THEN Fences(k) ELSE app[k]

Told(w) == app' = [app EXCEPT ![at[w].k] = AfterRequest(w)]
To(w, stage) == With(w, [at[w] EXCEPT !.pc = stage])

\* closeCollision is for a draft whose attempt is registered and not reserved.
ToClose(w) == IF at[w].seen.state = "draft" THEN To(w, "close") ELSE Throws(w)

\* What-if variant: an error of the reservation is a licence for another candidate.
ReadbackLicensed(w, is) ==
  IF is = "reserved" THEN To(w, "reserved") ELSE To(w, "closed")

\* After an error of the reservation: what the APP says it holds decides.
Readback(w, is) ==
  IF is = "reserved" THEN To(w, "reserved")
  ELSE IF is = "fenced" \/ at[w].conflict THEN ToClose(w) ELSE Throws(w)

Answered(w, is) ==
  \/ at[w].pc = "attempt" /\ To(w, "attempted")
  \/ /\ at[w].pc = "reserve"
     /\ IF is = "reserved" THEN To(w, "reserved")
        ELSE With(w, [at[w] EXCEPT !.pc = "readback", !.conflict = TRUE])
  \/ at[w].pc = "readback" /\ Readback(w, is)
  \/ at[w].pc = "close" /\ IF is = "fenced" THEN To(w, "closed") ELSE Throws(w)

Ask(w) ==
  /\ at[w].pc \in Asking /\ Told(w) /\ Answered(w, AfterRequest(w))
  /\ UNCHANGED <<stored, collides, exchanges, faults>>

\* A request is lost, or its answer is.
AskFails(w) ==
  /\ at[w].pc \in Asking /\ Fault
  /\ Told(w) \/ UNCHANGED app
  /\ IF at[w].pc = "reserve" THEN To(w, "readback") ELSE Throws(w)
  /\ UNCHANGED <<stored, collides, exchanges>>

-----------------------------------------------------------------------------
\* The row an update is for: the predecessor, when a successor is noted.
Target(w) == IF at[w].pc = "link" THEN at[w].k - 1
             ELSE IF at[w].pc = "tried" THEN at[w].whence ELSE at[w].k

Changed(w) ==
  LET r == [row[Target(w)] EXCEPT !.rev = @ + 1] IN
  IF at[w].pc = "attempted" THEN [r EXCEPT !.attempt = TRUE]
  ELSE IF at[w].pc = "reserved" THEN [r EXCEPT !.reservation = TRUE, !.state = "reserved"]
  ELSE IF at[w].pc = "closed" THEN [r EXCEPT !.state = "closed"]
  ELSE IF at[w].pc = "freeze" THEN [r EXCEPT !.state = "prepared", !.frozen = w]
  ELSE IF at[w].pc = "link" THEN [r EXCEPT !.successor = TRUE]
  ELSE [r EXCEPT !.tries = @ + 1]

Moves == {<<"draft", "reserved">>, <<"draft", "closed">>, <<"reserved", "prepared">>,
          <<"prepared", "later">>}

\* preparation_guard, the trigger before an update.
Guarded(old, new) ==
  /\ old.attempt => new.attempt
  /\ old.reservation => new.reservation
  /\ old.successor => new.successor
  /\ new.successor => new.state = "closed"
  /\ old.frozen # NoStamp => new.frozen = old.frozen
  /\ new.state = old.state \/ <<old.state, new.state>> \in Moves

\* compareUpdate asks for the state and the revision that were read.
Current(w) ==
  LET r == row[Target(w)]
      read == IF at[w].pc = "link" THEN at[w].pred ELSE at[w].seen IN
  r.rev = read.rev /\ r.state = read.state

\* enqueue, in the transaction of the freeze: one event per preparation.
Enqueued(w) == event[at[w].k] \in {NoStamp, w}

Updates(w) ==
  /\ Current(w) /\ Guarded(row[Target(w)], Changed(w))
  /\ at[w].pc = "freeze" => Enqueued(w)

\* What-if variant: the event is queued outside the transaction of the freeze.
WrittenApart(w) ==
  /\ row' = [row EXCEPT ![Target(w)] = Changed(w)]
  /\ event' \in {event} \cup {[event EXCEPT ![at[w].k] = w] : f \in {"freeze"} \cap {at[w].pc}}

Written(w) ==
  /\ row' = [row EXCEPT ![Target(w)] = Changed(w)]
  /\ event' = IF at[w].pc = "freeze" THEN [event EXCEPT ![at[w].k] = w] ELSE event

Reread(w, next) == With(w, [at[w] EXCEPT !.pc = "reread", !.next = next])

\* What follows an update.
Then(w) ==
  \/ at[w].pc = "attempted" /\ Reread(w, "reserve")
  \/ at[w].pc = "reserved" /\ Reread(w, "freeze")
  \/ at[w].pc = "closed" /\ Reread(w, "closed")
  \/ (at[w].pc \in {"freeze", "tried"} \/ (at[w].pc = "link" /\ at[w].last)) /\ Ends(w)
  \/ at[w].pc = "link" /\ ~ at[w].last /\ Prepare(w, at[w].k, at[w].seen)

Update(w) ==
  /\ at[w].pc \in Updating
  /\ IF Updates(w) THEN Written(w) /\ Then(w)
     ELSE UNCHANGED stored /\ (IF at[w].pc = "tried" THEN Ends(w) ELSE Throws(w))
  /\ UNCHANGED <<app, collides, exchanges, faults>>

\* compareUpdate returns what it finds after its update, by a read of its own:
\* others may have been there.
AfterUpdate(w) ==
  LET r == row[at[w].k]  d == [at[w] EXCEPT !.seen = r, !.next = "idle"] IN
  /\ at[w].pc = "reread"
  /\ \/ at[w].next = "reserve" /\ With(w, [d EXCEPT !.pc = IF r.reservation THEN "freeze" ELSE "reserve"])
     \/ at[w].next = "freeze" /\ With(w, [d EXCEPT !.pc = "freeze"])
     \/ at[w].next = "closed" /\ With(w, [d EXCEPT !.pc = "find", !.k = @ + 1, !.pred = r, !.last = TRUE])
  /\ UNCHANGED <<stored, app, collides, exchanges, faults>>

\* The catch of recoverPreparation.
Failed(w) ==
  LET r == row[at[w].whence] IN
  /\ at[w].pc = "failed"
  /\ IF r.state \in {"draft", "reserved", "closed"}
     THEN With(w, [at[w] EXCEPT !.pc = "tried", !.seen = r]) ELSE Ends(w)
  /\ UNCHANGED <<stored, app, collides, exchanges, faults>>

-----------------------------------------------------------------------------
\* A statement fails; an update's may have had its effect.
StatementFails(w) ==
  /\ at[w].pc \notin Asking \cup {"idle", "context"} /\ Fault
  /\ \/ UNCHANGED stored
     \/ at[w].pc \in Updating /\ Updates(w) /\ Written(w)
     \/ /\ at[w].pc = "create" /\ row[at[w].k].state = "absent"
        /\ row' = [row EXCEPT ![at[w].k].state = "draft"] /\ UNCHANGED event
  /\ IF at[w].pc \in {"failed", "tried"} THEN Ends(w) ELSE Throws(w)
  /\ UNCHANGED <<app, collides, exchanges>>

Crash(w) ==
  /\ at[w].pc # "idle" /\ Fault /\ Ends(w)
  /\ UNCHANGED <<stored, app, collides, exchanges>>

\* The authority consumes a release of a prepared row (AttendanceDispatch).
Consume(k) ==
  /\ row[k].state = "prepared"
  /\ row' = [row EXCEPT ![k].state = "later", ![k].rev = @ + 1]
  /\ UNCHANGED <<event, app, collides, at, exchanges, faults>>

Work(w) ==
  \/ Begin(w) \/ Find(w) \/ Context(w) \/ Create(w) \/ Ask(w)
  \/ Update(w) \/ AfterUpdate(w) \/ Failed(w)

Next ==
  \/ \E w \in Workers :
       \/ Exchange(w) \/ Work(w) \/ AskFails(w) \/ StatementFails(w) \/ Crash(w)
       \/ \E k \in Rows : Recover(w, k)
  \/ \E k \in Rows : Consume(k)

Spec == Init /\ [][Next]_vars

\* The timer finds each row whose time came; requests are answered or time out.
FairSpec ==
  /\ Spec /\ \A w \in Workers : WF_vars(Work(w))
  /\ \A k \in Rows : SF_vars(\E w \in Workers : Recover(w, k))

-----------------------------------------------------------------------------
Frozen(k) == row[k].state \in {"prepared", "later"}

\* A preparation is frozen once, in one piece with its event, and only where the
\* APP holds its reservation, though a worker may go on with a row another one
\* froze or the authority consumed between an update and the read after it.
FrozenWithReservation ==
  \A k \in Rows :
    /\ Frozen(k) <=> event[k] # NoStamp
    /\ Frozen(k) => row[k].frozen = event[k] /\ row[k].reservation /\ app[k] = "reserved"

\* "An HTTP conflict never itself licenses candidate substitution"
\* (nexi-attendance.cjs:1232): a candidate is given up only after the APP fenced
\* it for good, and a replacement exists only for such a one, so that the APP
\* never holds two candidates of one unit.
OneCandidate ==
  /\ \A k \in Rows : row[k].state = "closed" => app[k] = "fenced"
  /\ \A k \in Rows \ {1} : row[k].state # "absent" => row[k - 1].state = "closed"
  /\ \A j, k \in Rows : app[j] = "reserved" /\ app[k] = "reserved" => j = k

\* What preparationReadback demands of the chain it follows, and would refuse to
\* answer without: a noted successor exists, of a row closed without reservation.
SuccessorProved ==
  \A k \in Rows : row[k].successor =>
    /\ row[k].state = "closed" /\ ~ row[k].reservation
    /\ k < MaxRows /\ row[k + 1].state # "absent"

\* The three of them, and the types of the state.
PreparationInv == TypeOK /\ FrozenWithReservation /\ OneCandidate /\ SuccessorProved

\* Nothing the APP reserved is forgotten, whatever answer or worker was lost.
ReservationFound == \A k \in Rows : app[k] = "reserved" ~> Frozen(k)

\* A drafted unit is prepared in the end, by way of its replacements.
PreparationEnds == row[1].state # "absent" ~> \E k \in Rows : Frozen(k)
=============================================================================
