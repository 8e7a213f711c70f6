------------------------- MODULE AttendanceDispatch --------------------------
(***************************************************************************)
(* The authority route for one prepared attendance message                 *)
(* (nexi-attendance-authority.cjs, nexi-attendance-dispatch.cjs, the       *)
(* socket gate of nexi-attendance.cjs and the database trigger).  Several  *)
(* requests, at several processes, consume the released authority, look    *)
(* whether it expired, and send: the gate on the socket asks the APP for   *)
(* its context, fences the socket in the database, locks the row and       *)
(* commits dispatch_started before the message is written.  Sockets are    *)
(* replaced, contexts refreshed, transactions rolled back, commit replies  *)
(* lost and processes killed in between.                                   *)
(***************************************************************************)
EXTENDS Naturals

CONSTANTS
  Requests,     \* HTTP requests to the authority route
  Materials,    \* signed pairs of a grant and a release, for this row
  Physical,     \* the materials whose grant allows physical dispatch
  Deadline,     \* Deadline[m]: release.deadline, never after the grant's
  MaterialOf,   \* MaterialOf[r]
  Readbacks,    \* requests whose action is consumption_readback
  Procs,        \* Evolution processes
  At,           \* At[r]: the process that serves r
  Sockets,      \* sockets (and their owner tokens), of the row's session
  Home,         \* Home[s]: the process that creates s
  NoMaterial, NoSocket, NoRequest,
  MaxNow,       \* bound on the clock
  MaxRefresh    \* bound on the context requests for a socket, after which others make none

ASSUME DispatchConstants ==
  /\ Physical \subseteq Materials /\ Readbacks \subseteq Requests
  /\ Deadline \in [Materials -> Nat]
  /\ MaterialOf \in [Requests -> Materials]
  /\ At \in [Requests -> Procs] /\ Home \in [Sockets -> Procs]
  /\ NoMaterial \notin Materials
  /\ NoSocket \notin Sockets /\ NoRequest \notin Requests
  /\ MaxNow \in Nat /\ MaxRefresh \in Nat

VARIABLES
  now,              \* one clock for hosts and database
  row,              \* the NexiAttendancePreparation row
  lockRow,          \* the transaction that holds the row FOR UPDATE
  lockInstance,     \* the transaction that updated the Instance row
  dbOwner,          \* Instance.nexiGroupsSocketOwner
  client,           \* client[p]: the current socket of p's service
  pending,          \* pending[p]: registered in the database, not published
  used,             \* sockets registered so far
  contextRevision,  \* contextRevision[s]: context requests made for s
  pc,               \* where each request is
  began,            \* when its transaction began
  seen,             \* the row revision it read
  sender,           \* the socket its sendMessage runs on
  own,              \* the lifecycle owner its dispatchStart captured
  revision,         \* the context revision of that capture
  answer,           \* what the APP was told
  writes            \* messages written to WhatsApp

database == <<row, lockRow, lockInstance, dbOwner>>
sockets  == <<client, pending, used>>
request  == <<began, seen, sender, own, revision>>
vars     == <<now, database, sockets, contextRevision, pc, request, answer, writes>>

RowStates == {"prepared", "dispatch_ready_but_disabled", "dispatch_started",
              "transport_returned", "outcome_unknown"}
Rows == [state: RowStates, consumption: Materials \cup {NoMaterial}, revision: Nat]

\* dispatchStartedAt is set.
Started(r) == r.state \in {"dispatch_started", "transport_returned", "outcome_unknown"}

\* Stages in which the transport call is under way, inside dispatch's try.
Sending == {"released", "sending", "context", "fencing", "locking", "starting",
            "committing", "started", "permitted", "sent"}
Stages == Sending \cup
  {"idle", "consuming", "claiming", "consumed", "expiry", "content", "failed",
   "noting_ok", "noting_error", "done", "answered", "crashed"}

TypeOK ==
  /\ now \in Nat
  /\ row \in Rows
  /\ lockRow \in Requests \cup {NoRequest}
  /\ lockInstance \in Requests \cup {NoRequest}
  /\ dbOwner \in Sockets
  /\ client \in [Procs -> Sockets \cup {NoSocket}]
  /\ pending \in [Procs -> Sockets \cup {NoSocket}]
  /\ used \in SUBSET Sockets
  /\ contextRevision \in [Sockets -> Nat]
  /\ pc \in [Requests -> Stages]
  /\ began \in [Requests -> Nat] /\ seen \in [Requests -> Nat]
  /\ sender \in [Requests -> Sockets \cup {NoSocket}]
  /\ own \in [Requests -> Sockets \cup {NoSocket}]
  /\ revision \in [Requests -> Nat]
  /\ answer \in [Requests -> {"none", "failed", "conflict", "unresolved",
                              "expired", "consumed", "started"}]
  /\ writes \in Nat

Init ==
  /\ now = 0
  /\ row = [state |-> "prepared", consumption |-> NoMaterial, revision |-> 0]
  /\ lockRow = NoRequest /\ lockInstance = NoRequest
  /\ dbOwner \in Sockets
  /\ client = [p \in Procs |-> IF p = Home[dbOwner] THEN dbOwner ELSE NoSocket]
  /\ pending = [p \in Procs |-> NoSocket]
  /\ used = {dbOwner}
  /\ contextRevision = [s \in Sockets |-> 0]
  /\ pc = [r \in Requests |-> "idle"]
  /\ began = [r \in Requests |-> 0] /\ seen = [r \in Requests |-> 0]
  /\ sender = [r \in Requests |-> NoSocket]
  /\ own = [r \in Requests |-> NoSocket]
  /\ revision = [r \in Requests |-> 0]
  /\ answer = [r \in Requests |-> "none"]
  /\ writes = 0

GoTo(r, stage) ==
  /\ pc' = [pc EXCEPT ![r] = stage]
  /\ UNCHANGED answer

Answer(r, a) ==
  /\ pc' = [pc EXCEPT ![r] = "answered"]
  /\ answer' = [answer EXCEPT ![r] = a]

\* A rollback, a commit or a dead connection gives up what r has locked.
ReleaseLocks(r) ==
  /\ lockRow' = IF lockRow = r THEN NoRequest ELSE lockRow
  /\ lockInstance' = IF lockInstance = r THEN NoRequest ELSE lockInstance

\* The transaction that the next statement of r has to wait for: it updates or
\* locks the row, or updates the Instance row.
WaitsFor(r) ==
  IF pc[r] \in {"claiming", "expiry", "locking", "noting_ok", "noting_error"}
  THEN lockRow
  ELSE IF pc[r] = "fencing" THEN lockInstance ELSE NoRequest

\* r was received, and neither answered nor killed.
UnderWay(r) == pc[r] \notin {"idle", "answered", "crashed"}

\* The times r's transaction may take CURRENT_TIMESTAMP for: when it began
\* (PostgreSQL), or when the statement runs (MySQL).
Clock(r) == {began[r], now}

\* lifecycleCurrent of the owner that r captured.
Current(r) == own[r] # NoSocket /\ client[At[r]] = own[r]

-----------------------------------------------------------------------------
\* claims accepts the request and consumption opens its transaction.
Receive(r) ==
  /\ pc[r] = "idle"
  /\ GoTo(r, "consuming")
  /\ began' = [began EXCEPT ![r] = now]
  /\ UNCHANGED <<now, database, sockets, contextRevision, seen, sender, own,
                 revision, writes>>

\* What-if variant: every released material is taken for dispatchable.
ObservedDispatchable(r, rw) ==
  IF Started(rw) THEN Answer(r, "started") ELSE GoTo(r, "consumed")

\* What the route makes of a row consumed by r's own material.
Observed(r, rw) ==
  IF Started(rw) THEN Answer(r, "started")
  ELSE IF MaterialOf[r] \in Physical THEN GoTo(r, "consumed")
  ELSE Answer(r, "consumed")

\* What-if variant: a replay is not compared with what was consumed.
ReplayUnchecked(r, rw) == Observed(r, rw)

\* replay: the row was consumed, by this very material or not.
Replay(r, rw) ==
  IF rw.consumption = MaterialOf[r] THEN Observed(r, rw) ELSE Answer(r, "conflict")

\* consumption's read of the row, and its checks.
ConsumeRead(r) ==
  LET m == MaterialOf[r] IN
  /\ pc[r] = "consuming"
  /\ \/ row.consumption # NoMaterial /\ Replay(r, row) /\ UNCHANGED seen
     \/ /\ row.consumption = NoMaterial /\ r \in Readbacks
        /\ Answer(r, "unresolved") /\ UNCHANGED seen
     \/ /\ row.consumption = NoMaterial /\ r \notin Readbacks
        /\ \E t \in Clock(r) :
             IF t < Deadline[m] /\ client[At[r]] # NoSocket
             THEN GoTo(r, "claiming") /\ seen' = [seen EXCEPT ![r] = row.revision]
             ELSE Answer(r, "failed") /\ UNCHANGED seen
  /\ UNCHANGED <<now, database, sockets, contextRevision, began, sender, own,
                 revision, writes>>

\* consumption's guarded update and its commit; the loser of a race replays.
\* The trigger compares the deadline with its own clock.  'heard' is FALSE
\* when the commit happened but its reply is lost.
ConsumeWrite(r, heard) ==
  LET m == MaterialOf[r]
      consumed == [state |-> "dispatch_ready_but_disabled", consumption |-> m,
                   revision |-> row.revision + 1]
  IN
  /\ pc[r] = "claiming" /\ WaitsFor(r) = NoRequest
  /\ IF row.revision = seen[r] /\ row.consumption = NoMaterial
     THEN IF now < Deadline[m]
          THEN /\ row' = consumed
               /\ IF heard THEN Observed(r, consumed) ELSE Answer(r, "failed")
          ELSE Answer(r, "failed") /\ UNCHANGED row
     ELSE Replay(r, row) /\ UNCHANGED row
  /\ UNCHANGED <<now, lockRow, lockInstance, dbOwner, sockets, contextRevision,
                 request, writes>>

-----------------------------------------------------------------------------
\* dispatch's own read of the row; expiryReadback then opens a transaction.
DispatchRead(r) ==
  /\ pc[r] = "consumed"
  /\ IF Started(row) THEN Answer(r, "started") ELSE GoTo(r, "expiry")
  /\ began' = [began EXCEPT ![r] = now]
  /\ UNCHANGED <<now, database, sockets, contextRevision, seen, sender, own,
                 revision, writes>>

\* What-if variant: the row is read without waiting for its lock.
ExpiryReadbackUnlocked(r) ==
  /\ pc[r] = "expiry"
  /\ IF Started(row) THEN Answer(r, "started")
     ELSE \E t \in Clock(r) :
            IF t >= Deadline[MaterialOf[r]] THEN Answer(r, "expired")
            ELSE GoTo(r, "content")
  /\ UNCHANGED <<now, database, sockets, contextRevision, request, writes>>

\* expiryReadback, under the row lock.
ExpiryReadback(r) ==
  /\ pc[r] = "expiry" /\ WaitsFor(r) = NoRequest
  /\ IF Started(row) THEN Answer(r, "started")
     ELSE \E t \in Clock(r) :
            IF t >= Deadline[MaterialOf[r]] THEN Answer(r, "expired")
            ELSE GoTo(r, "content")
  /\ UNCHANGED <<now, database, sockets, contextRevision, request, writes>>

\* content: the text is at hand, or the media came from the APP intact.
Content(r) ==
  /\ pc[r] = "content"
  /\ GoTo(r, "released")
  /\ UNCHANGED <<now, database, sockets, contextRevision, request, writes>>

\* releasedGrantCapability, and sendMessage on the client of the moment.
ReleasedGrantCapability(r) ==
  /\ pc[r] = "released"
  /\ IF row.state = "dispatch_ready_but_disabled" /\ client[At[r]] # NoSocket
     THEN /\ GoTo(r, "sending")
          /\ sender' = [sender EXCEPT ![r] = client[At[r]]]
     ELSE GoTo(r, "failed") /\ UNCHANGED sender
  /\ UNCHANGED <<now, database, sockets, contextRevision, began, seen, own,
                 revision, writes>>

\* assertNode: dispatchStart captures the lifecycle owner of the service and
\* asks the APP for the context of that socket.
AssertNode(r) ==
  LET s == client[At[r]] IN
  /\ pc[r] = "sending"
  /\ IF s # NoSocket
     THEN /\ GoTo(r, "context")
          /\ own' = [own EXCEPT ![r] = s]
          /\ contextRevision' = [contextRevision EXCEPT ![s] = @ + 1]
          /\ revision' = [revision EXCEPT ![r] = contextRevision[s] + 1]
     ELSE GoTo(r, "failed") /\ UNCHANGED <<own, contextRevision, revision>>
  /\ UNCHANGED <<now, database, sockets, began, seen, sender, writes>>

\* The context arrived; dispatchStart opens its transaction.
ContextReply(r) ==
  /\ pc[r] = "context"
  /\ GoTo(r, IF Current(r) THEN "fencing" ELSE "failed")
  /\ began' = [began EXCEPT ![r] = now]
  /\ UNCHANGED <<now, database, sockets, contextRevision, seen, sender, own,
                 revision, writes>>

\* What-if variant: the owner token is compared, but not locked.
LockSocketBriefly(r) ==
  /\ pc[r] = "fencing" /\ WaitsFor(r) = NoRequest
  /\ GoTo(r, IF dbOwner = own[r] /\ Current(r) THEN "locking" ELSE "failed")
  /\ UNCHANGED <<now, database, sockets, contextRevision, request, writes>>

\* The update of the Instance row that only the registered owner can make; it
\* holds off every other registration until this transaction ends.
LockSocket(r) ==
  /\ pc[r] = "fencing" /\ WaitsFor(r) = NoRequest
  /\ IF dbOwner = own[r] /\ Current(r)
     THEN GoTo(r, "locking") /\ lockInstance' = r
     ELSE GoTo(r, "failed") /\ UNCHANGED lockInstance
  /\ UNCHANGED <<now, row, lockRow, dbOwner, sockets, contextRevision, request,
                 writes>>

\* What-if variant: a replay of a committed start is let through.
LockRowOfReplay(r) ==
  /\ pc[r] = "locking" /\ WaitsFor(r) = NoRequest
  /\ \E t \in Clock(r) :
       IF Started(row) THEN GoTo(r, "started") /\ ReleaseLocks(r)
       ELSE IF t < Deadline[MaterialOf[r]] /\ Current(r)
               /\ revision[r] = contextRevision[own[r]]
       THEN GoTo(r, "starting") /\ lockRow' = r /\ UNCHANGED lockInstance
       ELSE GoTo(r, "failed") /\ ReleaseLocks(r)
  /\ seen' = [seen EXCEPT ![r] = row.revision]
  /\ UNCHANGED <<now, row, dbOwner, sockets, contextRevision, began, sender, own,
                 revision, writes>>

\* The row lock, the read under it and every check that precedes the update:
\* not yet started, ready, in time, still the owner, and the capture context
\* installed is the one requested last (installCaptureContext).
LockRow(r) ==
  /\ pc[r] = "locking" /\ WaitsFor(r) = NoRequest
  /\ \E t \in Clock(r) :
       IF /\ row.state = "dispatch_ready_but_disabled"
          /\ row.consumption = MaterialOf[r]
          /\ t < Deadline[MaterialOf[r]]
          /\ Current(r) /\ revision[r] = contextRevision[own[r]]
       THEN GoTo(r, "starting") /\ lockRow' = r /\ UNCHANGED lockInstance
       ELSE GoTo(r, "failed") /\ ReleaseLocks(r)
  /\ seen' = [seen EXCEPT ![r] = row.revision]
  /\ UNCHANGED <<now, row, dbOwner, sockets, contextRevision, began, sender, own,
                 revision, writes>>

\* What-if variants: the trigger does not look at the clock; its exception
\* leaves the transaction open.
StartUpdateLate(r) ==
  /\ pc[r] = "starting"
  /\ GoTo(r, "committing")
  /\ UNCHANGED <<now, database, sockets, contextRevision, request, writes>>

StartUpdateLeaking(r) ==
  /\ pc[r] = "starting"
  /\ GoTo(r, IF now < Deadline[MaterialOf[r]] THEN "committing" ELSE "failed")
  /\ UNCHANGED <<now, database, sockets, contextRevision, request, writes>>

\* The update to dispatch_started, not yet visible to others; the trigger
\* rejects it from the deadline on.
StartUpdate(r) ==
  /\ pc[r] = "starting"
  /\ IF now < Deadline[MaterialOf[r]] /\ row.revision = seen[r]
     THEN GoTo(r, "committing") /\ UNCHANGED <<lockRow, lockInstance>>
     ELSE GoTo(r, "failed") /\ ReleaseLocks(r)
  /\ UNCHANGED <<now, row, dbOwner, sockets, contextRevision, request, writes>>

\* The commit.  Without its reply dispatchStart throws, and nothing is sent.
StartCommit(r, heard) ==
  /\ pc[r] = "committing"
  /\ row' = [row EXCEPT !.state = "dispatch_started", !.revision = @ + 1]
  /\ GoTo(r, IF heard THEN "started" ELSE "failed")
  /\ ReleaseLocks(r)
  /\ UNCHANGED <<now, dbOwner, sockets, contextRevision, request, writes>>

\* captureContextCurrent(snapshot, true): neither the socket nor the context
\* was replaced while the transaction ran.
CaptureContextCurrent(r) ==
  /\ pc[r] = "started"
  /\ GoTo(r, IF Current(r) /\ revision[r] = contextRevision[own[r]]
             THEN "permitted" ELSE "failed")
  /\ UNCHANGED <<now, database, sockets, contextRevision, request, writes>>

\* sendNode hands the stanza to the socket that sendMessage runs on.  That
\* socket may have been replaced, and closed: then the write Fails.
WriteWire(r) ==
  /\ pc[r] = "permitted"
  /\ GoTo(r, "sent")
  /\ writes' = writes + 1
  /\ UNCHANGED <<now, database, sockets, contextRevision, request>>

-----------------------------------------------------------------------------
\* What-if variant: an error counts as a return.
NoteReadSwapped(r) ==
  /\ pc[r] \in {"sent", "failed"}
  /\ IF ~ Started(row) THEN Answer(r, "failed") /\ UNCHANGED seen
     ELSE IF row.state # "dispatch_started" THEN GoTo(r, "done") /\ UNCHANGED seen
     ELSE GoTo(r, "noting_ok") /\ seen' = [seen EXCEPT ![r] = row.revision]
  /\ UNCHANGED <<now, database, sockets, contextRevision, began, sender, own,
                 revision, writes>>

\* dispatch looks whether the start was made durable, after sendMessage
\* returned and after it threw; transportReturned reads the row.
NoteRead(r) ==
  /\ pc[r] \in {"sent", "failed"}
  /\ IF ~ Started(row) THEN Answer(r, "failed") /\ UNCHANGED seen
     ELSE IF row.state # "dispatch_started" THEN GoTo(r, "done") /\ UNCHANGED seen
     ELSE /\ GoTo(r, IF pc[r] = "sent" THEN "noting_ok" ELSE "noting_error")
          /\ seen' = [seen EXCEPT ![r] = row.revision]
  /\ UNCHANGED <<now, database, sockets, contextRevision, began, sender, own,
                 revision, writes>>

\* transportReturned's guarded update; the first return on record stays.
NoteWrite(r, heard) ==
  LET ok == pc[r] = "noting_ok" IN
  /\ pc[r] \in {"noting_ok", "noting_error"} /\ WaitsFor(r) = NoRequest
  /\ row' = IF row.revision = seen[r] /\ row.state = "dispatch_started"
            THEN [row EXCEPT !.revision = @ + 1,
                    !.state = IF ok THEN "transport_returned" ELSE "outcome_unknown"]
            ELSE row
  /\ IF heard THEN GoTo(r, "done")
     ELSE IF ok THEN GoTo(r, "failed") ELSE Answer(r, "failed")
  /\ UNCHANGED <<now, lockRow, lockInstance, dbOwner, sockets, contextRevision,
                 request, writes>>

\* The final read of the row, and the answer built from it.
Done(r) ==
  /\ pc[r] = "done"
  /\ Answer(r, "started")
  /\ UNCHANGED <<now, database, sockets, contextRevision, request, writes>>

-----------------------------------------------------------------------------
\* Anything r awaits may fail: a check this model leaves out, the database, a
\* transaction's time limit, the APP, the media, the socket.  An open
\* transaction is rolled back.  Inside dispatch's try the row is looked at
\* again; elsewhere the route answers that the outcome is unresolved.
Fails(r) ==
  /\ UnderWay(r)
  /\ IF pc[r] \in Sending \cup {"noting_ok"} THEN GoTo(r, "failed")
     ELSE Answer(r, "failed")
  /\ ReleaseLocks(r)
  /\ UNCHANGED <<now, row, dbOwner, sockets, contextRevision, request, writes>>

\* The process that serves r dies, or only the request is lost with it.
Crash(r) ==
  /\ UnderWay(r)
  /\ GoTo(r, "crashed")
  /\ ReleaseLocks(r)
  /\ UNCHANGED <<now, row, dbOwner, sockets, contextRevision, request, writes>>

\* installAdmissionSocket registers a new socket's token in the database, if
\* the one before it is still registered, and publishes it after the await.
Register(p, s) ==
  /\ pending[p] = NoSocket /\ s \notin used /\ Home[s] = p
  /\ client[p] \in {NoSocket, dbOwner}
  /\ lockInstance = NoRequest
  /\ dbOwner' = s
  /\ pending' = [pending EXCEPT ![p] = s]
  /\ used' = used \cup {s}
  /\ UNCHANGED <<now, row, lockRow, lockInstance, client, contextRevision, pc,
                 request, answer, writes>>

Publish(p) ==
  /\ pending[p] # NoSocket
  /\ client' = [client EXCEPT ![p] = pending[p]]
  /\ pending' = [pending EXCEPT ![p] = NoSocket]
  /\ UNCHANGED <<now, database, used, contextRevision, pc, request, answer, writes>>

\* A manual stop, a retirement or another session's credentials: the socket
\* is no longer current for anything.
Stop(p) ==
  /\ client[p] # NoSocket
  /\ client' = [client EXCEPT ![p] = NoSocket]
  /\ UNCHANGED <<now, database, pending, used, contextRevision, pc, request,
                 answer, writes>>

\* Someone else asks for a newer context of socket s, which is in use.
RefreshContext(s) ==
  /\ \E p \in Procs : client[p] = s
  /\ \A t \in Sockets : contextRevision[t] < MaxRefresh
  /\ contextRevision' = [contextRevision EXCEPT ![s] = @ + 1]
  /\ UNCHANGED <<now, database, sockets, pc, request, answer, writes>>

Tick ==
  /\ now < MaxNow
  /\ now' = now + 1
  /\ UNCHANGED <<database, sockets, contextRevision, pc, request, answer, writes>>

-----------------------------------------------------------------------------
\* The continuations of an accepted request, database and APP answering.
Progress(r) ==
  \/ ConsumeRead(r) \/ ConsumeWrite(r, TRUE) \/ DispatchRead(r)
  \/ ExpiryReadback(r) \/ Content(r) \/ ReleasedGrantCapability(r)
  \/ AssertNode(r) \/ ContextReply(r) \/ LockSocket(r) \/ LockRow(r)
  \/ StartUpdate(r) \/ StartCommit(r, TRUE) \/ CaptureContextCurrent(r)
  \/ WriteWire(r) \/ NoteRead(r) \/ NoteWrite(r, TRUE) \/ Done(r)

Disturb(r) ==
  \/ Receive(r) \/ ConsumeWrite(r, FALSE) \/ StartCommit(r, FALSE)
  \/ NoteWrite(r, FALSE) \/ Fails(r) \/ Crash(r)

Surroundings ==
  \/ Tick
  \/ \E p \in Procs : Publish(p) \/ Stop(p) \/ \E s \in Sockets : Register(p, s)
  \/ \E s \in Sockets : RefreshContext(s)

Next == Surroundings \/ \E r \in Requests : Progress(r) \/ Disturb(r)

Spec == Init /\ [][Next]_vars

-----------------------------------------------------------------------------
\* The message of a preparation is written at most once, by whatever number of
\* requests, retries and processes (README: replays never repeat a committed
\* CAS).
AtMostOnce == writes <= 1

\* Once the APP has been told release_expired_before_dispatch, the dispatch
\* never starts, not even by a transaction whose checks had passed before.
ExpiredNeverStarts == (\E r \in Requests : answer[r] = "expired") => ~ Started(row)

\* Every written message was made crash-evident before: the row says that the
\* outcome is unknown, under a material that allows physical dispatch.
WriteIsEvident ==
  /\ writes > 0 => Started(row)
  /\ Started(row) => row.consumption \in Physical

\* A successful transport return on the row stands for a written message.
ReturnIsEvidence == row.state = "transport_returned" => writes = 1

\* Whoever was told of a consumption or of a start was told of its own
\* material's, also when two requests raced with different ones.
ToldOfOwnMaterial ==
  \A r \in Requests :
    /\ answer[r] \in {"consumed", "started", "expired"} =>
         row.consumption = MaterialOf[r]
    /\ answer[r] = "started" => Started(row)

\* A dispatch is only started for the socket that the database names as the
\* owner at that very moment: a process whose socket was replaced elsewhere
\* starts nothing, however long it had waited.
OnlyOwnerStarts ==
  [][~ Started(row) /\ Started(row') =>
       \E r \in Requests : pc[r] = "committing" /\ own[r] = dbOwner]_row

\* A comment of dispatchStart: "The same socket/authority used by the
\* transport must be installed in capture before its one-way dispatch CAS."
\* Here: when the start is committed, the socket captured is the one on which
\* sendMessage runs.
StartedOnTransportSocket ==
  [][~ Started(row) /\ Started(row') =>
       \E r \in Requests : pc[r] = "committing" /\ sender[r] = own[r]]_row

\* Two requests never wait for each other's locks, and none ends with a lock
\* (Instance and the preparation are locked in this order, and a transaction
\* that fails or dies lets go of both): whoever holds a lock is under way, and
\* whoever waits, waits for one that waits for nobody.
NoDeadlock ==
  /\ \A q \in {lockRow, lockInstance} \ {NoRequest} : UnderWay(q)
  /\ \A r \in Requests :
       WaitsFor(r) # NoRequest => WaitsFor(WaitsFor(r)) = NoRequest

-----------------------------------------------------------------------------
\* The inductive invariant.

\* Stages that lie behind the consumption of r's own, dispatchable material.
Working == Sending \cup
  {"consumed", "expiry", "content", "failed", "noting_ok", "noting_error", "done"}

\* The row by itself, and against what was written.
RowSound ==
  /\ row.state = "prepared" <=> row.consumption = NoMaterial
  /\ Started(row) => row.consumption \in Physical
  /\ writes > 0 => Started(row)
  /\ writes <= 1
  /\ row.state = "transport_returned" => writes = 1

\* What the stage of one request says about the row, its locks and the owner.
RequestSound(r) ==
  /\ began[r] <= now
  /\ pc[r] # "answered" => answer[r] = "none"
  /\ pc[r] \in Working =>
       row.consumption = MaterialOf[r] /\ MaterialOf[r] \in Physical
  /\ lockInstance = r <=> pc[r] \in {"locking", "starting", "committing"}
  /\ lockRow = r <=> pc[r] \in {"starting", "committing"}
  /\ lockInstance = r => own[r] = dbOwner
  /\ lockRow = r => row.state = "dispatch_ready_but_disabled"
  /\ pc[r] \in {"started", "permitted", "sent", "noting_ok", "noting_error", "done"} =>
       Started(row)
  /\ pc[r] \in {"started", "permitted"} => writes = 0
  /\ pc[r] \in {"sent", "noting_ok"} => writes = 1

\* What an answer says about the row, for good.
AnswerSound(r) ==
  /\ answer[r] \in {"consumed", "started", "expired"} =>
       row.consumption = MaterialOf[r]
  /\ answer[r] = "started" => Started(row)
  /\ answer[r] = "expired" => ~ Started(row) /\ now >= Deadline[MaterialOf[r]]

\* Two requests: one of them sends; none starts once one was told of expiry.
PairSound(q, r) ==
  /\ q # r => ~ (/\ pc[q] \in {"started", "permitted"}
                 /\ pc[r] \in {"started", "permitted"})
  /\ answer[q] = "expired" => pc[r] # "committing"

IndInv ==
  /\ TypeOK /\ RowSound
  /\ \A r \in Requests : RequestSound(r) /\ AnswerSound(r)
  /\ \A q, r \in Requests : PairSound(q, r)

-----------------------------------------------------------------------------
\* The row and its transactions keep what the preparation promises.
Promise == INSTANCE ReleasePromise WITH
  consumed <- row.consumption,
  started  <- Started(row),
  expired  <- (\E r \in Requests : answer[r] = "expired"),
  evidence <- (IF row.state = "transport_returned" THEN "succeeded"
               ELSE IF row.state = "outcome_unknown" THEN "failed" ELSE "none")

KeepsPromise == Promise!PromiseSpec
=============================================================================
