---------------------------- MODULE GroupsLifecycle ----------------------------
(***************************************************************************)
(* Who owns the WhatsApp socket of a managed instance (nexi-groups.cjs and *)
(* the calls patch-groups-source.mjs puts into the Baileys service).  The  *)
(* Instance row names the registered socket by its token; every process    *)
(* keeps an owner record, an in-memory handle on that token.  Connecting,  *)
(* recovering from a suspension, stopping by hand and reporting a status   *)
(* are asynchronous tasks of one service that overlap with each other and  *)
(* with other processes, and any statement may fail or lose its reply.     *)
(***************************************************************************)
EXTENDS Naturals, FiniteSets

CONSTANTS
  Procs,       \* processes that load the instance
  Tokens,      \* random UUIDs
  NoToken,     \* a null nexiGroupsSocketOwner
  Placeholder, \* the Symbol() of an owner record that has no socket
  NoProc,
  Elsewhere,   \* processes of which only their registrations are looked at
  MaxStops,    \* bound on manual stops, per owner record and in all
  MaxFaults    \* bound on crashes, failures, lost replies and claims elsewhere

ASSUME LifecycleConstants ==
  /\ NoToken \notin Tokens /\ Placeholder \notin Tokens \cup {NoToken} /\ {NoProc, Elsewhere} \cap Procs = {}
  /\ NoProc # Elsewhere
  /\ MaxStops \in Nat /\ MaxFaults \in Nat

VARIABLES
  db,       \* the Instance row: who is registered, its status, why it closed
  lock,     \* the process whose status transaction locked the row
  by,       \* by[t]: the process that made the token t
  own,      \* own[p]: the owner record of the service of p
  live,     \* live[p]: the socket of that owner is open
  conn,     \* the connect task of p, one at a time (connecting)
  man,      \* the manual cleanup of p, one at a time (owner.cleanup)
  rec,      \* the recording of a suspension by p
  heal,     \* the recovery of p (recoverAdmission)
  up,       \* whether p runs, and the row it read on its start
  stopped,  \* processes stopped by hand, with success, and not reconnected since
  stops, faults

tasks == <<conn, man, rec, heal>>
vars  == <<db, lock, by, own, live, tasks, up, stopped, stops, faults>>

Owned   == Tokens \cup {NoToken}
Ids     == Owned \cup {Placeholder}
Rows    == [owner: Owned, status: {"open", "connecting", "close"},
            why: {"none", "suspended", "manual"}]

Owners  == [id: Ids, tok: Owned, pending: SUBSET Tokens, suspended: BOOLEAN,
            manual: BOOLEAN, retired: BOOLEAN, deleting: BOOLEAN, ready: BOOLEAN,
            recovering: BOOLEAN, epoch: 0 .. MaxStops, timer: BOOLEAN]

\* lifecycleCapture: the owner as it was, and whether a stopped one is allowed.
Contexts == [id: Ids, tok: Owned, epoch: 0 .. MaxStops, stopped: BOOLEAN]

NoOwner == [id |-> NoToken, tok |-> NoToken, pending |-> {}, suspended |-> FALSE,
            manual |-> FALSE, retired |-> FALSE, deleting |-> FALSE, ready |-> FALSE,
            recovering |-> FALSE, epoch |-> 0, timer |-> FALSE]
NoContext == [id |-> NoToken, tok |-> NoToken, epoch |-> 0, stopped |-> FALSE]

\* behind: the task awaits the cleanup that was under way when it was made.
Connects == [pc: {"idle", "start", "broken", "probe", "probed", "read", "join", "claim", "won",
                  "lost", "refund"},
             ctx: Contexts, back: Contexts, seen: Owned, new: Owned, startup: BOOLEAN,
             behind: BOOLEAN]
NoConnect == [pc |-> "idle", ctx |-> NoContext, back |-> NoContext, seen |-> NoToken,
              new |-> NoToken, startup |-> FALSE, behind |-> FALSE]

Stops  == [pc: {"idle", "adopt", "wait", "read", "decide", "restore", "clean"},
           ctx: Contexts, seen: Owned, tries: 0 .. 2, remove: BOOLEAN]
NoStop == [pc |-> "idle", ctx |-> NoContext, seen |-> NoToken, tries |-> 0, remove |-> FALSE]

Heals  == [pc: {"idle", "probe", "probed", "joined", "over", "failed"}, id: Ids, seen: Owned]
NoHeal == [pc |-> "idle", id |-> NoToken, seen |-> NoToken]

TypeOK ==
  /\ db \in Rows /\ lock \in Procs \cup {NoProc} /\ by \in [Tokens -> Procs \cup {NoProc, Elsewhere}]
  /\ own \in [Procs -> Owners] /\ live \in [Procs -> BOOLEAN]
  /\ conn \in [Procs -> Connects] /\ man \in [Procs -> Stops]
  /\ rec \in [Procs -> [pc: {"idle", "begin", "write"}, id: Ids]]
  /\ heal \in [Procs -> Heals]
  /\ up \in [Procs -> [pc: {"down", "listed", "up"}, row: Rows]]
  /\ stopped \subseteq Procs /\ stops \in 0 .. MaxStops /\ faults \in 0 .. MaxFaults

Unregistered == [owner |-> NoToken, status |-> "close", why |-> "none"]

Init ==
  /\ db = Unregistered /\ lock = NoProc /\ by = [t \in Tokens |-> NoProc]
  /\ own = [p \in Procs |-> NoOwner] /\ live = [p \in Procs |-> FALSE]
  /\ conn = [p \in Procs |-> NoConnect] /\ man = [p \in Procs |-> NoStop]
  /\ rec = [p \in Procs |-> [pc |-> "idle", id |-> NoToken]]
  /\ heal = [p \in Procs |-> NoHeal]
  /\ up = [p \in Procs |-> [pc |-> "down", row |-> Unregistered]]
  /\ stopped = {} /\ stops = 0 /\ faults = 0

Capture(p, allowStopped) ==
  [id |-> own[p].id, tok |-> own[p].tok, epoch |-> own[p].epoch, stopped |-> allowStopped]

LifecycleCurrent(p, c) ==
  /\ own[p].id = c.id /\ own[p].tok = c.tok /\ ~ own[p].retired
  /\ c.stopped \/ ~ (own[p].manual \/ own[p].deleting)

\* What-if variant: connectCheck without the epoch that a manual stop advances.
ConnectCheckEpochless(p, c) == LifecycleCurrent(p, c) /\ ~ own[p].deleting

ConnectCheck(p, c) ==
  LifecycleCurrent(p, c) /\ ~ own[p].deleting /\ own[p].epoch = c.epoch

OwnsSocket(p, id) ==
  own[p].id = id /\ ~ own[p].retired /\ ~ own[p].manual /\ ~ own[p].deleting

Fresh      == {t \in Tokens : by[t] = NoProc}
Running(p) == up[p].pc = "up"
Unlocked   == lock = NoProc
Fault      == faults < MaxFaults /\ faults' = faults + 1
SetOwn(p, r) == own' = [own EXCEPT ![p] = r]

\* retirePending: the record is dead, its service leaves the monitor, its socket
\* ends.
Retire(p) ==
  /\ SetOwn(p, [own[p] EXCEPT !.retired = TRUE, !.pending = {}])
  /\ live' = [live EXCEPT ![p] = FALSE]

\* The suspension of an owner ends its socket and is recorded.
Suspend(p, r) ==
  /\ SetOwn(p, [r EXCEPT !.suspended = TRUE])
  /\ live' = [live EXCEPT ![p] = FALSE]
  /\ rec' = [rec EXCEPT ![p] = [pc |-> "begin", id |-> r.id]]

-----------------------------------------------------------------------------
\* The process lists the instances with suspensionMetadata, and the service is
\* made from that row some time later.
List(p) ==
  /\ up[p].pc = "down"
  /\ up' = [up EXCEPT ![p] = [pc |-> "listed", row |-> db]]
  /\ UNCHANGED <<db, lock, by, own, live, tasks, stopped, stops, faults>>

\* restoreSuspension with the hint of the listed row.
Restored(row) ==
  IF row.why = "suspended" /\ row.status # "open"
  THEN [NoOwner EXCEPT !.id = Placeholder, !.tok = row.owner, !.suspended = TRUE]
  ELSE NoOwner

\* conn' when a connect task begins with the context c.
Begin(p, c, startup) ==
  conn' = [conn EXCEPT ![p] = [NoConnect EXCEPT !.pc = "start", !.ctx = c, !.startup = startup,
                                                !.behind = man[p].pc \notin {"idle", "adopt"}]]

\* setInstance: a service that was open, connecting or suspended connects.
SetInstance(p) ==
  LET r == Restored(up[p].row) IN
  /\ up[p].pc = "listed"
  /\ up' = [up EXCEPT ![p] = [pc |-> "up", row |-> Unregistered]]
  /\ SetOwn(p, r)
  /\ IF r.suspended \/ up[p].row.status \in {"open", "connecting"}
     THEN conn' = [conn EXCEPT ![p] =
            [NoConnect EXCEPT !.pc = "start", !.startup = TRUE,
                              !.ctx = [id |-> r.id, tok |-> r.tok, epoch |-> 0, stopped |-> FALSE]]]
     ELSE UNCHANGED conn
  /\ UNCHANGED <<db, lock, by, live, man, rec, heal, stopped, stops, faults>>

\* connectToWhatsapp on a request, with no origin of its own.
Connect(p) ==
  /\ Running(p) /\ conn[p].pc = "idle" /\ ~ live[p]
  /\ ConnectCheck(p, Capture(p, TRUE)) /\ Begin(p, Capture(p, TRUE), FALSE)
  /\ stopped' = stopped \ {p}
  /\ UNCHANGED <<db, lock, by, own, live, man, rec, heal, up, stops, faults>>

\* The timer of scheduleLifecycle, after the socket was lost.
Reconnect(p) ==
  /\ Running(p) /\ own[p].timer
  /\ SetOwn(p, [own[p] EXCEPT !.timer = FALSE])
  /\ IF ConnectCheck(p, Capture(p, FALSE)) /\ conn[p].pc = "idle"
     THEN Begin(p, Capture(p, FALSE), FALSE) ELSE UNCHANGED conn
  /\ UNCHANGED <<db, lock, by, live, man, rec, heal, up, stopped, stops, faults>>

\* The connect task is over; a cleanup and a recovery that await it go on.
ConnEnds(p, failed) ==
  /\ conn' = [conn EXCEPT ![p] = NoConnect]
  /\ heal' = [heal EXCEPT ![p].pc =
       IF @ # "joined" THEN @ ELSE IF failed THEN "failed" ELSE "over"]
  /\ man' = [man EXCEPT ![p].pc = IF @ = "wait" THEN "read" ELSE @]

\* After an exception in a startup, startupFailure suspends the owner that the
\* attempt began with, or made.
Throws(p) ==
  /\ ConnEnds(p, TRUE)
  /\ IF /\ conn[p].startup /\ own[p].id # NoToken
        /\ OwnsSocket(p, own[p].id) /\ ConnectCheck(p, conn[p].ctx)
     THEN Suspend(p, own[p])
     ELSE UNCHANGED <<own, live, rec>>

\* beforeConnect, once the cleanup the task found has settled: a healthy owner,
\* or one that recoverAdmission found healthy, goes on; a suspended one probes
\* the storage; one that is recovering returns the present client.
BeforeConnect(p) ==
  LET c == conn[p] r == own[p] IN
  /\ c.pc \in {"start", "broken"} /\ ~ c.behind
  /\ \/ (c.pc = "broken" \/ ~ ConnectCheck(p, c.ctx)) /\ Throws(p)
     \/ /\ c.pc = "start" /\ ConnectCheck(p, c.ctx)
        /\ (~ r.suspended \/ (r.ready /\ OwnsSocket(p, r.id)))
        /\ SetOwn(p, [r EXCEPT !.ready = FALSE])
        /\ conn' = [conn EXCEPT ![p].pc = "read"]
        /\ UNCHANGED <<live, man, rec, heal>>
     \/ /\ c.pc = "start" /\ ConnectCheck(p, c.ctx)
        /\ r.suspended /\ ~ (r.ready /\ OwnsSocket(p, r.id))
        /\ IF r.recovering \/ ~ OwnsSocket(p, r.id) THEN ConnEnds(p, FALSE)
           ELSE conn' = [conn EXCEPT ![p].pc = "probe"] /\ UNCHANGED <<man, heal>>
        /\ UNCHANGED <<own, live, rec>>
  /\ UNCHANGED <<db, lock, by, up, stopped, stops, faults>>

-----------------------------------------------------------------------------
\* probeStorage's verdict on the registration seen: the token of one's own
\* uncertain registration is adopted, a foreign one retires the record.
Adopts(p, seen) ==
  IF seen \in own[p].pending \/ seen = own[p].tok
  THEN SetOwn(p, [own[p] EXCEPT !.tok = seen, !.pending = {}]) /\ UNCHANGED live
  ELSE Retire(p)

Matches(p, seen) == seen \in own[p].pending \/ seen = own[p].tok

\* The probe of a connect task: the storage is written, rolled back and read.
ConnectProbe(p) ==
  /\ conn[p].pc = "probe"
  /\ \/ conn' = [conn EXCEPT ![p].pc = "probed", ![p].seen = db.owner]
        /\ UNCHANGED <<man, heal, faults>>
     \/ Fault /\ ConnEnds(p, FALSE)
  /\ UNCHANGED <<db, lock, by, own, live, rec, up, stopped, stops>>

ConnectProbed(p) ==
  LET c == conn[p] IN
  /\ c.pc = "probed"
  /\ IF ~ OwnsSocket(p, c.ctx.id) THEN Throws(p)
     ELSE /\ Adopts(p, c.seen) /\ UNCHANGED rec
          \* The context held the token from before an adoption.
          /\ IF Matches(p, c.seen) /\ c.seen = c.ctx.tok
                /\ own[p].epoch = c.ctx.epoch /\ ~ own[p].deleting
             THEN conn' = [conn EXCEPT ![p].pc = "read"] /\ UNCHANGED <<man, heal>>
             ELSE ConnEnds(p, TRUE)
  /\ UNCHANGED <<db, lock, by, up, stopped, stops, faults>>

\* installAdmissionSocket: the registration is read,
ReadOwner(p) ==
  /\ conn[p].pc = "read"
  /\ \/ /\ ConnectCheck(p, conn[p].ctx)
        /\ conn' = [conn EXCEPT ![p].pc = "join", ![p].seen = db.owner, ![p].back = Capture(p, TRUE)]
        /\ UNCHANGED <<own, live, man, rec, heal, faults>>
     \/ ~ ConnectCheck(p, conn[p].ctx) /\ Throws(p) /\ UNCHANGED faults
     \/ Fault /\ Throws(p)
  /\ UNCHANGED <<db, lock, by, up, stopped, stops>>

\* then the new token joins the pending ones of the previous owner, if the row
\* named that owner; a service without one makes a placeholder first.
Join(p) ==
  LET c == conn[p] r == own[p] IN
  /\ c.pc = "join"
  /\ IF ~ ConnectCheck(p, c.ctx) \/ r.id # c.back.id \/ (r.id # NoToken /\ ~ Matches(p, c.seen))
     THEN Throws(p) /\ UNCHANGED by
     ELSE \E t \in Fresh :
            LET placed == [NoOwner EXCEPT !.id = Placeholder, !.tok = c.seen]
                adopted == [id |-> Placeholder, tok |-> c.seen, epoch |-> 0, stopped |-> TRUE]
                prev == IF r.id = NoToken THEN placed ELSE r IN
            /\ by' = [by EXCEPT ![t] = p]
            /\ SetOwn(p, [prev EXCEPT !.pending = @ \cup {t}])
            /\ conn' = [conn EXCEPT ![p].pc = "claim", ![p].new = t,
                          ![p].ctx  = IF r.id = NoToken THEN adopted ELSE @,
                          ![p].back = IF r.id = NoToken THEN adopted ELSE @]
            /\ UNCHANGED <<live, man, rec, heal>>
  /\ UNCHANGED <<db, lock, up, stopped, stops, faults>>

\* The registration, by compare and set; it may fail, with its effect or not.
ClaimOwner(p) ==
  LET wins == db.owner = conn[p].seen
      claimed == IF wins THEN [db EXCEPT !.owner = conn[p].new] ELSE db IN
  /\ conn[p].pc = "claim" /\ Unlocked
  /\ \/ /\ db' = claimed
        /\ conn' = [conn EXCEPT ![p].pc = IF wins THEN "won" ELSE "lost"]
        /\ UNCHANGED <<own, live, man, rec, heal, faults>>
     \/ db' \in {db, claimed} /\ Fault /\ Throws(p)
  /\ UNCHANGED <<lock, by, up, stopped, stops>>

\* Back from the registration: the socket is published under the new owner, or
\* its constructor fails and leaves a suspended one, or the registration was
\* lost; a check that fails now asks for a refund.
Publish(p) ==
  LET c == conn[p]
      r == [NoOwner EXCEPT !.id = c.new, !.tok = c.new] IN
  /\ c.pc \in {"won", "lost"}
  /\ \/ /\ ~ ConnectCheck(p, c.ctx)
        /\ IF c.pc = "won" /\ LifecycleCurrent(p, c.back)
           THEN conn' = [conn EXCEPT ![p].pc = "refund"] /\ UNCHANGED <<own, live, man, rec, heal>>
           ELSE Throws(p)
        /\ UNCHANGED faults
     \/ /\ ConnectCheck(p, c.ctx) /\ c.pc = "lost" /\ Throws(p) /\ UNCHANGED faults
     \/ /\ ConnectCheck(p, c.ctx) /\ c.pc = "won"
        /\ \/ /\ SetOwn(p, r) /\ live' = [live EXCEPT ![p] = TRUE]
              /\ ConnEnds(p, FALSE) /\ UNCHANGED <<rec, faults>>
           \/ Fault /\ Suspend(p, r) /\ ConnEnds(p, TRUE)
  /\ UNCHANGED <<db, lock, by, up, stopped, stops>>

\* The refund of a registration that a manual stop overtook; on success the
\* proposal is pending no more.
Refund(p) ==
  LET c == conn[p]
      restores == db.owner = c.new
      restored == IF restores THEN [db EXCEPT !.owner = c.seen] ELSE db IN
  /\ c.pc = "refund" /\ Unlocked
  /\ \/ db' \in {db, restored} /\ Fault /\ Throws(p)
     \/ /\ db' = restored /\ ConnEnds(p, TRUE)
        /\ SetOwn(p, IF restores /\ LifecycleCurrent(p, c.back)
                     THEN [own[p] EXCEPT !.pending = @ \ {c.new}] ELSE own[p])
        /\ UNCHANGED <<live, rec, faults>>
  /\ UNCHANGED <<lock, by, up, stopped, stops>>

\* A process elsewhere claims the registration it has read.
ClaimElsewhere ==
  /\ Unlocked /\ Fault
  /\ \E t \in Fresh : /\ db' = [db EXCEPT !.owner = t] /\ by' = [by EXCEPT ![t] = Elsewhere]
  /\ UNCHANGED <<lock, own, live, tasks, up, stopped, stops>>

-----------------------------------------------------------------------------
\* A live socket of the present owner whose events are still heard.
Heard(p) == live[p] /\ LifecycleCurrent(p, [Capture(p, FALSE) EXCEPT !.tok = own[p].id])

\* connectionUpdate 'open': persistLifecycle asks for one's own registration.
Open(p) ==
  /\ Heard(p) /\ Unlocked /\ db.owner = own[p].tok
  /\ db' = [db EXCEPT !.status = "open"]
  /\ UNCHANGED <<lock, by, own, live, tasks, up, stopped, stops, faults>>

\* nexiGroupsSuspend: the admission of a group packet failed.
GroupsSuspend(p) ==
  /\ Heard(p) /\ OwnsSocket(p, own[p].id) /\ ~ own[p].suspended /\ rec[p].pc = "idle"
  /\ Fault /\ Suspend(p, own[p])
  /\ UNCHANGED <<db, lock, by, conn, man, heal, up, stopped, stops>>

\* connectionUpdate 'close' after a lost connection: a reconnect is scheduled.
SocketCloses(p) ==
  /\ Heard(p) /\ Fault
  /\ live' = [live EXCEPT ![p] = FALSE]
  /\ SetOwn(p, [own[p] EXCEPT !.timer = TRUE])
  /\ UNCHANGED <<db, lock, by, tasks, up, stopped, stops>>

\* recordSuspension: the transaction locks the row under one's own token and
\* looks at the ownership again,
RecordBegin(p) ==
  /\ rec[p].pc = "begin" /\ Unlocked
  /\ IF OwnsSocket(p, rec[p].id) /\ db.owner = own[p].tok
     THEN /\ rec' = [rec EXCEPT ![p].pc = "write"] /\ lock' = p
     ELSE /\ rec' = [rec EXCEPT ![p].pc = "idle"] /\ UNCHANGED lock
  /\ UNCHANGED <<db, by, own, live, conn, man, heal, up, stopped, stops, faults>>

\* then writes and commits, or fails, which the memory alone remembers.
RecordWrite(p) ==
  /\ rec[p].pc = "write"
  /\ \/ db' = [db EXCEPT !.status = "connecting", !.why = "suspended"] /\ UNCHANGED faults
     \/ UNCHANGED db /\ Fault
  /\ rec' = [rec EXCEPT ![p].pc = "idle"] /\ lock' = NoProc
  /\ UNCHANGED <<by, own, live, conn, man, heal, up, stopped, stops>>

-----------------------------------------------------------------------------
\* recoverAdmission, by the fifteen second timer; a service without an owner
\* looks for a recorded suspension first.
Recover(p) ==
  LET r == IF own[p].id = NoToken THEN Restored(db) ELSE own[p] IN
  /\ Running(p) /\ heal[p].pc = "idle"
  /\ r.suspended /\ ~ (r.recovering \/ r.retired \/ r.manual \/ r.deleting)
  /\ SetOwn(p, [r EXCEPT !.recovering = TRUE])
  /\ heal' = [heal EXCEPT ![p] = [NoHeal EXCEPT !.pc = "probe", !.id = r.id]]
  /\ UNCHANGED <<db, lock, by, live, conn, man, rec, up, stopped, stops, faults>>

\* What-if variant: the flag of the recovery is not taken back.
HealEndsSet(p, r) == SetOwn(p, r) /\ heal' = [heal EXCEPT ![p] = NoHeal]

\* finally: the record this recovery began with, if it is still the present one.
\* recovering of a replaced record is nobody's concern.
HealEnds(p, r) ==
  /\ SetOwn(p, IF r.id = heal[p].id THEN [r EXCEPT !.recovering = FALSE] ELSE r)
  /\ heal' = [heal EXCEPT ![p] = NoHeal]

HealProbe(p) ==
  /\ heal[p].pc = "probe"
  /\ \/ /\ heal' = [heal EXCEPT ![p].pc = "probed", ![p].seen = db.owner]
        /\ UNCHANGED <<own, faults>>
     \/ Fault /\ HealEnds(p, own[p])
  /\ UNCHANGED <<db, lock, by, live, conn, man, rec, up, stopped, stops>>

\* Healthy, it connects in the scope of the recovery, or joins the connect task
\* under way.
HealProbed(p) ==
  LET h == heal[p] r == own[p] IN
  /\ h.pc = "probed"
  /\ \/ /\ ~ OwnsSocket(p, h.id) /\ HealEnds(p, r) /\ UNCHANGED <<live, conn>>
     \/ /\ OwnsSocket(p, h.id) /\ ~ Matches(p, h.seen)
        /\ HealEnds(p, [r EXCEPT !.retired = TRUE, !.pending = {}])
        /\ live' = [live EXCEPT ![p] = FALSE] /\ UNCHANGED conn
     \/ /\ OwnsSocket(p, h.id) /\ Matches(p, h.seen)
        /\ SetOwn(p, [r EXCEPT !.tok = h.seen, !.pending = {}, !.ready = TRUE])
        /\ heal' = [heal EXCEPT ![p].pc = "joined"]
        /\ IF conn[p].pc = "idle"
           THEN Begin(p, [Capture(p, FALSE) EXCEPT !.tok = h.seen], FALSE) ELSE UNCHANGED conn
        /\ UNCHANGED live
  /\ UNCHANGED <<db, lock, by, man, rec, up, stopped, stops, faults>>

HealOver(p) ==
  /\ heal[p].pc \in {"over", "failed"}
  /\ HealEnds(p, IF heal[p].pc = "failed" /\ OwnsSocket(p, heal[p].id)
                 THEN [own[p] EXCEPT !.ready = FALSE] ELSE own[p])
  /\ UNCHANGED <<db, lock, by, live, conn, man, rec, up, stopped, stops, faults>>

-----------------------------------------------------------------------------
\* cancelLifecycle, at once; then the cleanup waits for the connect task that
\* was under way, unless there is a cleanup already.
Cancelled(r) ==
  [r EXCEPT !.epoch = @ + 1, !.manual = TRUE, !.suspended = FALSE, !.timer = FALSE]

StopOwner(p, r, remove) ==
  LET c == [id |-> r.id, tok |-> r.tok, epoch |-> 0, stopped |-> TRUE] IN
  /\ SetOwn(p, Cancelled(r))
  /\ man' = [man EXCEPT ![p] =
       IF @.pc \notin {"idle", "adopt"} THEN @
       ELSE [NoStop EXCEPT !.pc = IF conn[p].pc = "idle" THEN "read" ELSE "wait",
                           !.ctx = c, !.remove = remove]]

\* A logout, a removal, a disconnect from Chatwoot; manualOwner makes a record
\* for a service that has none.
ManualStop(p) ==
  /\ Running(p) /\ ~ own[p].retired /\ stops < MaxStops /\ stops' = stops + 1
  /\ IF own[p].id = NoToken
     THEN /\ man[p].pc = "idle"
          /\ man' = [man EXCEPT ![p] = [NoStop EXCEPT !.pc = "adopt", !.seen = db.owner]]
          /\ UNCHANGED own
     ELSE \E remove \in BOOLEAN : StopOwner(p, own[p], remove)
  /\ UNCHANGED <<db, lock, by, live, conn, rec, heal, up, stopped, faults>>

AdoptOwner(p) ==
  /\ man[p].pc = "adopt"
  /\ IF own[p].id # NoToken THEN man' = [man EXCEPT ![p] = NoStop] /\ UNCHANGED own
     ELSE StopOwner(p, [NoOwner EXCEPT !.id = Placeholder, !.tok = man[p].seen], FALSE)
  /\ UNCHANGED <<db, lock, by, live, conn, rec, heal, up, stopped, stops, faults>>

\* What-if variant: a connect task hears of the cleanup's success only.
StopEndsQuietly(p, ok) ==
  /\ man' = [man EXCEPT ![p] = NoStop]
  /\ conn' = [conn EXCEPT ![p].behind = @ /\ ~ ok]

\* The cleanup settles; a connect task that waited for it goes on, or fails
\* with it.
StopEnds(p, ok) ==
  /\ man' = [man EXCEPT ![p] = NoStop]
  /\ conn' = [conn EXCEPT ![p] = IF ~ @.behind THEN @ ELSE
                IF ok THEN [@ EXCEPT !.behind = FALSE]
                ELSE [@ EXCEPT !.behind = FALSE, !.pc = "broken"]]

\* resolveManualRegistration reads the row while registrations are pending,
StopRead(p) ==
  LET d == man[p] IN
  /\ d.pc = "read"
  /\ \/ /\ ~ LifecycleCurrent(p, d.ctx) \/ (own[p].pending # {} /\ d.tries = 2)
        /\ StopEnds(p, FALSE) /\ UNCHANGED faults
     \/ own[p].pending # {} /\ Fault /\ StopEnds(p, FALSE)
     \/ /\ LifecycleCurrent(p, d.ctx) /\ (own[p].pending # {} => d.tries < 2)
        /\ man' = [man EXCEPT ![p].pc = IF own[p].pending = {} THEN "clean" ELSE "decide",
                              ![p].seen = db.owner]
        /\ UNCHANGED <<conn, faults>>
  /\ UNCHANGED <<db, lock, by, own, live, rec, heal, up, stopped, stops>>

\* and decides: a foreign registration retires the record, the own one settles
\* what was pending, a pending one is to be taken back.
StopDecide(p) ==
  LET d == man[p] IN
  /\ d.pc = "decide"
  /\ \/ /\ ~ (LifecycleCurrent(p, d.ctx) /\ Matches(p, d.seen))
        /\ IF LifecycleCurrent(p, d.ctx) THEN Retire(p) ELSE UNCHANGED <<own, live>>
        /\ StopEnds(p, LifecycleCurrent(p, d.ctx))
     \/ /\ LifecycleCurrent(p, d.ctx) /\ d.seen = own[p].tok
        /\ SetOwn(p, [own[p] EXCEPT !.pending = {}])
        /\ man' = [man EXCEPT ![p].pc = "clean"] /\ UNCHANGED <<live, conn>>
     \/ /\ LifecycleCurrent(p, d.ctx) /\ d.seen \in own[p].pending \ {own[p].tok}
        /\ man' = [man EXCEPT ![p].pc = "restore"] /\ UNCHANGED <<own, live, conn>>
  /\ UNCHANGED <<db, lock, by, rec, heal, up, stopped, stops, faults>>

StopRestore(p) ==
  LET d == man[p]
      restores == db.owner = d.seen
      restored == IF restores THEN [owner |-> d.ctx.tok, status |-> "close", why |-> "manual"]
                  ELSE db
      again == man' = [man EXCEPT ![p].pc = "read", ![p].tries = @ + 1] IN
  /\ d.pc = "restore" /\ Unlocked
  /\ \/ db' \in {db, restored} /\ Fault /\ again /\ UNCHANGED own
     \/ /\ db' = restored /\ UNCHANGED faults
        /\ IF restores THEN /\ SetOwn(p, [own[p] EXCEPT !.pending = {}])
                            /\ man' = [man EXCEPT ![p].pc = "clean"]
           ELSE again /\ UNCHANGED own
  /\ UNCHANGED <<lock, by, live, conn, rec, heal, up, stopped, stops>>

\* What-if variant: the recorded suspension is left as it is.
CleanedAsIs(p) == [db EXCEPT !.status = "close"]

\* The row after cleanupLifecycle and the status its work writes.
Cleaned(p) ==
  [db EXCEPT !.status = "close", !.why = IF @ = "suspended" THEN "manual" ELSE @]

Registered(p) == db.owner = own[p].tok

\* The cleanup's transaction locks the row under one's own token, turns a
\* recorded suspension into a manual close, removes the credentials and writes
\* the status; logout and removal leave the service deleted.
StopClean(p) ==
  LET d == man[p] IN
  /\ d.pc = "clean" /\ Unlocked
  /\ \/ /\ LifecycleCurrent(p, d.ctx) /\ Registered(p)
        /\ db' = Cleaned(p)
        /\ SetOwn(p, [own[p] EXCEPT !.deleting = d.remove])
        /\ live' = [live EXCEPT ![p] = FALSE]
        /\ stopped' = IF conn[p].pc = "idle" THEN stopped \cup {p} ELSE stopped
        /\ StopEnds(p, TRUE) /\ UNCHANGED faults
     \/ /\ ~ (LifecycleCurrent(p, d.ctx) /\ Registered(p))
        /\ StopEnds(p, FALSE) /\ UNCHANGED <<db, own, live, stopped, faults>>
     \/ Fault /\ StopEnds(p, FALSE) /\ UNCHANGED <<db, own, live, stopped>>
  /\ UNCHANGED <<lock, by, rec, heal, up, stops>>

-----------------------------------------------------------------------------
\* The process dies, its transactions roll back, and it may start again.
Crash(p) ==
  /\ up[p].pc # "down" /\ Fault
  /\ up' = [up EXCEPT ![p] = [pc |-> "down", row |-> Unregistered]]
  /\ SetOwn(p, NoOwner) /\ live' = [live EXCEPT ![p] = FALSE]
  /\ conn' = [conn EXCEPT ![p] = NoConnect] /\ man' = [man EXCEPT ![p] = NoStop]
  /\ rec' = [rec EXCEPT ![p] = [pc |-> "idle", id |-> NoToken]]
  /\ heal' = [heal EXCEPT ![p] = NoHeal]
  /\ lock' = IF lock = p THEN NoProc ELSE lock
  /\ stopped' = stopped \ {p}
  /\ UNCHANGED <<db, by, stops>>

\* The continuations of each task of p.
Boot(p)        == List(p) \/ SetInstance(p)
Connecting(p)  == \/ BeforeConnect(p) \/ ConnectProbe(p) \/ ConnectProbed(p) \/ ReadOwner(p)
                  \/ Join(p) \/ ClaimOwner(p) \/ Publish(p) \/ Refund(p)
Recording(p)   == RecordBegin(p) \/ RecordWrite(p)
Healing(p)     == HealProbe(p) \/ HealProbed(p) \/ HealOver(p)
Stopping(p)    == \/ AdoptOwner(p) \/ StopRead(p) \/ StopDecide(p) \/ StopRestore(p)
                  \/ StopClean(p)

Next ==
  \/ ClaimElsewhere
  \/ \E p \in Procs :
       \/ Boot(p) \/ Connecting(p) \/ Recording(p) \/ Healing(p) \/ Stopping(p)
       \/ Connect(p) \/ Reconnect(p) \/ Recover(p)
       \/ Open(p) \/ GroupsSuspend(p) \/ SocketCloses(p) \/ ManualStop(p) \/ Crash(p)

Spec == Init /\ [][Next]_vars

\* Node runs what it awaits, statements are answered, and the timers fire.
FairSpec ==
  /\ Spec
  /\ \A p \in Procs :
       /\ WF_vars(Boot(p)) /\ WF_vars(Connecting(p)) /\ WF_vars(Recording(p))
       /\ WF_vars(Healing(p)) /\ WF_vars(Stopping(p))
       /\ WF_vars(Recover(p)) /\ WF_vars(Reconnect(p))

-----------------------------------------------------------------------------
\* After a manual stop has succeeded no socket of the process lives, and
\* neither a registration that was under way nor a recorded suspension survives
\* it: the row names the stopped owner, or a socket of another process, and asks
\* no restart to recover (installAdmissionSocket: "A manual stop during the
\* registration await must not strand a new pending token or revive its
\* persisted suspension").  What is said of the row is said of a process that
\* registers alone: a second one that adopts the same token after a suspension
\* may record the next suspension under it, whoever has stopped.
StopHolds ==
  \A p \in stopped :
    /\ ~ live[p]
    /\ Procs = {p} =>
         /\ db.owner = own[p].tok => db.why # "suspended"
         /\ db.owner \in Tokens /\ by[db.owner] = p => db.owner = own[p].tok

\* The types of the state hold along with it.
LifecycleInv == TypeOK /\ StopHolds

\* A connect task that a manual stop overtook never publishes its socket, at
\* whichever of its awaits the stop arrived (connectCheck, cancelLifecycle).
StopOvertakes ==
  [][\A p \in Procs : own'[p].id \in Tokens /\ own'[p].id # own[p].id =>
       own[p].epoch = conn[p].ctx.epoch]_vars

\* A recorded suspension outlives the process, and whoever restarts comes back
\* for it, even if the startup itself fails, until a socket is published again:
\* the row does not go on asking for a recovery that nobody attempts
\* (restoreSuspension, recoverAdmission).
RowRecovers ==
  db.why = "suspended" /\ db.status # "open" ~>
    \/ db.why # "suspended" \/ db.status = "open" \/ Fresh = {}
    \/ \E p \in Procs :
         \/ own[p].id \in Tokens /\ ~ own[p].suspended
         \/ own[p].retired \/ own[p].manual

\* No cleanup and no connect waits for ever, although each may wait for the
\* other (manualLifecycle: "neither side waits on a task created after it
\* began").
TasksEnd ==
  \A p \in Procs : /\ man[p].pc # "idle" ~> man[p].pc = "idle"
                   /\ conn[p].pc # "idle" ~> conn[p].pc = "idle" \/ Fresh = {}
=============================================================================
