----------------------- MODULE GroupsLifecycle_proofs -------------------------
(***************************************************************************)
(* The life of the groups' sockets, for any processes, Instance ids, tokens *)
(* and bounds: where the parts of one process stand to each other in every *)
(* reachable state (LifeInd), and from it that a stop by hand overtakes the *)
(* connect, the recovery and the cleanup it meets, and that nothing of a   *)
(* stopped process comes back.  In every step only one process moves, and  *)
(* what the others count on, the tokens that were made and the lock they   *)
(* hold, is never taken back (Moves): so an action is looked at once, for  *)
(* the process that takes it.  A record that an action edits is described  *)
(* by the fields that the invariant speaks of (OwnerIs, ConnIs, StopIs,    *)
(* HealIs), one small lemma for each edit of the model.                    *)
(***************************************************************************)
EXTENDS GroupsLifecycle, TLAPS

\* A token that some process has made.
Known(x) == x \in Tokens => by[x] # NoProc

\* A cleanup that has begun: past its start, not the adoption at a restart.
Cleaning(m) == m.pc \notin {"idle", "adopt"}

\* The parts of one process have their types.
Typed(o, l, c, m, r, h, u) ==
  /\ o \in Owners /\ l \in BOOLEAN /\ c \in Connects /\ m \in Stops
  /\ r \in [pc: {"idle", "begin", "write"}, id: Ids] /\ h \in Heals
  /\ u \in [pc: {"down", "listed", "up"}, row: Rows]

\* Every token that a process holds was made: a token still to come is nobody's.
KnownOnly(o, c, m, h, u) ==
  /\ Known(o.id) /\ Known(o.tok) /\ \A t \in o.pending : Known(t)
  /\ Known(c.seen) /\ Known(c.new) /\ Known(m.seen) /\ Known(m.ctx.id) /\ Known(m.ctx.tok)
  /\ Known(h.seen) /\ Known(u.row.owner)

\* How the owner, its socket, its connect, its stop, its suspension and its
\* recovery stand to each other: tasks run only in a process that is up; a stop
\* counts against the bound of stops; a cleanup past its wait meets no connect,
\* or one that waits behind it; what it cleans is an owner with an id, cancelled
\* unless the id changed under it; a claim carries a token that is not the
\* owner's; and a stopped process has no socket, no connect, nothing pending and
\* no suspension being written.
Fit(p, o, l, c, m, r, h, u, s) ==
  /\ u.pc # "up" => m.pc = "idle" /\ c.pc = "idle" /\ h.pc = "idle" /\ ~ s
  /\ o.epoch + (IF m.pc = "adopt" THEN 1 ELSE 0) <= stops
  /\ m.pc \in {"decide", "restore"} => m.tries < 2
  /\ c.behind => c.pc = "start" /\ Cleaning(m)
  /\ m.pc \in {"read", "decide", "restore", "clean"} => c.pc = "idle" \/ c.behind
  /\ Cleaning(m) => o.id # NoToken /\ (o.id = m.ctx.id => o.manual)
  /\ m.pc = "clean" => o.pending = {}
  /\ c.pc \in {"claim", "won", "lost", "refund"} => c.new \in Tokens /\ c.new # o.id /\ (Cleaning(m) => c.new # m.ctx.id)
  /\ s => /\ o.manual /\ o.id # NoToken /\ ~ l /\ c.pc = "idle" /\ o.pending = {}
          /\ r.pc # "write" /\ m.pc \in {"idle", "read", "clean"}
  /\ r.pc = "write" => lock = p

\* All that is said of the process p.
Of(p) == /\ Typed(own[p], live[p], conn[p], man[p], rec[p], heal[p], up[p])
         /\ KnownOnly(own[p], conn[p], man[p], heal[p], up[p])
         /\ Fit(p, own[p], live[p], conn[p], man[p], rec[p], heal[p], up[p], p \in stopped)

\* The Instance row names an owner whose token was made.
RowInv == db \in Rows /\ Known(db.owner)

\* The inductive invariant.
LifeInd == TypeOK /\ RowInv /\ \A p \in Procs : Of(p)

\* Only the process p moved,
OwnMoves(p) ==
  /\ own' = [own EXCEPT ![p] = own'[p]] /\ live' = [live EXCEPT ![p] = live'[p]]
  /\ rec' = [rec EXCEPT ![p] = rec'[p]] /\ up' = [up EXCEPT ![p] = up'[p]]

TasksMove(p) ==
  /\ conn' = [conn EXCEPT ![p] = conn'[p]] /\ man' = [man EXCEPT ![p] = man'[p]]
  /\ heal' = [heal EXCEPT ![p] = heal'[p]]

\* and nothing that the others count on was taken back.
RestMoves(p) ==
  /\ by' \in [Tokens -> Procs \cup {NoProc, Elsewhere}]
  /\ \A t \in Tokens : by[t] # NoProc => by'[t] # NoProc
  /\ lock' \in Procs \cup {NoProc}
  /\ \A q \in Procs : q # p /\ lock = q => lock' = q
  /\ stopped' \subseteq Procs /\ \A q \in Procs : q # p => (q \in stopped' <=> q \in stopped)
  /\ stops' \in 0 .. MaxStops /\ stops <= stops' /\ faults' \in 0 .. MaxFaults

Moves(p) == OwnMoves(p) /\ TasksMove(p) /\ RestMoves(p)

\* A step of p that keeps what is said of p and of the row keeps it of all.
LEMMA MovesInd ==
  ASSUME NEW p \in Procs, LifeInd, Moves(p), Of(p)', RowInv'
  PROVE  LifeInd'
<1>1. TypeOK'
  <2>1. own' \in [Procs -> Owners] /\ live' \in [Procs -> BOOLEAN] /\ conn' \in [Procs -> Connects]
        /\ man' \in [Procs -> Stops]
    BY DEF LifeInd, TypeOK, Moves, OwnMoves, TasksMove, RestMoves, Of, Typed
  <2>2. /\ rec' \in [Procs -> [pc: {"idle", "begin", "write"}, id: Ids]]
        /\ heal' \in [Procs -> Heals]
        /\ up' \in [Procs -> [pc: {"down", "listed", "up"}, row: Rows]]
    BY DEF LifeInd, TypeOK, Moves, OwnMoves, TasksMove, RestMoves, Of, Typed
  <2> QED BY <2>1, <2>2 DEF TypeOK, RowInv, Moves, RestMoves
<1>2. ASSUME NEW q \in Procs, q # p PROVE Of(q)'
  <2>1. /\ own'[q] = own[q] /\ live'[q] = live[q] /\ conn'[q] = conn[q] /\ man'[q] = man[q]
        /\ rec'[q] = rec[q] /\ heal'[q] = heal[q] /\ up'[q] = up[q]
        /\ (q \in stopped') = (q \in stopped)
    BY <1>2 DEF LifeInd, TypeOK, Moves, OwnMoves, TasksMove, RestMoves
  <2>2. Of(q) BY <1>2 DEF LifeInd
  <2>3. Typed(own[q], live[q], conn[q], man[q], rec[q], heal[q], up[q])'
    BY <2>1, <2>2 DEF Of, Typed
  <2>4. KnownOnly(own[q], conn[q], man[q], heal[q], up[q])'
    BY <2>1, <2>2 DEF Of, KnownOnly, Known, Moves, OwnMoves, TasksMove, RestMoves, Typed, Owners
  <2>5. own[q].epoch \in Nat /\ stops \in Nat /\ stops' \in Nat /\ stops <= stops'
    BY <2>2, LifecycleConstants DEF Of, Typed, Owners, LifeInd, TypeOK, Moves, OwnMoves, TasksMove, RestMoves
  <2>6. Fit(q, own[q], live[q], conn[q], man[q], rec[q], heal[q], up[q], q \in stopped)'
    BY <2>1, <2>2, <2>5, <1>2 DEF Of, Fit, Cleaning, Moves, RestMoves
  <2> QED BY <2>3, <2>4, <2>6 DEF Of
<1> QED BY <1>1, <1>2 DEF LifeInd

\* The record q with its fields.
OwnerIs(q, i, t, P, m, e) ==
  /\ q \in Owners
  /\ q.id = i /\ q.tok = t /\ q.pending = P /\ q.manual = m
  /\ q.epoch = e

\* The same of a connect,
ConnIs(q, v0, v1, v2, v3) ==
  /\ q \in Connects
  /\ q.pc = v0 /\ q.seen = v1 /\ q.new = v2 /\ q.behind = v3

\* of a stop,
StopIs(q, v0, v1, v2, v3) ==
  /\ q \in Stops
  /\ q.pc = v0 /\ q.ctx = v1 /\ q.seen = v2 /\ q.tries = v3

\* and of a recovery.
HealIs(q, v0, v1) ==
  /\ q \in Heals
  /\ q.pc = v0 /\ q.seen = v1

\* The edits of an owner: its restart timer,
LEMMA OwnerTimer ==
  ASSUME NEW r \in Owners
  PROVE  /\ OwnerIs([r EXCEPT !.timer = TRUE], r.id, r.tok, r.pending, r.manual, r.epoch)
         /\ OwnerIs([r EXCEPT !.timer = FALSE], r.id, r.tok, r.pending, r.manual, r.epoch)
BY DEF Owners, OwnerIs

\* its readiness,
LEMMA OwnerReady ==
  ASSUME NEW r \in Owners
  PROVE  /\ OwnerIs([r EXCEPT !.ready = TRUE], r.id, r.tok, r.pending, r.manual, r.epoch)
         /\ OwnerIs([r EXCEPT !.ready = FALSE], r.id, r.tok, r.pending, r.manual, r.epoch)
BY DEF Owners, OwnerIs

\* retire,
LEMMA OwnerRetire ==
  ASSUME NEW r \in Owners
  PROVE  OwnerIs([r EXCEPT !.retired = TRUE, !.pending = {}], r.id, r.tok, {}, r.manual, r.epoch)
BY DEF Owners, OwnerIs

\* suspend,
LEMMA OwnerSuspend ==
  ASSUME NEW r \in Owners
  PROVE  OwnerIs([r EXCEPT !.suspended = TRUE], r.id, r.tok, r.pending, r.manual, r.epoch)
BY DEF Owners, OwnerIs

\* the adoption of a token,
LEMMA OwnerAdopt ==
  ASSUME NEW r \in Owners, NEW x \in Owned
  PROVE  OwnerIs([r EXCEPT !.tok = x, !.pending = {}], r.id, x, {}, r.manual, r.epoch)
BY DEF Owners, OwnerIs

\* the tokens it waits for,
LEMMA OwnerPend ==
  ASSUME NEW r \in Owners, NEW S \in SUBSET Tokens
  PROVE  OwnerIs([r EXCEPT !.pending = S], r.id, r.tok, S, r.manual, r.epoch)
BY DEF Owners, OwnerIs

\* the mark of a recovery,
LEMMA OwnerRecover ==
  ASSUME NEW r \in Owners
  PROVE  /\ OwnerIs([r EXCEPT !.recovering = TRUE], r.id, r.tok, r.pending, r.manual, r.epoch)
         /\ OwnerIs([r EXCEPT !.recovering = FALSE], r.id, r.tok, r.pending, r.manual, r.epoch)
BY DEF Owners, OwnerIs

\* a probe that found it healthy,
LEMMA OwnerHealthy ==
  ASSUME NEW r \in Owners, NEW x \in Owned
  PROVE  OwnerIs([r EXCEPT !.tok = x, !.pending = {}, !.ready = TRUE], r.id, x, {}, r.manual, r.epoch)
BY DEF Owners, OwnerIs

\* the mark of a removal,
LEMMA OwnerDelete ==
  ASSUME NEW r \in Owners
  PROVE  /\ OwnerIs([r EXCEPT !.deleting = TRUE], r.id, r.tok, r.pending, r.manual, r.epoch)
         /\ OwnerIs([r EXCEPT !.deleting = FALSE], r.id, r.tok, r.pending, r.manual, r.epoch)
BY DEF Owners, OwnerIs

\* a stop by hand;
LEMMA OwnerCancel ==
  ASSUME NEW r \in Owners, NEW e \in 0 .. MaxStops
  PROVE  OwnerIs([r EXCEPT !.epoch = e, !.manual = TRUE, !.suspended = FALSE, !.timer = FALSE], r.id, r.tok, r.pending, TRUE, e)
BY DEF Owners, OwnerIs

\* the owner of a process that has none,
LEMMA OwnerNone ==
  OwnerIs(NoOwner, NoToken, NoToken, {}, FALSE, 0)
BY LifecycleConstants DEF Owners, OwnerIs, NoOwner, Ids, Owned

\* as the restart restores it from a suspended row
LEMMA EditOwnerRestored ==
  ASSUME NEW r \in Owners, NEW x \in Owned, NEW i \in Ids
  PROVE  OwnerIs([r EXCEPT !.id = i, !.tok = x, !.suspended = TRUE], i, x, r.pending, r.manual, r.epoch)
BY DEF Owners, OwnerIs

\* when there was none before,
LEMMA OwnerRestored ==
  ASSUME NEW x \in Owned, NEW i \in Ids
  PROVE  OwnerIs([NoOwner EXCEPT !.id = i, !.tok = x, !.suspended = TRUE], i, x, {}, FALSE, 0)
<1>1. NoOwner \in Owners BY OwnerNone DEF OwnerIs
<1>2. OwnerIs([NoOwner EXCEPT !.id = i, !.tok = x, !.suspended = TRUE], i, x, NoOwner.pending, NoOwner.manual, NoOwner.epoch) BY <1>1, EditOwnerRestored
<1>3. NoOwner.pending = {} /\ NoOwner.manual = FALSE /\ NoOwner.epoch = 0 BY OwnerNone DEF OwnerIs
<1> QED BY <1>2, <1>3

\* and as the socket placeholder makes it
LEMMA EditOwnerPlaced ==
  ASSUME NEW r \in Owners, NEW x \in Owned, NEW i \in Ids
  PROVE  OwnerIs([r EXCEPT !.id = i, !.tok = x], i, x, r.pending, r.manual, r.epoch)
BY DEF Owners, OwnerIs

\* when there was none before.
LEMMA OwnerPlaced ==
  ASSUME NEW x \in Owned, NEW i \in Ids
  PROVE  OwnerIs([NoOwner EXCEPT !.id = i, !.tok = x], i, x, {}, FALSE, 0)
<1>1. NoOwner \in Owners BY OwnerNone DEF OwnerIs
<1>2. OwnerIs([NoOwner EXCEPT !.id = i, !.tok = x], i, x, NoOwner.pending, NoOwner.manual, NoOwner.epoch) BY <1>1, EditOwnerPlaced
<1>3. NoOwner.pending = {} /\ NoOwner.manual = FALSE /\ NoOwner.epoch = 0 BY OwnerNone DEF OwnerIs
<1> QED BY <1>2, <1>3

\* The edits of a connect: its next step,
LEMMA ConnPc ==
  ASSUME NEW r \in Connects
  PROVE  /\ ConnIs([r EXCEPT !.pc = "probe"], "probe", r.seen, r.new, r.behind)
         /\ ConnIs([r EXCEPT !.pc = "read"], "read", r.seen, r.new, r.behind)
         /\ ConnIs([r EXCEPT !.pc = "won"], "won", r.seen, r.new, r.behind)
         /\ ConnIs([r EXCEPT !.pc = "lost"], "lost", r.seen, r.new, r.behind)
         /\ ConnIs([r EXCEPT !.pc = "refund"], "refund", r.seen, r.new, r.behind)
BY DEF Connects, ConnIs

\* the row it has read,
LEMMA ConnSeen ==
  ASSUME NEW r \in Connects, NEW x \in Owned
  PROVE  /\ ConnIs([r EXCEPT !.pc = "probed", !.seen = x], "probed", x, r.new, r.behind)
BY DEF Connects, ConnIs

\* the owner it joins,
LEMMA ConnRead ==
  ASSUME NEW r \in Connects, NEW x \in Owned, NEW d \in Contexts
  PROVE  ConnIs([r EXCEPT !.pc = "join", !.seen = x, !.back = d], "join", x, r.new, r.behind)
BY DEF Connects, ConnIs

\* the token it claims,
LEMMA ConnJoin ==
  ASSUME NEW r \in Connects, NEW x \in Owned, NEW d \in Contexts, NEW e \in Contexts
  PROVE  ConnIs([r EXCEPT !.pc = "claim", !.new = x, !.ctx = d, !.back = e], "claim", r.seen, x, r.behind)
BY DEF Connects, ConnIs

\* the cleanup it waited behind,
LEMMA ConnSettled ==
  ASSUME NEW r \in Connects, NEW a \in {"idle", "start", "broken", "probe", "probed", "read", "join", "claim", "won", "lost", "refund"}
  PROVE  ConnIs([r EXCEPT !.behind = FALSE, !.pc = a], a, r.seen, r.new, FALSE)
BY DEF Connects, ConnIs

\* no connect,
LEMMA ConnNone ==
  ConnIs(NoConnect, "idle", NoToken, NoToken, FALSE)
BY LifecycleConstants DEF Connects, ConnIs, NoConnect, NoContext, Contexts, Ids, Owned

\* its start,
LEMMA EditConnStart ==
  ASSUME NEW r \in Connects, NEW d \in Contexts, NEW a \in BOOLEAN, NEW c \in BOOLEAN
  PROVE  ConnIs([r EXCEPT !.pc = "start", !.ctx = d, !.startup = a, !.behind = c], "start", r.seen, r.new, c)
BY DEF Connects, ConnIs

\* its start at boot.
LEMMA EditConnBoot ==
  ASSUME NEW r \in Connects, NEW d \in Contexts
  PROVE  ConnIs([r EXCEPT !.pc = "start", !.startup = TRUE, !.ctx = d], "start", r.seen, r.new, r.behind)
BY DEF Connects, ConnIs

\* A connect task begins.
LEMMA BeginIs ==
  ASSUME NEW p \in Procs, conn \in [Procs -> Connects], NEW d \in Contexts, NEW a \in BOOLEAN, Begin(p, d, a)
  PROVE  /\ conn' = [conn EXCEPT ![p] = conn'[p]]
         /\ conn'[p] \in Connects /\ conn'[p].pc = "start" /\ conn'[p].seen = NoToken
         /\ conn'[p].new = NoToken /\ (conn'[p].behind <=> Cleaning(man[p]))
<1> DEFINE c == man[p].pc \notin {"idle", "adopt"}
<1>1. NoConnect \in Connects BY ConnNone DEF ConnIs
<1>2. NoConnect.seen = NoToken /\ NoConnect.new = NoToken BY ConnNone DEF ConnIs
<1>3. c \in BOOLEAN /\ (c <=> Cleaning(man[p])) BY DEF Cleaning
<1>4. conn'[p] = [NoConnect EXCEPT !.pc = "start", !.ctx = d, !.startup = a, !.behind = c]
  BY DEF Begin
<1>5. conn' = [conn EXCEPT ![p] = conn'[p]] BY DEF Begin
<1> HIDE DEF c
<1>6. ConnIs([NoConnect EXCEPT !.pc = "start", !.ctx = d, !.startup = a, !.behind = c],
             "start", NoConnect.seen, NoConnect.new, c)
  BY <1>1, <1>3, EditConnStart
<1> QED BY <1>2, <1>3, <1>4, <1>5, <1>6 DEF ConnIs

\* A connect at boot begins.
LEMMA BootIs ==
  ASSUME NEW d \in Contexts
  PROVE  ConnIs([NoConnect EXCEPT !.pc = "start", !.startup = TRUE, !.ctx = d], "start", NoToken, NoToken, FALSE)
<1>1. NoConnect \in Connects BY ConnNone DEF ConnIs
<1>2. ConnIs([NoConnect EXCEPT !.pc = "start", !.startup = TRUE, !.ctx = d], "start", NoConnect.seen, NoConnect.new, NoConnect.behind) BY <1>1, EditConnBoot
<1>3. NoConnect.seen = NoToken /\ NoConnect.new = NoToken /\ NoConnect.behind = FALSE BY ConnNone DEF ConnIs
<1> QED BY <1>2, <1>3

\* The edits of a stop: its next step,
LEMMA StopPc ==
  ASSUME NEW r \in Stops
  PROVE  /\ StopIs([r EXCEPT !.pc = "read"], "read", r.ctx, r.seen, r.tries)
         /\ StopIs([r EXCEPT !.pc = "clean"], "clean", r.ctx, r.seen, r.tries)
         /\ StopIs([r EXCEPT !.pc = "restore"], "restore", r.ctx, r.seen, r.tries)
BY DEF Stops, StopIs

\* the row it has read,
LEMMA StopSeen ==
  ASSUME NEW r \in Stops, NEW x \in Owned
  PROVE  /\ StopIs([r EXCEPT !.pc = "decide", !.seen = x], "decide", r.ctx, x, r.tries)
         /\ StopIs([r EXCEPT !.pc = "clean", !.seen = x], "clean", r.ctx, x, r.tries)
         /\ StopIs([r EXCEPT !.pc = "adopt", !.seen = x], "adopt", r.ctx, x, r.tries)
BY DEF Stops, StopIs

\* one more try,
LEMMA StopAgain ==
  ASSUME NEW r \in Stops, NEW n \in 0 .. 2
  PROVE  StopIs([r EXCEPT !.pc = "read", !.tries = n], "read", r.ctx, r.seen, n)
BY DEF Stops, StopIs

\* no stop,
LEMMA StopNone ==
  StopIs(NoStop, "idle", NoContext, NoToken, 0)
BY LifecycleConstants DEF Stops, StopIs, NoStop, NoContext, Contexts, Ids, Owned

\* its start,
LEMMA EditStopStart ==
  ASSUME NEW r \in Stops, NEW a \in {"read", "wait"}, NEW d \in Contexts, NEW b \in BOOLEAN
  PROVE  StopIs([r EXCEPT !.pc = a, !.ctx = d, !.remove = b], a, d, r.seen, r.tries)
BY DEF Stops, StopIs

\* from no stop,
LEMMA StopStart ==
  ASSUME NEW a \in {"read", "wait"}, NEW d \in Contexts, NEW b \in BOOLEAN
  PROVE  StopIs([NoStop EXCEPT !.pc = a, !.ctx = d, !.remove = b], a, d, NoToken, 0)
<1>1. NoStop \in Stops BY StopNone DEF StopIs
<1>2. StopIs([NoStop EXCEPT !.pc = a, !.ctx = d, !.remove = b], a, d, NoStop.seen, NoStop.tries) BY <1>1, EditStopStart
<1>3. NoStop.seen = NoToken /\ NoStop.tries = 0 BY StopNone DEF StopIs
<1> QED BY <1>2, <1>3

\* the stop adopted at a restart.
LEMMA StopAdopt ==
  ASSUME NEW x \in Owned
  PROVE  StopIs([NoStop EXCEPT !.pc = "adopt", !.seen = x], "adopt", NoContext, x, 0)
<1>1. NoStop \in Stops BY StopNone DEF StopIs
<1>2. StopIs([NoStop EXCEPT !.pc = "adopt", !.seen = x], "adopt", NoStop.ctx, x, NoStop.tries) BY <1>1, StopSeen
<1>3. NoStop.ctx = NoContext /\ NoStop.tries = 0 BY StopNone DEF StopIs
<1> QED BY <1>2, <1>3

\* The edits of a recovery: its next step,
LEMMA HealPc ==
  ASSUME NEW r \in Heals
  PROVE  /\ HealIs([r EXCEPT !.pc = "joined"], "joined", r.seen)
         /\ HealIs([r EXCEPT !.pc = "over"], "over", r.seen)
         /\ HealIs([r EXCEPT !.pc = "failed"], "failed", r.seen)
BY DEF Heals, HealIs

\* the row it has read,
LEMMA HealSeen ==
  ASSUME NEW r \in Heals, NEW x \in Owned
  PROVE  /\ HealIs([r EXCEPT !.pc = "probed", !.seen = x], "probed", x)
BY DEF Heals, HealIs

\* no recovery,
LEMMA HealNone ==
  HealIs(NoHeal, "idle", NoToken)
BY LifecycleConstants DEF Heals, HealIs, NoHeal, Ids, Owned

\* its start.
LEMMA HealStart ==
  ASSUME NEW i \in Ids
  PROVE  HealIs([NoHeal EXCEPT !.pc = "probe", !.id = i], "probe", NoToken)
BY LifecycleConstants DEF Heals, HealIs, NoHeal, Ids, Owned


\* What the invariant says of the types of one process.
Held(p) ==
  /\ own[p] \in Owners /\ live[p] \in BOOLEAN /\ conn[p] \in Connects /\ man[p] \in Stops
  /\ rec[p] \in [pc: {"idle", "begin", "write"}, id: Ids] /\ heal[p] \in Heals
  /\ up[p] \in [pc: {"down", "listed", "up"}, row: Rows]
  /\ own[p].id \in Ids /\ own[p].tok \in Owned /\ own[p].pending \in SUBSET Tokens
  /\ own[p].epoch \in 0 .. MaxStops /\ own[p].epoch \in Nat
  /\ db \in Rows /\ db.owner \in Owned /\ stops \in Nat /\ stops' \in Nat /\ MaxStops \in Nat
  /\ conn[p].ctx \in Contexts /\ conn[p].seen \in Owned /\ conn[p].new \in Owned
  /\ man[p].seen \in Owned /\ man[p].tries \in 0 .. 2 /\ man[p].ctx \in Contexts
  /\ heal[p].seen \in Owned /\ up[p].row \in Rows /\ up[p].row.owner \in Owned
  /\ own[p].suspended \in BOOLEAN

\* They hold after a step of p as well, of what the step left alone.
LEMMA HeldNow ==
  ASSUME NEW p \in Procs, LifeInd, Moves(p)
  PROVE  Held(p)
BY LifecycleConstants DEF Held, Moves, RestMoves, LifeInd, TypeOK, RowInv, Of, Typed, Owners, Connects, Stops, Heals, Rows

\* The types of the parts of p, as the invariant has them.
LEMMA TypesNow ==
  ASSUME NEW p \in Procs, LifeInd
  PROVE  /\ own[p] \in Owners /\ conn[p] \in Connects /\ man[p] \in Stops /\ heal[p] \in Heals
         /\ db \in Rows /\ db.owner \in Owned /\ conn[p].seen \in Owned /\ conn[p].new \in Owned
         /\ own[p].id \in Ids /\ own[p].tok \in Owned /\ own[p].pending \in SUBSET Tokens
         /\ man[p].seen \in Owned /\ heal[p].seen \in Owned
         /\ up[p].row \in Rows /\ up[p].row.owner \in Owned
BY LifecycleConstants DEF LifeInd, TypeOK, RowInv, Of, Typed, Owners, Connects, Stops, Heals, Rows

\* What capture notes of an owner is a context.
LEMMA CaptureType ==
  ASSUME NEW p \in Procs, LifeInd, NEW b \in BOOLEAN
  PROVE  /\ Capture(p, b) \in Contexts
         /\ Capture(p, b).id = own[p].id /\ Capture(p, b).tok = own[p].tok
         /\ Capture(p, b).epoch = own[p].epoch /\ Capture(p, b).stopped = b
<1>1. own[p].id \in Ids /\ own[p].tok \in Owned /\ own[p].epoch \in 0 .. MaxStops
  BY DEF LifeInd, TypeOK, Of, Typed, Owners
<1> QED BY <1>1 DEF Capture, Contexts

\* The columns of the row.
LEMMA RowEdit ==
  ASSUME NEW r \in Rows
  PROVE  /\ [r EXCEPT !.status = "open"] \in Rows /\ [r EXCEPT !.status = "open"].owner = r.owner
         /\ [r EXCEPT !.status = "connecting", !.why = "suspended"] \in Rows
         /\ [r EXCEPT !.status = "connecting", !.why = "suspended"].owner = r.owner
         /\ \A x \in Owned : [r EXCEPT !.owner = x] \in Rows /\ [r EXCEPT !.owner = x].owner = x
BY DEF Rows

\* What the invariant says of one process after its step.
LEMMA Kept ==
  ASSUME NEW p \in Procs, LifeInd, Moves(p),
         Typed(own[p], live[p], conn[p], man[p], rec[p], heal[p], up[p])',
         KnownOnly(own[p], conn[p], man[p], heal[p], up[p])', RowInv',
         Fit(p, own[p], live[p], conn[p], man[p], rec[p], heal[p], up[p], p \in stopped)'
  PROVE  LifeInd'
BY MovesInd DEF Of

\* A record is itself.
LEMMA OwnerItself ==
  ASSUME NEW r \in Owners
  PROVE  OwnerIs(r, r.id, r.tok, r.pending, r.manual, r.epoch)
BY DEF OwnerIs

\* The owner that a restart restores holds only tokens that were made,
LEMMA RestoredIs ==
  ASSUME LifeInd, NEW row \in Rows, Known(row.owner)
  PROVE  /\ Restored(row) \in Owners /\ Restored(row).id \in {NoToken, Placeholder}
         /\ Restored(row).tok \in Owned /\ Known(Restored(row).id) /\ Known(Restored(row).tok)
         /\ Restored(row).pending = {} /\ Restored(row).epoch = 0
         /\ Restored(row).suspended => Restored(row).id = Placeholder
<1>1. row.owner \in Owned BY DEF Rows
<1>2. CASE row.why = "suspended" /\ row.status # "open"
  <2>1. Restored(row) = [NoOwner EXCEPT !.id = Placeholder, !.tok = row.owner, !.suspended = TRUE]
    BY <1>2 DEF Restored
  <2>2. Placeholder \in Ids BY DEF Ids
  <2>3. OwnerIs(Restored(row), Placeholder, row.owner, {}, FALSE, 0)
    BY <1>1, <2>1, <2>2, OwnerRestored
  <2> QED BY <1>1, <2>3, LifecycleConstants DEF OwnerIs, Known
<1>3. CASE ~ (row.why = "suspended" /\ row.status # "open")
  <2>1. Restored(row) = NoOwner
    BY <1>3 DEF Restored
  <2>2. NoOwner.suspended = FALSE BY DEF NoOwner
  <2>3. NoOwner.id = NoToken /\ NoOwner.tok = NoToken /\ NoOwner.pending = {} /\ NoOwner.epoch = 0 /\ NoOwner \in Owners
    BY OwnerNone DEF OwnerIs
  <2> QED BY <2>1, <2>2, <2>3, LifecycleConstants DEF Known, Owned
<1> QED BY <1>2, <1>3

\* and has its types.
LEMMA RestoredTypes ==
  ASSUME NEW row \in Rows
  PROVE  Restored(row).id \in Ids /\ Restored(row).tok \in Owned
<1>1. row.owner \in Owned /\ Placeholder \in Ids BY DEF Rows, Ids
<1>2. CASE row.why = "suspended" /\ row.status # "open"
  <2>1. Restored(row) = [NoOwner EXCEPT !.id = Placeholder, !.tok = row.owner, !.suspended = TRUE]
    BY <1>2 DEF Restored
  <2>2. OwnerIs(Restored(row), Placeholder, row.owner, {}, FALSE, 0)
    BY <1>1, <2>1, OwnerRestored
  <2> QED BY <1>1, <2>2 DEF OwnerIs
<1>3. CASE ~ (row.why = "suspended" /\ row.status # "open")
  BY <1>3, OwnerNone DEF Restored, OwnerIs, Ids, Owned
<1> QED BY <1>2, <1>3

\* The context of a connect at boot is one.
LEMMA BootContext ==
  ASSUME NEW i \in Ids, NEW t \in Owned
  PROVE  [id |-> i, tok |-> t, epoch |-> 0, stopped |-> FALSE] \in Contexts
BY LifecycleConstants DEF Contexts

\* The state of the recovery, whatever it is.
LEMMA HealAt ==
  ASSUME NEW r \in Heals, NEW a \in {"idle", "probe", "probed", "joined", "over", "failed"}
  PROVE  HealIs([r EXCEPT !.pc = a], a, r.seen)
BY DEF Heals, HealIs

\* The state of the stop, whatever it is.
LEMMA StopAt ==
  ASSUME NEW r \in Stops, NEW a \in {"idle", "adopt", "wait", "read", "decide", "restore", "clean"}
  PROVE  StopIs([r EXCEPT !.pc = a], a, r.ctx, r.seen, r.tries)
BY DEF Stops, StopIs

\* The end of a connect task.
LEMMA ConnEndsIs ==
  ASSUME NEW p \in Procs, LifeInd, NEW f \in BOOLEAN, ConnEnds(p, f)
  PROVE  /\ TasksMove(p) /\ conn'[p] = NoConnect /\ ConnIs(conn'[p], "idle", NoToken, NoToken, FALSE)
         /\ HealIs(heal'[p], heal'[p].pc, heal[p].seen) /\ (heal[p].pc = "idle" => heal'[p].pc = "idle")
         /\ StopIs(man'[p], man'[p].pc, man[p].ctx, man[p].seen, man[p].tries)
         /\ man'[p].pc = IF man[p].pc = "wait" THEN "read" ELSE man[p].pc
<1> DEFINE h == IF heal[p].pc # "joined" THEN heal[p].pc ELSE IF f THEN "failed" ELSE "over"
           m == IF man[p].pc = "wait" THEN "read" ELSE man[p].pc
<1>1. heal[p] \in Heals /\ man[p] \in Stops BY TypesNow
<1>2. h \in {"idle", "probe", "probed", "joined", "over", "failed"} BY <1>1 DEF Heals
<1>3. m \in {"idle", "adopt", "wait", "read", "decide", "restore", "clean"} BY <1>1 DEF Stops
<1>4. /\ conn' = [conn EXCEPT ![p] = conn'[p]] /\ heal' = [heal EXCEPT ![p] = heal'[p]]
      /\ man' = [man EXCEPT ![p] = man'[p]]
  BY DEF ConnEnds, LifeInd, TypeOK
<1>5. conn'[p] = NoConnect BY DEF ConnEnds, LifeInd, TypeOK
<1>6. heal'[p] = [heal[p] EXCEPT !.pc = h] BY DEF ConnEnds, LifeInd, TypeOK
<1>7. man'[p] = [man[p] EXCEPT !.pc = m] BY DEF ConnEnds, LifeInd, TypeOK
<1>8. heal[p].pc = "idle" => h = "idle" OBVIOUS
<1>9. m = IF man[p].pc = "wait" THEN "read" ELSE man[p].pc OBVIOUS
<1> HIDE DEF h, m
<1>10. HealIs(heal'[p], h, heal[p].seen) BY <1>1, <1>2, <1>6, HealAt
<1>11. StopIs(man'[p], m, man[p].ctx, man[p].seen, man[p].tries) BY <1>1, <1>3, <1>7, StopAt
<1>12. heal'[p].pc = h /\ man'[p].pc = m BY <1>10, <1>11 DEF HealIs, StopIs
<1>13. TasksMove(p) BY <1>4 DEF TasksMove
<1> QED BY <1>5, <1>8, <1>9, <1>10, <1>11, <1>12, <1>13, ConnNone

\* A connect task that ends with an exception.
LEMMA ThrowsIs ==
  ASSUME NEW p \in Procs, LifeInd, Throws(p), UNCHANGED up
  PROVE  /\ OwnMoves(p) /\ TasksMove(p)
         /\ OwnerIs(own'[p], own[p].id, own[p].tok, own[p].pending, own[p].manual, own[p].epoch)
         /\ live'[p] \in BOOLEAN /\ (live'[p] => live[p])
         /\ rec'[p] \in [pc: {"idle", "begin", "write"}, id: Ids]
         /\ (rec'[p].pc = "write" => rec[p].pc = "write")
<1>1. own[p] \in Owners /\ own[p].id \in Ids BY TypesNow
<1>2. ConnEnds(p, TRUE) BY DEF Throws
<1>3. CASE Suspend(p, own[p])
  <2>1. OwnMoves(p) BY <1>3 DEF Suspend, SetOwn, OwnMoves, LifeInd, TypeOK
  <2>2. own'[p] = [own[p] EXCEPT !.suspended = TRUE] BY <1>3 DEF Suspend, SetOwn, LifeInd, TypeOK
  <2>3. OwnerIs(own'[p], own[p].id, own[p].tok, own[p].pending, own[p].manual, own[p].epoch)
    BY <2>2, <1>1, OwnerSuspend
  <2>4. live'[p] = FALSE /\ rec'[p] = [pc |-> "begin", id |-> own[p].id]
    BY <1>3 DEF Suspend, LifeInd, TypeOK
  <2>5. rec'[p] \in [pc: {"idle", "begin", "write"}, id: Ids] /\ rec'[p].pc = "begin" BY <1>1, <2>4
  <2> QED BY <1>2, <2>1, <2>3, <2>4, <2>5, ConnEndsIs
<1>4. CASE UNCHANGED <<own, live, rec>>
  <2>1. OwnMoves(p) BY <1>4 DEF OwnMoves, LifeInd, TypeOK
  <2>2. OwnerIs(own'[p], own[p].id, own[p].tok, own[p].pending, own[p].manual, own[p].epoch)
    BY <1>1, <1>4, OwnerItself
  <2>3. live'[p] \in BOOLEAN /\ rec'[p] \in [pc: {"idle", "begin", "write"}, id: Ids]
    BY <1>4 DEF LifeInd, TypeOK
  <2> QED BY <1>2, <1>4, <2>1, <2>2, <2>3, ConnEndsIs
<1> QED BY <1>3, <1>4 DEF Throws

\* A connect task that ends with an exception keeps the invariant.
LEMMA ThrowsKeeps ==
  ASSUME NEW p \in Procs, LifeInd, Throws(p), UNCHANGED <<lock, by, up, stopped, stops>>,
         faults' \in 0 .. MaxFaults, RowInv'
  PROVE  LifeInd'
<1>1. OwnMoves(p) /\ TasksMove(p) BY ThrowsIs
<1>2. RestMoves(p) BY LifecycleConstants DEF RestMoves, LifeInd, TypeOK
<1>3. Moves(p) BY <1>1, <1>2 DEF Moves
<1>4. Held(p) BY <1>3, HeldNow
<1>5. /\ OwnerIs(own'[p], own[p].id, own[p].tok, own[p].pending, own[p].manual, own[p].epoch)
      /\ live'[p] \in BOOLEAN /\ (live'[p] => live[p])
      /\ rec'[p] \in [pc: {"idle", "begin", "write"}, id: Ids]
      /\ (rec'[p].pc = "write" => rec[p].pc = "write")
  BY ThrowsIs
<1>6. ConnEnds(p, TRUE) BY DEF Throws
<1>7. /\ ConnIs(conn'[p], "idle", NoToken, NoToken, FALSE)
      /\ HealIs(heal'[p], heal'[p].pc, heal[p].seen) /\ (heal[p].pc = "idle" => heal'[p].pc = "idle")
      /\ StopIs(man'[p], man'[p].pc, man[p].ctx, man[p].seen, man[p].tries)
      /\ man'[p].pc = IF man[p].pc = "wait" THEN "read" ELSE man[p].pc
  BY <1>6, ConnEndsIs
<1>8. up'[p] = up[p] /\ by' = by /\ (p \in stopped' <=> p \in stopped) /\ lock' = lock /\ stops' = stops
  OBVIOUS
<1>9. Typed(own[p], live[p], conn[p], man[p], rec[p], heal[p], up[p])'
  BY <1>4, <1>5, <1>7, <1>8 DEF OwnerIs, ConnIs, StopIs, HealIs, Typed, Held
<1>10. KnownOnly(own[p], conn[p], man[p], heal[p], up[p])'
  BY <1>4, <1>5, <1>7, <1>8, LifecycleConstants
  DEF OwnerIs, ConnIs, StopIs, HealIs, KnownOnly, Known, Held, LifeInd, Of
<1>11. Fit(p, own[p], live[p], conn[p], man[p], rec[p], heal[p], up[p], p \in stopped)'
  BY <1>4, <1>5, <1>7, <1>8, LifecycleConstants
  DEF OwnerIs, ConnIs, StopIs, HealIs, Fit, Cleaning, Held, LifeInd, Of
<1> QED BY <1>3, <1>9, <1>10, <1>11, Kept

\* The end of a cleanup: a connect that waited behind it goes on, or is broken.
LEMMA StopEndsIs ==
  ASSUME NEW p \in Procs, LifeInd, NEW ok \in BOOLEAN, StopEnds(p, ok), UNCHANGED heal
  PROVE  /\ TasksMove(p) /\ StopIs(man'[p], "idle", NoContext, NoToken, 0)
         /\ ConnIs(conn'[p], conn'[p].pc, conn[p].seen, conn[p].new, FALSE)
         /\ conn'[p].pc = conn[p].pc \/ (conn[p].behind /\ conn'[p].pc = "broken")
         /\ ~ conn[p].behind => conn'[p] = conn[p]
<1> DEFINE a == IF ok THEN conn[p].pc ELSE "broken"
<1>1. conn[p] \in Connects BY TypesNow
<1>2. a \in {"idle", "start", "broken", "probe", "probed", "read", "join", "claim", "won", "lost", "refund"}
  BY <1>1 DEF Connects
<1>3. a = conn[p].pc \/ a = "broken" OBVIOUS
<1>4. TasksMove(p) BY DEF StopEnds, TasksMove, LifeInd, TypeOK
<1>5. man'[p] = NoStop BY DEF StopEnds, LifeInd, TypeOK
<1>6. CASE conn[p].behind
  <2>1. conn'[p] = [conn[p] EXCEPT !.behind = FALSE, !.pc = a]
    <3>1. CASE ok
      <4>1. [conn[p] EXCEPT !.behind = FALSE, !.pc = conn[p].pc] = [conn[p] EXCEPT !.behind = FALSE]
        BY <1>1 DEF Connects
      <4> QED BY <1>6, <3>1, <4>1 DEF StopEnds, LifeInd, TypeOK
    <3>2. CASE ~ ok BY <1>6, <3>2 DEF StopEnds, LifeInd, TypeOK
    <3> QED BY <3>1, <3>2
  <2> HIDE DEF a
  <2>2. ConnIs(conn'[p], a, conn[p].seen, conn[p].new, FALSE)
    BY <1>1, <1>2, <2>1, ConnSettled
  <2> QED BY <1>3, <1>4, <1>5, <1>6, <2>2, StopNone DEF ConnIs
<1>7. CASE ~ conn[p].behind
  <2>1. conn'[p] = conn[p] BY <1>7 DEF StopEnds, LifeInd, TypeOK
  <2>2. conn[p].behind = FALSE BY <1>1, <1>7 DEF Connects
  <2>3. ConnIs(conn'[p], conn'[p].pc, conn[p].seen, conn[p].new, FALSE)
    BY <1>1, <2>1, <2>2 DEF ConnIs
  <2> QED BY <1>4, <1>5, <2>1, <2>3, StopNone
<1> QED BY <1>6, <1>7

\* The end of a recovery.
LEMMA HealEndsIs ==
  ASSUME NEW p \in Procs, LifeInd, NEW r \in Owners, HealEnds(p, r)
  PROVE  /\ own' = [own EXCEPT ![p] = own'[p]] /\ heal' = [heal EXCEPT ![p] = heal'[p]]
         /\ OwnerIs(own'[p], r.id, r.tok, r.pending, r.manual, r.epoch)
         /\ HealIs(heal'[p], "idle", NoToken)
<1>1. own' = [own EXCEPT ![p] = own'[p]] /\ heal' = [heal EXCEPT ![p] = heal'[p]] /\ heal'[p] = NoHeal
  BY DEF HealEnds, SetOwn, LifeInd, TypeOK
<1>2. own'[p] = r \/ own'[p] = [r EXCEPT !.recovering = FALSE]
  BY DEF HealEnds, SetOwn, LifeInd, TypeOK
<1>3. OwnerIs(r, r.id, r.tok, r.pending, r.manual, r.epoch)
  BY OwnerItself
<1>4. OwnerIs([r EXCEPT !.recovering = FALSE], r.id, r.tok, r.pending, r.manual, r.epoch)
  BY OwnerRecover
<1>5. OwnerIs(own'[p], r.id, r.tok, r.pending, r.manual, r.epoch)
  BY <1>2, <1>3, <1>4
<1> QED BY <1>1, <1>5, HealNone

\* cancel, of an owner.
LEMMA CancelIs ==
  ASSUME NEW r \in Owners, NEW e \in 0 .. MaxStops, e = r.epoch + 1
  PROVE  OwnerIs(Cancelled(r), r.id, r.tok, r.pending, TRUE, e)
<1>1. Cancelled(r) = [r EXCEPT !.epoch = e, !.manual = TRUE, !.suspended = FALSE, !.timer = FALSE]
  BY DEF Cancelled
<1>2. OwnerIs([r EXCEPT !.epoch = e, !.manual = TRUE, !.suspended = FALSE, !.timer = FALSE],
              r.id, r.tok, r.pending, TRUE, e)
  BY OwnerCancel
<1> QED BY <1>1, <1>2

\* A stop by hand of the record r: it is cancelled, and a cleanup begins unless
\* one is under way.
Stopped(p, r) ==
  /\ own' = [own EXCEPT ![p] = own'[p]] /\ man' = [man EXCEPT ![p] = man'[p]]
  /\ OwnerIs(own'[p], r.id, r.tok, r.pending, TRUE, r.epoch + 1)
  /\ Cleaning(man[p]) => man'[p] = man[p]
  /\ ~ Cleaning(man[p]) =>
       /\ StopIs(man'[p], man'[p].pc, man'[p].ctx, NoToken, 0)
       /\ man'[p].pc = IF conn[p].pc = "idle" THEN "read" ELSE "wait"
       /\ man'[p].ctx.id = r.id /\ man'[p].ctx.tok = r.tok

\* What stopOwner does is that.
LEMMA StopOwnerIs ==
  ASSUME NEW p \in Procs, LifeInd, NEW r \in Owners, r.epoch < MaxStops, NEW b \in BOOLEAN,
         StopOwner(p, r, b)
  PROVE  Stopped(p, r)
<1> DEFINE c == [id |-> r.id, tok |-> r.tok, epoch |-> 0, stopped |-> TRUE]
           a == IF conn[p].pc = "idle" THEN "read" ELSE "wait"
           e == r.epoch + 1
<1>1. own' = [own EXCEPT ![p] = own'[p]] /\ man' = [man EXCEPT ![p] = man'[p]]
  BY DEF StopOwner, SetOwn, LifeInd, TypeOK
<1>2. own'[p] = Cancelled(r)
  BY DEF StopOwner, SetOwn, LifeInd, TypeOK
<1>3. e \in 0 .. MaxStops
  BY LifecycleConstants DEF Owners
<1>4. c \in Contexts /\ c.id = r.id /\ c.tok = r.tok
  <2>1. r.id \in Ids /\ r.tok \in Owned BY DEF Owners
  <2> QED BY <2>1, LifecycleConstants DEF Contexts
<1>5. a \in {"read", "wait"} OBVIOUS
<1>6. a = IF conn[p].pc = "idle" THEN "read" ELSE "wait" OBVIOUS
<1>7. Cleaning(man[p]) => man'[p] = man[p] BY DEF StopOwner, Cleaning, LifeInd, TypeOK
<1>8. ~ Cleaning(man[p]) => man'[p] = [NoStop EXCEPT !.pc = a, !.ctx = c, !.remove = b]
  BY DEF StopOwner, Cleaning, LifeInd, TypeOK
<1>9. e = r.epoch + 1 OBVIOUS
<1> HIDE DEF c, a, e
<1>10. OwnerIs(own'[p], r.id, r.tok, r.pending, TRUE, e)
  <2>1. OwnerIs(Cancelled(r), r.id, r.tok, r.pending, TRUE, e)
    BY <1>3, <1>9, CancelIs
  <2> QED BY <1>2, <2>1
<1>11. ~ Cleaning(man[p]) => StopIs(man'[p], a, c, NoToken, 0)
  <2>1. c \in Contexts BY <1>4
  <2>2. StopIs([NoStop EXCEPT !.pc = a, !.ctx = c, !.remove = b], a, c, NoToken, 0)
    BY <1>5, <2>1, StopStart
  <2> QED BY <1>8, <2>2
<1>12. ~ Cleaning(man[p]) => man'[p].pc = a /\ man'[p].ctx = c BY <1>11 DEF StopIs
<1> QED BY <1>1, <1>4, <1>6, <1>7, <1>9, <1>10, <1>11, <1>12 DEF Stopped

\* A connect task ends and leaves the record own'[p].
LEMMA EndsKeeps ==
  ASSUME NEW p \in Procs, LifeInd, NEW f \in BOOLEAN, ConnEnds(p, f), conn[p].pc # "idle", OwnMoves(p),
         UNCHANGED <<lock, by, stopped, stops>>, up'[p] = up[p], faults' \in 0 .. MaxFaults, RowInv',
         own'[p] \in Owners, Known(own'[p].id), Known(own'[p].tok),
         \A t \in own'[p].pending : Known(t), own'[p].epoch <= own[p].epoch,
         man[p].pc = "clean" => own'[p].pending = {},
         Cleaning(man[p]) => own'[p].id # NoToken /\ (own'[p].id = man[p].ctx.id => own'[p].manual),
         live'[p] \in BOOLEAN, rec'[p] \in [pc: {"idle", "begin", "write"}, id: Ids],
         rec'[p].pc = "write" => rec[p].pc = "write"
  PROVE  LifeInd'
<1>2. RestMoves(p) BY LifecycleConstants DEF RestMoves, LifeInd, TypeOK
<1>1. TasksMove(p) BY ConnEndsIs
<1>3. Moves(p) BY <1>1, <1>2 DEF Moves
<1>4. Held(p) BY <1>3, HeldNow
<1>5. /\ ConnIs(conn'[p], "idle", NoToken, NoToken, FALSE)
      /\ HealIs(heal'[p], heal'[p].pc, heal[p].seen) /\ (heal[p].pc = "idle" => heal'[p].pc = "idle")
      /\ StopIs(man'[p], man'[p].pc, man[p].ctx, man[p].seen, man[p].tries)
      /\ man'[p].pc = IF man[p].pc = "wait" THEN "read" ELSE man[p].pc
  BY ConnEndsIs
<1>6. by' = by /\ (p \in stopped' <=> p \in stopped) /\ lock' = lock /\ stops' = stops
  OBVIOUS
<1>7. p \notin stopped BY DEF LifeInd, Of, Fit
<1>8. own'[p].epoch \in Nat BY DEF Owners
<1>9. Typed(own[p], live[p], conn[p], man[p], rec[p], heal[p], up[p])'
  BY <1>4, <1>5 DEF ConnIs, StopIs, HealIs, Typed, Held
<1>10. KnownOnly(own[p], conn[p], man[p], heal[p], up[p])'
  BY <1>4, <1>5, <1>6, LifecycleConstants
  DEF ConnIs, StopIs, HealIs, KnownOnly, Known, Held, LifeInd, Of
<1>11. Fit(p, own[p], live[p], conn[p], man[p], rec[p], heal[p], up[p], p \in stopped)'
  BY <1>4, <1>5, <1>6, <1>7, <1>8, LifecycleConstants
  DEF ConnIs, StopIs, HealIs, Fit, Cleaning, Held, LifeInd, Of
<1> QED BY <1>3, <1>9, <1>10, <1>11, Kept

\* A connect task that ends and changes nothing of the owner keeps the invariant.
LEMMA EndsOnly ==
  ASSUME NEW p \in Procs, LifeInd, NEW f \in BOOLEAN, ConnEnds(p, f), conn[p].pc # "idle",
         UNCHANGED <<own, live, rec, up, lock, by, stopped, stops>>, faults' \in 0 .. MaxFaults, RowInv'
  PROVE  LifeInd'
<1>1. OwnMoves(p) BY DEF OwnMoves, LifeInd, TypeOK
<1>2. /\ own'[p] = own[p] /\ live'[p] = live[p] /\ rec'[p] = rec[p] /\ up'[p] = up[p]
      /\ own[p] \in Owners /\ live[p] \in BOOLEAN /\ rec[p] \in [pc: {"idle", "begin", "write"}, id: Ids]
  BY DEF LifeInd, TypeOK
<1>3. own[p].epoch <= own[p].epoch
  <2>1. own[p].epoch \in Nat BY <1>2 DEF Owners
  <2> QED BY <2>1
<1>4. KnownOnly(own[p], conn[p], man[p], heal[p], up[p]) BY DEF LifeInd, Of
<1>5. /\ man[p].pc = "clean" => own[p].pending = {}
      /\ Cleaning(man[p]) => own[p].id # NoToken /\ (own[p].id = man[p].ctx.id => own[p].manual)
  BY DEF LifeInd, Of, Fit
<1> QED BY <1>1, <1>2, <1>3, <1>4, <1>5, EndsKeeps DEF KnownOnly

\* The row keeps its types while it names a token that was made.
LEMMA RowKeeps ==
  ASSUME LifeInd, UNCHANGED by, db' = db \/ (db' \in Rows /\ db'.owner \in Owned /\ Known(db'.owner))
  PROVE  RowInv'
BY DEF LifeInd, RowInv, Known

\* probeStorage's verdict leaves the owner as it is but for its token.
LEMMA AdoptsIs ==
  ASSUME NEW p \in Procs, LifeInd, NEW x \in Owned, Adopts(p, x), UNCHANGED <<rec, up>>
  PROVE  /\ OwnMoves(p) /\ live'[p] \in BOOLEAN
         /\ \/ OwnerIs(own'[p], own[p].id, own[p].tok, {}, own[p].manual, own[p].epoch)
            \/ OwnerIs(own'[p], own[p].id, x, {}, own[p].manual, own[p].epoch)
<1>1. own[p] \in Owners BY TypesNow
<1>2. CASE SetOwn(p, [own[p] EXCEPT !.tok = x, !.pending = {}]) /\ UNCHANGED live
  <2>1. OwnMoves(p) /\ live'[p] \in BOOLEAN BY <1>2 DEF SetOwn, OwnMoves, LifeInd, TypeOK
  <2>2. own'[p] = [own[p] EXCEPT !.tok = x, !.pending = {}] BY <1>2 DEF SetOwn, LifeInd, TypeOK
  <2>3. OwnerIs(own'[p], own[p].id, x, {}, own[p].manual, own[p].epoch) BY <1>1, <2>2, OwnerAdopt
  <2> QED BY <2>1, <2>3
<1>3. CASE Retire(p)
  <2>1. OwnMoves(p) /\ live'[p] \in BOOLEAN BY <1>3 DEF Retire, SetOwn, OwnMoves, LifeInd, TypeOK
  <2>2. own'[p] = [own[p] EXCEPT !.retired = TRUE, !.pending = {}] BY <1>3 DEF Retire, SetOwn, LifeInd, TypeOK
  <2>3. OwnerIs(own'[p], own[p].id, own[p].tok, {}, own[p].manual, own[p].epoch) BY <1>1, <2>2, OwnerRetire
  <2> QED BY <2>1, <2>3
<1> QED BY <1>2, <1>3 DEF Adopts

\* Faults stay within their bound.
LEMMA FaultIs ==
  ASSUME LifeInd, Fault \/ UNCHANGED faults
  PROVE  faults' \in 0 .. MaxFaults
BY LifecycleConstants DEF Fault, LifeInd, TypeOK

\* A cleanup ends, whatever its outcome.
LEMMA CleanupEndsKeeps ==
  ASSUME NEW p \in Procs, LifeInd, NEW ok \in BOOLEAN, StopEnds(p, ok), Cleaning(man[p]), OwnMoves(p),
         UNCHANGED <<lock, by, rec, heal, up, stops>>, faults' \in 0 .. MaxFaults, RowInv',
         stopped' = stopped \/ stopped' = stopped \cup {p},
         own'[p] \in Owners, own'[p].id = own[p].id, own'[p].tok = own[p].tok,
         own'[p].pending \subseteq own[p].pending, own'[p].manual = own[p].manual,
         own'[p].epoch = own[p].epoch, live'[p] \in BOOLEAN, live'[p] => live[p],
         p \in stopped' => \/ p \in stopped
                           \/ /\ own[p].manual /\ own[p].id # NoToken /\ ~ live'[p] /\ conn[p].pc = "idle"
                              /\ own[p].pending = {} /\ rec[p].pc # "write"
  PROVE  LifeInd'
<1>1. TasksMove(p) BY StopEndsIs
<1>2. RestMoves(p) BY LifecycleConstants DEF RestMoves, LifeInd, TypeOK
<1>3. Moves(p) BY <1>1, <1>2 DEF Moves
<1>4. Held(p) BY <1>3, HeldNow
<1>5. /\ StopIs(man'[p], "idle", NoContext, NoToken, 0)
      /\ ConnIs(conn'[p], conn'[p].pc, conn[p].seen, conn[p].new, FALSE)
      /\ conn'[p].pc = conn[p].pc \/ (conn[p].behind /\ conn'[p].pc = "broken")
  BY StopEndsIs
<1>6. rec'[p] = rec[p] /\ heal'[p] = heal[p] /\ up'[p] = up[p] /\ by' = by /\ lock' = lock /\ stops' = stops
  OBVIOUS
<1>7. up[p].pc = "up" BY DEF LifeInd, Of, Fit, Cleaning
<1>8. Typed(own[p], live[p], conn[p], man[p], rec[p], heal[p], up[p])'
  BY <1>4, <1>5, <1>6 DEF ConnIs, StopIs, Typed, Held
<1>9. KnownOnly(own[p], conn[p], man[p], heal[p], up[p])'
  BY <1>4, <1>5, <1>6, LifecycleConstants DEF ConnIs, StopIs, KnownOnly, Known, Held, LifeInd, Of, NoContext
<1>10. conn[p].pc = "idle" => conn'[p].pc = "idle"
  BY <1>5 DEF LifeInd, Of, Fit
<1>11. p \in stopped => /\ own[p].manual /\ own[p].id # NoToken /\ ~ live[p] /\ conn[p].pc = "idle"
                        /\ own[p].pending = {} /\ rec[p].pc # "write"
  BY DEF LifeInd, Of, Fit
<1>12. Fit(p, own[p], live[p], conn[p], man[p], rec[p], heal[p], up[p], FALSE)'
  BY <1>4, <1>5, <1>6, <1>7, LifecycleConstants
  DEF ConnIs, StopIs, Fit, Cleaning, Held, LifeInd, Of
<1>13. p \in stopped' => /\ own'[p].manual /\ own'[p].id # NoToken /\ ~ live'[p] /\ conn'[p].pc = "idle"
                         /\ own'[p].pending = {} /\ rec'[p].pc # "write" /\ man'[p].pc = "idle"
  BY <1>5, <1>6, <1>10, <1>11 DEF StopIs
<1>14. Fit(p, own[p], live[p], conn[p], man[p], rec[p], heal[p], up[p], p \in stopped)'
  BY <1>6, <1>7, <1>12, <1>13 DEF Fit
<1> QED BY <1>3, <1>8, <1>9, <1>14, Kept

\* A cleanup that ends and changes nothing else.
LEMMA CleanupOnly ==
  ASSUME NEW p \in Procs, LifeInd, NEW ok \in BOOLEAN, StopEnds(p, ok), Cleaning(man[p]),
         UNCHANGED <<own, live, db, lock, by, rec, heal, up, stopped, stops>>, faults' \in 0 .. MaxFaults
  PROVE  LifeInd'
<1>1. OwnMoves(p) BY DEF OwnMoves, LifeInd, TypeOK
<1>2. own'[p] = own[p] /\ live'[p] = live[p] /\ own[p] \in Owners /\ live[p] \in BOOLEAN /\ stopped' = stopped
  BY DEF LifeInd, TypeOK
<1>3. RowInv' BY RowKeeps
<1> QED BY <1>1, <1>2, <1>3, CleanupEndsKeeps

\* The types of the stop of p.
LEMMA ManualTypes ==
  ASSUME NEW p \in Procs, LifeInd
  PROVE  /\ man[p].tries \in 0 .. 2 /\ man[p].ctx \in Contexts /\ man[p].ctx.tok \in Owned
         /\ Known(man[p].ctx.tok) /\ Known(man[p].seen) /\ own[p].epoch \in Nat
         /\ stops \in Nat /\ MaxStops \in Nat /\ own[p].epoch <= stops /\ stops <= MaxStops
         /\ (man[p].pc = "adopt" => own[p].epoch + 1 <= stops)
<1>1. man[p] \in Stops /\ own[p] \in Owners /\ stops \in 0 .. MaxStops BY DEF LifeInd, TypeOK
<1>2. man[p].ctx \in Contexts /\ man[p].tries \in 0 .. 2 /\ own[p].epoch \in 0 .. MaxStops
  BY <1>1 DEF Stops, Owners
<1>3. man[p].ctx.tok \in Owned BY <1>2 DEF Contexts
<1>4. Known(man[p].ctx.tok) /\ Known(man[p].seen) BY DEF LifeInd, Of, KnownOnly
<1>5. own[p].epoch + (IF man[p].pc = "adopt" THEN 1 ELSE 0) <= stops BY DEF LifeInd, Of, Fit
<1> QED BY <1>1, <1>2, <1>3, <1>4, <1>5, LifecycleConstants

\* Every action keeps the invariant: List.
LEMMA ListInd ==
  ASSUME NEW p \in Procs, LifeInd, List(p)
  PROVE  LifeInd'
<1>1. OwnMoves(p)
  BY TypesNow, LifecycleConstants DEF List, tasks, LifeInd, TypeOK, OwnMoves
<1>2. TasksMove(p)
  BY TypesNow, LifecycleConstants DEF List, tasks, LifeInd, TypeOK, TasksMove
<1>3. RestMoves(p)
  BY TypesNow, LifecycleConstants DEF List, tasks, LifeInd, TypeOK, RestMoves
<1>4. Moves(p)
  BY <1>1, <1>2, <1>3 DEF Moves
<1>5. Held(p)
  BY <1>4, HeldNow
<1>6. /\ own'[p] = own[p] /\ live'[p] = live[p] /\ conn'[p] = conn[p] /\ man'[p] = man[p]
      /\ rec'[p] = rec[p] /\ heal'[p] = heal[p] /\ up'[p] = [pc |-> "listed", row |-> db]
      /\ db' = db /\ by' = by /\ (p \in stopped' <=> p \in stopped) /\ lock' = lock
      /\ stops' = stops /\ up[p].pc = "down"
  BY TypesNow DEF List, tasks, LifeInd, TypeOK
<1>7. Typed(own[p], live[p], conn[p], man[p], rec[p], heal[p], up[p])'
  BY <1>6, <1>5 DEF OwnerIs, ConnIs, StopIs, HealIs, Typed, Held
<1>8. KnownOnly(own[p], conn[p], man[p], heal[p], up[p])'
  BY <1>6, <1>5, LifecycleConstants DEF OwnerIs, ConnIs, StopIs, HealIs, KnownOnly, Known, Held, LifeInd, RowInv, Of
<1>9. RowInv'
  BY <1>6, <1>5, LifecycleConstants DEF OwnerIs, ConnIs, StopIs, HealIs, RowInv, Known, KnownOnly, LifeInd, Of
<1>10. Fit(p, own[p], live[p], conn[p], man[p], rec[p], heal[p], up[p], p \in stopped)'
  BY <1>6, <1>5, LifecycleConstants DEF OwnerIs, ConnIs, StopIs, HealIs, Fit, Cleaning, Held, LifeInd, Of
<1> QED BY <1>4, <1>7, <1>8, <1>9, <1>10, Kept

\* Open.
LEMMA OpenInd ==
  ASSUME NEW p \in Procs, LifeInd, Open(p)
  PROVE  LifeInd'
<1>1. OwnMoves(p)
  BY TypesNow, LifecycleConstants DEF Open, tasks, LifeInd, TypeOK, Heard, Unlocked, OwnMoves
<1>2. TasksMove(p)
  BY TypesNow, LifecycleConstants DEF Open, tasks, LifeInd, TypeOK, Heard, Unlocked, TasksMove
<1>3. RestMoves(p)
  BY TypesNow, LifecycleConstants DEF Open, tasks, LifeInd, TypeOK, Heard, Unlocked, RestMoves
<1>4. Moves(p)
  BY <1>1, <1>2, <1>3 DEF Moves
<1>5. Held(p)
  BY <1>4, HeldNow
<1>6. /\ own'[p] = own[p] /\ live'[p] = live[p] /\ conn'[p] = conn[p] /\ man'[p] = man[p]
      /\ rec'[p] = rec[p] /\ heal'[p] = heal[p] /\ up'[p] = up[p]
      /\ db' = [db EXCEPT !.status = "open"] /\ by' = by
      /\ (p \in stopped' <=> p \in stopped) /\ lock' = lock /\ stops' = stops
  BY TypesNow DEF Open, tasks, LifeInd, TypeOK, Heard, Unlocked
<1>7. db \in Rows
  BY <1>5 DEF Held
<1>8. db' = [db EXCEPT !.status = "open"]
  BY <1>6
<1>9. db' \in Rows /\ db'.owner = db.owner
  BY <1>8, <1>7, RowEdit
<1>10. Typed(own[p], live[p], conn[p], man[p], rec[p], heal[p], up[p])'
  BY <1>6, <1>9, <1>5 DEF OwnerIs, ConnIs, StopIs, HealIs, Typed, Held
<1>11. KnownOnly(own[p], conn[p], man[p], heal[p], up[p])'
  BY <1>6, <1>9, <1>5, LifecycleConstants DEF OwnerIs, ConnIs, StopIs, HealIs, KnownOnly, Known, Held, LifeInd, RowInv, Of
<1>12. RowInv'
  BY <1>6, <1>9, <1>5, LifecycleConstants DEF OwnerIs, ConnIs, StopIs, HealIs, RowInv, Known, KnownOnly, LifeInd, Of
<1>13. Fit(p, own[p], live[p], conn[p], man[p], rec[p], heal[p], up[p], p \in stopped)'
  BY <1>6, <1>9, <1>5, LifecycleConstants DEF OwnerIs, ConnIs, StopIs, HealIs, Fit, Cleaning, Held, LifeInd, Of
<1> QED BY <1>4, <1>10, <1>11, <1>12, <1>13, Kept

\* SocketCloses.
LEMMA SocketClosesInd ==
  ASSUME NEW p \in Procs, LifeInd, SocketCloses(p)
  PROVE  LifeInd'
<1>1. OwnMoves(p)
  BY TypesNow, LifecycleConstants DEF SocketCloses, tasks, LifeInd, TypeOK, Heard, Fault, SetOwn, OwnMoves
<1>2. TasksMove(p)
  BY TypesNow, LifecycleConstants DEF SocketCloses, tasks, LifeInd, TypeOK, Heard, Fault, SetOwn, TasksMove
<1>3. RestMoves(p)
  BY TypesNow, LifecycleConstants DEF SocketCloses, tasks, LifeInd, TypeOK, Heard, Fault, SetOwn, RestMoves
<1>4. Moves(p)
  BY <1>1, <1>2, <1>3 DEF Moves
<1>5. Held(p)
  BY <1>4, HeldNow
<1>6. /\ own'[p] = [own[p] EXCEPT !.timer = TRUE] /\ live'[p] = FALSE /\ conn'[p] = conn[p]
      /\ man'[p] = man[p] /\ rec'[p] = rec[p] /\ heal'[p] = heal[p] /\ up'[p] = up[p]
      /\ db' = db /\ by' = by /\ (p \in stopped' <=> p \in stopped) /\ lock' = lock
      /\ stops' = stops
  BY TypesNow DEF SocketCloses, tasks, LifeInd, TypeOK, Heard, Fault, SetOwn
<1>7. own[p] \in Owners /\ own[p].tok \in Owned /\ own[p].id \in Ids /\ own[p].pending \in SUBSET Tokens
  BY <1>5 DEF Held
<1>8. own'[p] = [own[p] EXCEPT !.timer = TRUE]
  BY <1>6
<1>9. OwnerIs(own'[p], own[p].id, own[p].tok, own[p].pending, own[p].manual, own[p].epoch)
  BY <1>8, <1>7, OwnerTimer
<1>10. Typed(own[p], live[p], conn[p], man[p], rec[p], heal[p], up[p])'
  BY <1>6, <1>9, <1>5 DEF OwnerIs, ConnIs, StopIs, HealIs, Typed, Held
<1>11. KnownOnly(own[p], conn[p], man[p], heal[p], up[p])'
  BY <1>6, <1>9, <1>5, LifecycleConstants DEF OwnerIs, ConnIs, StopIs, HealIs, KnownOnly, Known, Held, LifeInd, RowInv, Of
<1>12. RowInv'
  BY <1>6, <1>9, <1>5, LifecycleConstants DEF OwnerIs, ConnIs, StopIs, HealIs, RowInv, Known, KnownOnly, LifeInd, Of
<1>13. Fit(p, own[p], live[p], conn[p], man[p], rec[p], heal[p], up[p], p \in stopped)'
  BY <1>6, <1>9, <1>5, LifecycleConstants DEF OwnerIs, ConnIs, StopIs, HealIs, Fit, Cleaning, Held, LifeInd, Of
<1> QED BY <1>4, <1>10, <1>11, <1>12, <1>13, Kept

\* Reconnect.
LEMMA ReconnectInd ==
  ASSUME NEW p \in Procs, LifeInd, Reconnect(p)
  PROVE  LifeInd'
<1>1. CASE ConnectCheck(p, Capture(p, FALSE)) /\ conn[p].pc = "idle"
  <2>1. OwnMoves(p)
    BY <1>1, TypesNow, LifecycleConstants, CaptureType, BeginIs DEF Reconnect, tasks, LifeInd, TypeOK, SetOwn, ConnectCheck, LifecycleCurrent, Running, OwnMoves
  <2>2. TasksMove(p)
    BY <1>1, TypesNow, LifecycleConstants, CaptureType, BeginIs DEF Reconnect, tasks, LifeInd, TypeOK, SetOwn, ConnectCheck, LifecycleCurrent, Running, TasksMove
  <2>3. RestMoves(p)
    BY <1>1, TypesNow, LifecycleConstants, CaptureType, BeginIs DEF Reconnect, tasks, LifeInd, TypeOK, SetOwn, ConnectCheck, LifecycleCurrent, Running, RestMoves
  <2>4. Moves(p)
    BY <2>1, <2>2, <2>3 DEF Moves
  <2>5. Held(p)
    BY <2>4, HeldNow
  <2>6. /\ own'[p] = [own[p] EXCEPT !.timer = FALSE] /\ live'[p] = live[p]
        /\ /\ conn'[p] \in Connects /\ conn'[p].pc = "start" /\ conn'[p].seen = NoToken /\ conn'[p].new = NoToken /\ (conn'[p].behind <=> Cleaning(man[p]))
        /\ man'[p] = man[p] /\ rec'[p] = rec[p] /\ heal'[p] = heal[p] /\ up'[p] = up[p]
        /\ db' = db /\ by' = by /\ (p \in stopped' <=> p \in stopped) /\ lock' = lock
        /\ stops' = stops /\ conn[p].pc = "idle" /\ ~ own[p].manual /\ up[p].pc = "up"
    BY <1>1, TypesNow, CaptureType, BeginIs DEF Reconnect, tasks, LifeInd, TypeOK, SetOwn, ConnectCheck, LifecycleCurrent, Running
  <2>7. own[p] \in Owners /\ own[p].tok \in Owned /\ own[p].id \in Ids /\ own[p].pending \in SUBSET Tokens
    BY <2>5 DEF Held
  <2>8. own'[p] = [own[p] EXCEPT !.timer = FALSE]
    BY <2>6
  <2>9. OwnerIs(own'[p], own[p].id, own[p].tok, own[p].pending, own[p].manual, own[p].epoch)
    BY <2>8, <2>7, OwnerTimer
  <2>10. Typed(own[p], live[p], conn[p], man[p], rec[p], heal[p], up[p])'
    BY <2>6, <2>9, <2>5 DEF OwnerIs, ConnIs, StopIs, HealIs, Typed, Held
  <2>11. KnownOnly(own[p], conn[p], man[p], heal[p], up[p])'
    BY <2>6, <2>9, <2>5, LifecycleConstants DEF OwnerIs, ConnIs, StopIs, HealIs, KnownOnly, Known, Held, LifeInd, RowInv, Of
  <2>12. RowInv'
    BY <2>6, <2>9, <2>5, LifecycleConstants DEF OwnerIs, ConnIs, StopIs, HealIs, RowInv, Known, KnownOnly, LifeInd, Of
  <2>13. Fit(p, own[p], live[p], conn[p], man[p], rec[p], heal[p], up[p], p \in stopped)'
    BY <2>6, <2>9, <2>5, LifecycleConstants DEF OwnerIs, ConnIs, StopIs, HealIs, Fit, Cleaning, Held, LifeInd, Of
  <2> QED BY <2>4, <2>10, <2>11, <2>12, <2>13, Kept
<1>2. CASE ~ (ConnectCheck(p, Capture(p, FALSE)) /\ conn[p].pc = "idle")
  <2>1. OwnMoves(p)
    BY <1>2, TypesNow, LifecycleConstants DEF Reconnect, tasks, LifeInd, TypeOK, SetOwn, ConnectCheck, LifecycleCurrent, Running, OwnMoves
  <2>2. TasksMove(p)
    BY <1>2, TypesNow, LifecycleConstants DEF Reconnect, tasks, LifeInd, TypeOK, SetOwn, ConnectCheck, LifecycleCurrent, Running, TasksMove
  <2>3. RestMoves(p)
    BY <1>2, TypesNow, LifecycleConstants DEF Reconnect, tasks, LifeInd, TypeOK, SetOwn, ConnectCheck, LifecycleCurrent, Running, RestMoves
  <2>4. Moves(p)
    BY <2>1, <2>2, <2>3 DEF Moves
  <2>5. Held(p)
    BY <2>4, HeldNow
  <2>6. /\ own'[p] = [own[p] EXCEPT !.timer = FALSE] /\ live'[p] = live[p]
        /\ conn'[p] = conn[p] /\ man'[p] = man[p] /\ rec'[p] = rec[p] /\ heal'[p] = heal[p]
        /\ up'[p] = up[p] /\ db' = db /\ by' = by /\ (p \in stopped' <=> p \in stopped)
        /\ lock' = lock /\ stops' = stops
    BY <1>2, TypesNow DEF Reconnect, tasks, LifeInd, TypeOK, SetOwn, ConnectCheck, LifecycleCurrent, Running
  <2>7. own[p] \in Owners /\ own[p].tok \in Owned /\ own[p].id \in Ids /\ own[p].pending \in SUBSET Tokens
    BY <2>5 DEF Held
  <2>8. own'[p] = [own[p] EXCEPT !.timer = FALSE]
    BY <2>6
  <2>9. OwnerIs(own'[p], own[p].id, own[p].tok, own[p].pending, own[p].manual, own[p].epoch)
    BY <2>8, <2>7, OwnerTimer
  <2>10. Typed(own[p], live[p], conn[p], man[p], rec[p], heal[p], up[p])'
    BY <2>6, <2>9, <2>5 DEF OwnerIs, ConnIs, StopIs, HealIs, Typed, Held
  <2>11. KnownOnly(own[p], conn[p], man[p], heal[p], up[p])'
    BY <2>6, <2>9, <2>5, LifecycleConstants DEF OwnerIs, ConnIs, StopIs, HealIs, KnownOnly, Known, Held, LifeInd, RowInv, Of
  <2>12. RowInv'
    BY <2>6, <2>9, <2>5, LifecycleConstants DEF OwnerIs, ConnIs, StopIs, HealIs, RowInv, Known, KnownOnly, LifeInd, Of
  <2>13. Fit(p, own[p], live[p], conn[p], man[p], rec[p], heal[p], up[p], p \in stopped)'
    BY <2>6, <2>9, <2>5, LifecycleConstants DEF OwnerIs, ConnIs, StopIs, HealIs, Fit, Cleaning, Held, LifeInd, Of
  <2> QED BY <2>4, <2>10, <2>11, <2>12, <2>13, Kept
<1> QED BY <1>1, <1>2, TypesNow DEF Reconnect, SetOwn, ConnectCheck, LifecycleCurrent, Running

\* Connect.
LEMMA ConnectInd ==
  ASSUME NEW p \in Procs, LifeInd, Connect(p)
  PROVE  LifeInd'
<1>1. OwnMoves(p)
  BY TypesNow, LifecycleConstants, CaptureType, BeginIs DEF Connect, tasks, LifeInd, TypeOK, Running, OwnMoves
<1>2. TasksMove(p)
  BY TypesNow, LifecycleConstants, CaptureType, BeginIs DEF Connect, tasks, LifeInd, TypeOK, Running, TasksMove
<1>3. RestMoves(p)
  BY TypesNow, LifecycleConstants, CaptureType, BeginIs DEF Connect, tasks, LifeInd, TypeOK, Running, RestMoves
<1>4. Moves(p)
  BY <1>1, <1>2, <1>3 DEF Moves
<1>5. Held(p)
  BY <1>4, HeldNow
<1>6. /\ own'[p] = own[p] /\ live'[p] = live[p]
      /\ /\ conn'[p] \in Connects /\ conn'[p].pc = "start" /\ conn'[p].seen = NoToken /\ conn'[p].new = NoToken /\ (conn'[p].behind <=> Cleaning(man[p]))
      /\ man'[p] = man[p] /\ rec'[p] = rec[p] /\ heal'[p] = heal[p] /\ up'[p] = up[p]
      /\ db' = db /\ by' = by /\ p \notin stopped' /\ lock' = lock /\ stops' = stops
      /\ conn[p].pc = "idle" /\ up[p].pc = "up"
  BY TypesNow, CaptureType, BeginIs DEF Connect, tasks, LifeInd, TypeOK, Running
<1>7. Typed(own[p], live[p], conn[p], man[p], rec[p], heal[p], up[p])'
  BY <1>6, <1>5 DEF OwnerIs, ConnIs, StopIs, HealIs, Typed, Held
<1>8. KnownOnly(own[p], conn[p], man[p], heal[p], up[p])'
  BY <1>6, <1>5, LifecycleConstants DEF OwnerIs, ConnIs, StopIs, HealIs, KnownOnly, Known, Held, LifeInd, RowInv, Of
<1>9. RowInv'
  BY <1>6, <1>5, LifecycleConstants DEF OwnerIs, ConnIs, StopIs, HealIs, RowInv, Known, KnownOnly, LifeInd, Of
<1>10. Fit(p, own[p], live[p], conn[p], man[p], rec[p], heal[p], up[p], p \in stopped)'
  BY <1>6, <1>5, LifecycleConstants DEF OwnerIs, ConnIs, StopIs, HealIs, Fit, Cleaning, Held, LifeInd, Of
<1> QED BY <1>4, <1>7, <1>8, <1>9, <1>10, Kept

\* GroupsSuspend.
LEMMA GroupsSuspendInd ==
  ASSUME NEW p \in Procs, LifeInd, GroupsSuspend(p)
  PROVE  LifeInd'
<1>1. OwnMoves(p)
  BY TypesNow, LifecycleConstants DEF GroupsSuspend, tasks, LifeInd, TypeOK, Heard, OwnsSocket, Fault, Suspend, SetOwn, OwnMoves
<1>2. TasksMove(p)
  BY TypesNow, LifecycleConstants DEF GroupsSuspend, tasks, LifeInd, TypeOK, Heard, OwnsSocket, Fault, Suspend, SetOwn, TasksMove
<1>3. RestMoves(p)
  BY TypesNow, LifecycleConstants DEF GroupsSuspend, tasks, LifeInd, TypeOK, Heard, OwnsSocket, Fault, Suspend, SetOwn, RestMoves
<1>4. Moves(p)
  BY <1>1, <1>2, <1>3 DEF Moves
<1>5. Held(p)
  BY <1>4, HeldNow
<1>6. /\ own'[p] = [own[p] EXCEPT !.suspended = TRUE] /\ live'[p] = FALSE
      /\ conn'[p] = conn[p] /\ man'[p] = man[p]
      /\ rec'[p] = [pc |-> "begin", id |-> own[p].id] /\ heal'[p] = heal[p] /\ up'[p] = up[p]
      /\ db' = db /\ by' = by /\ (p \in stopped' <=> p \in stopped) /\ lock' = lock
      /\ stops' = stops
  BY TypesNow DEF GroupsSuspend, tasks, LifeInd, TypeOK, Heard, OwnsSocket, Fault, Suspend, SetOwn
<1>7. own[p] \in Owners /\ own[p].tok \in Owned /\ own[p].id \in Ids /\ own[p].pending \in SUBSET Tokens
  BY <1>5 DEF Held
<1>8. own'[p] = [own[p] EXCEPT !.suspended = TRUE]
  BY <1>6
<1>9. OwnerIs(own'[p], own[p].id, own[p].tok, own[p].pending, own[p].manual, own[p].epoch)
  BY <1>8, <1>7, OwnerSuspend
<1>10. rec[p] \in [pc: {"idle", "begin", "write"}, id: Ids] /\ own[p].id \in Ids
  BY <1>5 DEF Held
<1>11. rec'[p] \in [pc: {"idle", "begin", "write"}, id: Ids] /\ rec'[p].pc = "begin"
  BY <1>6, <1>10
<1>12. Typed(own[p], live[p], conn[p], man[p], rec[p], heal[p], up[p])'
  BY <1>6, <1>9, <1>11, <1>5 DEF OwnerIs, ConnIs, StopIs, HealIs, Typed, Held
<1>13. KnownOnly(own[p], conn[p], man[p], heal[p], up[p])'
  BY <1>6, <1>9, <1>11, <1>5, LifecycleConstants DEF OwnerIs, ConnIs, StopIs, HealIs, KnownOnly, Known, Held, LifeInd, RowInv, Of
<1>14. RowInv'
  BY <1>6, <1>9, <1>11, <1>5, LifecycleConstants DEF OwnerIs, ConnIs, StopIs, HealIs, RowInv, Known, KnownOnly, LifeInd, Of
<1>15. Fit(p, own[p], live[p], conn[p], man[p], rec[p], heal[p], up[p], p \in stopped)'
  BY <1>6, <1>9, <1>11, <1>5, LifecycleConstants DEF OwnerIs, ConnIs, StopIs, HealIs, Fit, Cleaning, Held, LifeInd, Of
<1> QED BY <1>4, <1>12, <1>13, <1>14, <1>15, Kept

\* RecordBegin.
LEMMA RecordBeginInd ==
  ASSUME NEW p \in Procs, LifeInd, RecordBegin(p)
  PROVE  LifeInd'
<1>1. CASE OwnsSocket(p, rec[p].id) /\ db.owner = own[p].tok
  <2>1. OwnMoves(p)
    BY <1>1, TypesNow, LifecycleConstants DEF RecordBegin, tasks, LifeInd, TypeOK, Unlocked, OwnsSocket, OwnMoves
  <2>2. TasksMove(p)
    BY <1>1, TypesNow, LifecycleConstants DEF RecordBegin, tasks, LifeInd, TypeOK, Unlocked, OwnsSocket, TasksMove
  <2>3. RestMoves(p)
    BY <1>1, TypesNow, LifecycleConstants DEF RecordBegin, tasks, LifeInd, TypeOK, Unlocked, OwnsSocket, RestMoves
  <2>4. Moves(p)
    BY <2>1, <2>2, <2>3 DEF Moves
  <2>5. Held(p)
    BY <2>4, HeldNow
  <2>6. /\ own'[p] = own[p] /\ live'[p] = live[p] /\ conn'[p] = conn[p] /\ man'[p] = man[p]
        /\ rec'[p] = [rec[p] EXCEPT !.pc = "write"] /\ heal'[p] = heal[p] /\ up'[p] = up[p]
        /\ db' = db /\ by' = by /\ (p \in stopped' <=> p \in stopped) /\ lock' = p
        /\ stops' = stops /\ ~ own[p].manual
    BY <1>1, TypesNow DEF RecordBegin, tasks, LifeInd, TypeOK, Unlocked, OwnsSocket
  <2>7. rec[p] \in [pc: {"idle", "begin", "write"}, id: Ids] /\ own[p].id \in Ids
    BY <2>5 DEF Held
  <2>8. rec'[p] \in [pc: {"idle", "begin", "write"}, id: Ids] /\ rec'[p].pc = "write"
    BY <2>6, <2>7
  <2>9. Typed(own[p], live[p], conn[p], man[p], rec[p], heal[p], up[p])'
    BY <2>6, <2>8, <2>5 DEF OwnerIs, ConnIs, StopIs, HealIs, Typed, Held
  <2>10. KnownOnly(own[p], conn[p], man[p], heal[p], up[p])'
    BY <2>6, <2>8, <2>5, LifecycleConstants DEF OwnerIs, ConnIs, StopIs, HealIs, KnownOnly, Known, Held, LifeInd, RowInv, Of
  <2>11. RowInv'
    BY <2>6, <2>8, <2>5, LifecycleConstants DEF OwnerIs, ConnIs, StopIs, HealIs, RowInv, Known, KnownOnly, LifeInd, Of
  <2>12. Fit(p, own[p], live[p], conn[p], man[p], rec[p], heal[p], up[p], p \in stopped)'
    BY <2>6, <2>8, <2>5, LifecycleConstants DEF OwnerIs, ConnIs, StopIs, HealIs, Fit, Cleaning, Held, LifeInd, Of
  <2> QED BY <2>4, <2>9, <2>10, <2>11, <2>12, Kept
<1>2. CASE ~ (OwnsSocket(p, rec[p].id) /\ db.owner = own[p].tok)
  <2>1. OwnMoves(p)
    BY <1>2, TypesNow, LifecycleConstants DEF RecordBegin, tasks, LifeInd, TypeOK, Unlocked, OwnsSocket, OwnMoves
  <2>2. TasksMove(p)
    BY <1>2, TypesNow, LifecycleConstants DEF RecordBegin, tasks, LifeInd, TypeOK, Unlocked, OwnsSocket, TasksMove
  <2>3. RestMoves(p)
    BY <1>2, TypesNow, LifecycleConstants DEF RecordBegin, tasks, LifeInd, TypeOK, Unlocked, OwnsSocket, RestMoves
  <2>4. Moves(p)
    BY <2>1, <2>2, <2>3 DEF Moves
  <2>5. Held(p)
    BY <2>4, HeldNow
  <2>6. /\ own'[p] = own[p] /\ live'[p] = live[p] /\ conn'[p] = conn[p] /\ man'[p] = man[p]
        /\ rec'[p] = [rec[p] EXCEPT !.pc = "idle"] /\ heal'[p] = heal[p] /\ up'[p] = up[p]
        /\ db' = db /\ by' = by /\ (p \in stopped' <=> p \in stopped) /\ lock' = lock
        /\ stops' = stops
    BY <1>2, TypesNow DEF RecordBegin, tasks, LifeInd, TypeOK, Unlocked, OwnsSocket
  <2>7. rec[p] \in [pc: {"idle", "begin", "write"}, id: Ids] /\ own[p].id \in Ids
    BY <2>5 DEF Held
  <2>8. rec'[p] \in [pc: {"idle", "begin", "write"}, id: Ids] /\ rec'[p].pc = "idle"
    BY <2>6, <2>7
  <2>9. Typed(own[p], live[p], conn[p], man[p], rec[p], heal[p], up[p])'
    BY <2>6, <2>8, <2>5 DEF OwnerIs, ConnIs, StopIs, HealIs, Typed, Held
  <2>10. KnownOnly(own[p], conn[p], man[p], heal[p], up[p])'
    BY <2>6, <2>8, <2>5, LifecycleConstants DEF OwnerIs, ConnIs, StopIs, HealIs, KnownOnly, Known, Held, LifeInd, RowInv, Of
  <2>11. RowInv'
    BY <2>6, <2>8, <2>5, LifecycleConstants DEF OwnerIs, ConnIs, StopIs, HealIs, RowInv, Known, KnownOnly, LifeInd, Of
  <2>12. Fit(p, own[p], live[p], conn[p], man[p], rec[p], heal[p], up[p], p \in stopped)'
    BY <2>6, <2>8, <2>5, LifecycleConstants DEF OwnerIs, ConnIs, StopIs, HealIs, Fit, Cleaning, Held, LifeInd, Of
  <2> QED BY <2>4, <2>9, <2>10, <2>11, <2>12, Kept
<1> QED BY <1>1, <1>2, TypesNow DEF RecordBegin, Unlocked, OwnsSocket

\* RecordWrite.
LEMMA RecordWriteInd ==
  ASSUME NEW p \in Procs, LifeInd, RecordWrite(p)
  PROVE  LifeInd'
<1>1. OwnMoves(p)
  BY TypesNow, LifecycleConstants DEF RecordWrite, tasks, LifeInd, TypeOK, Of, Fit, Fault, OwnMoves
<1>2. TasksMove(p)
  BY TypesNow, LifecycleConstants DEF RecordWrite, tasks, LifeInd, TypeOK, Of, Fit, Fault, TasksMove
<1>3. RestMoves(p)
  BY TypesNow, LifecycleConstants DEF RecordWrite, tasks, LifeInd, TypeOK, Of, Fit, Fault, RestMoves
<1>4. Moves(p)
  BY <1>1, <1>2, <1>3 DEF Moves
<1>5. Held(p)
  BY <1>4, HeldNow
<1>6. /\ own'[p] = own[p] /\ live'[p] = live[p] /\ conn'[p] = conn[p] /\ man'[p] = man[p]
      /\ rec'[p] = [rec[p] EXCEPT !.pc = "idle"] /\ heal'[p] = heal[p] /\ up'[p] = up[p]
      /\ db' \in {db, [db EXCEPT !.status = "connecting", !.why = "suspended"]} /\ by' = by
      /\ (p \in stopped' <=> p \in stopped) /\ lock' = NoProc /\ stops' = stops
  BY TypesNow DEF RecordWrite, tasks, LifeInd, TypeOK, Fault
<1>7. rec[p] \in [pc: {"idle", "begin", "write"}, id: Ids] /\ own[p].id \in Ids
  BY <1>5 DEF Held
<1>8. rec'[p] \in [pc: {"idle", "begin", "write"}, id: Ids] /\ rec'[p].pc = "idle"
  BY <1>6, <1>7
<1>9. db \in Rows
  BY <1>5 DEF Held
<1>10. db' \in {db, [db EXCEPT !.status = "connecting", !.why = "suspended"]}
  BY <1>6
<1>11. db' \in Rows /\ db'.owner = db.owner
  BY <1>10, <1>9, RowEdit
<1>12. Typed(own[p], live[p], conn[p], man[p], rec[p], heal[p], up[p])'
  BY <1>6, <1>8, <1>11, <1>5 DEF OwnerIs, ConnIs, StopIs, HealIs, Typed, Held
<1>13. KnownOnly(own[p], conn[p], man[p], heal[p], up[p])'
  BY <1>6, <1>8, <1>11, <1>5, LifecycleConstants DEF OwnerIs, ConnIs, StopIs, HealIs, KnownOnly, Known, Held, LifeInd, RowInv, Of
<1>14. RowInv'
  BY <1>6, <1>8, <1>11, <1>5, LifecycleConstants DEF OwnerIs, ConnIs, StopIs, HealIs, RowInv, Known, KnownOnly, LifeInd, Of
<1>15. Fit(p, own[p], live[p], conn[p], man[p], rec[p], heal[p], up[p], p \in stopped)'
  BY <1>6, <1>8, <1>11, <1>5, LifecycleConstants DEF OwnerIs, ConnIs, StopIs, HealIs, Fit, Cleaning, Held, LifeInd, Of
<1> QED BY <1>4, <1>12, <1>13, <1>14, <1>15, Kept

\* HealProbe.
LEMMA HealProbeInd ==
  ASSUME NEW p \in Procs, LifeInd, HealProbe(p)
  PROVE  LifeInd'
<1>1. CASE heal' = [heal EXCEPT ![p].pc = "probed", ![p].seen = db.owner] /\ UNCHANGED <<own, faults>>
  <2>1. OwnMoves(p)
    BY <1>1, TypesNow, LifecycleConstants DEF HealProbe, tasks, LifeInd, TypeOK, Fault, HealEnds, SetOwn, OwnMoves
  <2>2. TasksMove(p)
    BY <1>1, TypesNow, LifecycleConstants DEF HealProbe, tasks, LifeInd, TypeOK, Fault, HealEnds, SetOwn, TasksMove
  <2>3. RestMoves(p)
    BY <1>1, TypesNow, LifecycleConstants DEF HealProbe, tasks, LifeInd, TypeOK, Fault, HealEnds, SetOwn, RestMoves
  <2>4. Moves(p)
    BY <2>1, <2>2, <2>3 DEF Moves
  <2>5. Held(p)
    BY <2>4, HeldNow
  <2>6. /\ own'[p] = own[p] /\ live'[p] = live[p] /\ conn'[p] = conn[p] /\ man'[p] = man[p]
        /\ rec'[p] = rec[p] /\ heal'[p] = [heal[p] EXCEPT !.pc = "probed", !.seen = db.owner]
        /\ up'[p] = up[p] /\ db' = db /\ by' = by /\ (p \in stopped' <=> p \in stopped)
        /\ lock' = lock /\ stops' = stops /\ heal[p].pc # "idle"
    BY <1>1, TypesNow DEF HealProbe, tasks, LifeInd, TypeOK, Fault, HealEnds, SetOwn
  <2>7. heal[p] \in Heals /\ db.owner \in Owned
    BY <2>5 DEF Held
  <2>8. heal'[p] = [heal[p] EXCEPT !.pc = "probed", !.seen = db.owner]
    BY <2>6
  <2>9. HealIs(heal'[p], "probed", db.owner)
    BY <2>8, <2>7, HealSeen
  <2>10. Typed(own[p], live[p], conn[p], man[p], rec[p], heal[p], up[p])'
    BY <2>6, <2>9, <2>5 DEF OwnerIs, ConnIs, StopIs, HealIs, Typed, Held
  <2>11. KnownOnly(own[p], conn[p], man[p], heal[p], up[p])'
    BY <2>6, <2>9, <2>5, LifecycleConstants DEF OwnerIs, ConnIs, StopIs, HealIs, KnownOnly, Known, Held, LifeInd, RowInv, Of
  <2>12. RowInv'
    BY <2>6, <2>9, <2>5, LifecycleConstants DEF OwnerIs, ConnIs, StopIs, HealIs, RowInv, Known, KnownOnly, LifeInd, Of
  <2>13. Fit(p, own[p], live[p], conn[p], man[p], rec[p], heal[p], up[p], p \in stopped)'
    BY <2>6, <2>9, <2>5, LifecycleConstants DEF OwnerIs, ConnIs, StopIs, HealIs, Fit, Cleaning, Held, LifeInd, Of
  <2> QED BY <2>4, <2>10, <2>11, <2>12, <2>13, Kept
<1>2. CASE Fault /\ HealEnds(p, own[p])
  <2>1. OwnMoves(p)
    BY <1>2, TypesNow, LifecycleConstants DEF HealProbe, tasks, LifeInd, TypeOK, Fault, HealEnds, SetOwn, OwnMoves
  <2>2. TasksMove(p)
    BY <1>2, TypesNow, LifecycleConstants DEF HealProbe, tasks, LifeInd, TypeOK, Fault, HealEnds, SetOwn, TasksMove
  <2>3. RestMoves(p)
    BY <1>2, TypesNow, LifecycleConstants DEF HealProbe, tasks, LifeInd, TypeOK, Fault, HealEnds, SetOwn, RestMoves
  <2>4. Moves(p)
    BY <2>1, <2>2, <2>3 DEF Moves
  <2>5. Held(p)
    BY <2>4, HeldNow
  <2>6. /\ own'[p] \in {own[p], [own[p] EXCEPT !.recovering = FALSE]} /\ live'[p] = live[p]
        /\ conn'[p] = conn[p] /\ man'[p] = man[p] /\ rec'[p] = rec[p] /\ heal'[p] = NoHeal
        /\ up'[p] = up[p] /\ db' = db /\ by' = by /\ (p \in stopped' <=> p \in stopped)
        /\ lock' = lock /\ stops' = stops
    BY <1>2, TypesNow DEF HealProbe, tasks, LifeInd, TypeOK, Fault, HealEnds, SetOwn
  <2>7. own[p] \in Owners /\ own[p].tok \in Owned /\ own[p].id \in Ids /\ own[p].pending \in SUBSET Tokens
    BY <2>5 DEF Held
  <2>8. own'[p] \in {own[p], [own[p] EXCEPT !.recovering = FALSE]}
    BY <2>6
  <2>9. OwnerIs(own'[p], own[p].id, own[p].tok, own[p].pending, own[p].manual, own[p].epoch)
    BY <2>8, <2>7, OwnerRecover, OwnerItself
  <2>10. heal[p] \in Heals /\ db.owner \in Owned
    BY <2>5 DEF Held
  <2>11. heal'[p] = NoHeal
    BY <2>6
  <2>12. HealIs(heal'[p], "idle", NoToken)
    BY <2>11, <2>10, HealNone
  <2>13. Typed(own[p], live[p], conn[p], man[p], rec[p], heal[p], up[p])'
    BY <2>6, <2>9, <2>12, <2>5 DEF OwnerIs, ConnIs, StopIs, HealIs, Typed, Held
  <2>14. KnownOnly(own[p], conn[p], man[p], heal[p], up[p])'
    BY <2>6, <2>9, <2>12, <2>5, LifecycleConstants DEF OwnerIs, ConnIs, StopIs, HealIs, KnownOnly, Known, Held, LifeInd, RowInv, Of
  <2>15. RowInv'
    BY <2>6, <2>9, <2>12, <2>5, LifecycleConstants DEF OwnerIs, ConnIs, StopIs, HealIs, RowInv, Known, KnownOnly, LifeInd, Of
  <2>16. Fit(p, own[p], live[p], conn[p], man[p], rec[p], heal[p], up[p], p \in stopped)'
    BY <2>6, <2>9, <2>12, <2>5, LifecycleConstants DEF OwnerIs, ConnIs, StopIs, HealIs, Fit, Cleaning, Held, LifeInd, Of
  <2> QED BY <2>4, <2>13, <2>14, <2>15, <2>16, Kept
<1> QED BY <1>1, <1>2, TypesNow DEF HealProbe, Fault, HealEnds, SetOwn

\* SetInstance.
LEMMA SetInstanceInd ==
  ASSUME NEW p \in Procs, LifeInd, SetInstance(p)
  PROVE  LifeInd'
<1>1. CASE Restored(up[p].row).suspended \/ up[p].row.status \in {"open", "connecting"}
  <2>1. OwnMoves(p)
    BY <1>1, TypesNow, LifecycleConstants DEF SetInstance, tasks, LifeInd, TypeOK, SetOwn, OwnMoves
  <2>2. TasksMove(p)
    BY <1>1, TypesNow, LifecycleConstants DEF SetInstance, tasks, LifeInd, TypeOK, SetOwn, TasksMove
  <2>3. RestMoves(p)
    BY <1>1, TypesNow, LifecycleConstants DEF SetInstance, tasks, LifeInd, TypeOK, SetOwn, RestMoves
  <2>4. Moves(p)
    BY <2>1, <2>2, <2>3 DEF Moves
  <2>5. Held(p)
    BY <2>4, HeldNow
  <2>6. /\ own'[p] = Restored(up[p].row) /\ live'[p] = live[p]
        /\ conn'[p] = [NoConnect EXCEPT !.pc = "start", !.startup = TRUE, !.ctx = [id |-> Restored(up[p].row).id, tok |-> Restored(up[p].row).tok, epoch |-> 0, stopped |-> FALSE]]
        /\ man'[p] = man[p] /\ rec'[p] = rec[p] /\ heal'[p] = heal[p]
        /\ up'[p] = [pc |-> "up", row |-> Unregistered] /\ db' = db /\ by' = by
        /\ (p \in stopped' <=> p \in stopped) /\ lock' = lock /\ stops' = stops
        /\ up[p].pc = "listed"
    BY <1>1, TypesNow DEF SetInstance, tasks, LifeInd, TypeOK, SetOwn
  <2>7. up[p].row \in Rows /\ Known(up[p].row.owner)
    BY <2>5, LifecycleConstants DEF Held, LifeInd, Of, KnownOnly
  <2>8. own'[p] = Restored(up[p].row)
    BY <2>6
  <2>9. own'[p] \in Owners /\ Known(own'[p].id) /\ Known(own'[p].tok) /\ own'[p].pending = {} /\ own'[p].epoch = 0
    BY <2>8, <2>7, RestoredIs
  <2>10. Restored(up[p].row).id \in Ids /\ Restored(up[p].row).tok \in Owned
    BY <2>5, RestoredTypes DEF Held
  <2>11. conn'[p] = [NoConnect EXCEPT !.pc = "start", !.startup = TRUE, !.ctx = [id |-> Restored(up[p].row).id, tok |-> Restored(up[p].row).tok, epoch |-> 0, stopped |-> FALSE]]
    BY <2>6
  <2>12. ConnIs(conn'[p], "start", NoToken, NoToken, FALSE)
    BY <2>11, <2>10, BootIs, BootContext
  <2>13. up[p].row \in Rows
    BY <2>5 DEF Held
  <2>14. up'[p] = [pc |-> "up", row |-> Unregistered]
    BY <2>6
  <2>15. up'[p].pc = "up" /\ up'[p].row = Unregistered /\ Unregistered \in Rows /\ Unregistered.owner = NoToken
    BY <2>14, <2>13, LifecycleConstants DEF Unregistered, Rows, Owned
  <2>16. Typed(own[p], live[p], conn[p], man[p], rec[p], heal[p], up[p])'
    BY <2>6, <2>9, <2>12, <2>15, <2>5 DEF OwnerIs, ConnIs, StopIs, HealIs, Typed, Held
  <2>17. KnownOnly(own[p], conn[p], man[p], heal[p], up[p])'
    BY <2>6, <2>9, <2>12, <2>15, <2>5, LifecycleConstants DEF OwnerIs, ConnIs, StopIs, HealIs, KnownOnly, Known, Held, LifeInd, RowInv, Of
  <2>18. RowInv'
    BY <2>6, <2>9, <2>12, <2>15, <2>5, LifecycleConstants DEF OwnerIs, ConnIs, StopIs, HealIs, RowInv, Known, KnownOnly, LifeInd, Of
  <2>19. Fit(p, own[p], live[p], conn[p], man[p], rec[p], heal[p], up[p], p \in stopped)'
    BY <2>6, <2>9, <2>12, <2>15, <2>5, LifecycleConstants DEF OwnerIs, ConnIs, StopIs, HealIs, Fit, Cleaning, Held, LifeInd, Of
  <2> QED BY <2>4, <2>16, <2>17, <2>18, <2>19, Kept
<1>2. CASE ~ (Restored(up[p].row).suspended \/ up[p].row.status \in {"open", "connecting"})
  <2>1. OwnMoves(p)
    BY <1>2, TypesNow, LifecycleConstants DEF SetInstance, tasks, LifeInd, TypeOK, SetOwn, OwnMoves
  <2>2. TasksMove(p)
    BY <1>2, TypesNow, LifecycleConstants DEF SetInstance, tasks, LifeInd, TypeOK, SetOwn, TasksMove
  <2>3. RestMoves(p)
    BY <1>2, TypesNow, LifecycleConstants DEF SetInstance, tasks, LifeInd, TypeOK, SetOwn, RestMoves
  <2>4. Moves(p)
    BY <2>1, <2>2, <2>3 DEF Moves
  <2>5. Held(p)
    BY <2>4, HeldNow
  <2>6. /\ own'[p] = Restored(up[p].row) /\ live'[p] = live[p] /\ conn'[p] = conn[p]
        /\ man'[p] = man[p] /\ rec'[p] = rec[p] /\ heal'[p] = heal[p]
        /\ up'[p] = [pc |-> "up", row |-> Unregistered] /\ db' = db /\ by' = by
        /\ (p \in stopped' <=> p \in stopped) /\ lock' = lock /\ stops' = stops
        /\ up[p].pc = "listed"
    BY <1>2, TypesNow DEF SetInstance, tasks, LifeInd, TypeOK, SetOwn
  <2>7. up[p].row \in Rows /\ Known(up[p].row.owner)
    BY <2>5, LifecycleConstants DEF Held, LifeInd, Of, KnownOnly
  <2>8. own'[p] = Restored(up[p].row)
    BY <2>6
  <2>9. own'[p] \in Owners /\ Known(own'[p].id) /\ Known(own'[p].tok) /\ own'[p].pending = {} /\ own'[p].epoch = 0
    BY <2>8, <2>7, RestoredIs
  <2>10. up[p].row \in Rows
    BY <2>5 DEF Held
  <2>11. up'[p] = [pc |-> "up", row |-> Unregistered]
    BY <2>6
  <2>12. up'[p].pc = "up" /\ up'[p].row = Unregistered /\ Unregistered \in Rows /\ Unregistered.owner = NoToken
    BY <2>11, <2>10, LifecycleConstants DEF Unregistered, Rows, Owned
  <2>13. Typed(own[p], live[p], conn[p], man[p], rec[p], heal[p], up[p])'
    BY <2>6, <2>9, <2>12, <2>5 DEF OwnerIs, ConnIs, StopIs, HealIs, Typed, Held
  <2>14. KnownOnly(own[p], conn[p], man[p], heal[p], up[p])'
    BY <2>6, <2>9, <2>12, <2>5, LifecycleConstants DEF OwnerIs, ConnIs, StopIs, HealIs, KnownOnly, Known, Held, LifeInd, RowInv, Of
  <2>15. RowInv'
    BY <2>6, <2>9, <2>12, <2>5, LifecycleConstants DEF OwnerIs, ConnIs, StopIs, HealIs, RowInv, Known, KnownOnly, LifeInd, Of
  <2>16. Fit(p, own[p], live[p], conn[p], man[p], rec[p], heal[p], up[p], p \in stopped)'
    BY <2>6, <2>9, <2>12, <2>5, LifecycleConstants DEF OwnerIs, ConnIs, StopIs, HealIs, Fit, Cleaning, Held, LifeInd, Of
  <2> QED BY <2>4, <2>13, <2>14, <2>15, <2>16, Kept
<1> QED BY <1>1, <1>2, TypesNow DEF SetInstance, SetOwn

\* HealProbed.
LEMMA HealProbedInd ==
  ASSUME NEW p \in Procs, LifeInd, HealProbed(p)
  PROVE  LifeInd'
<1>1. CASE ~ OwnsSocket(p, heal[p].id) /\ HealEnds(p, own[p]) /\ UNCHANGED <<live, conn>>
  <2>1. /\ own' = [own EXCEPT ![p] = own'[p]] /\ heal' = [heal EXCEPT ![p] = heal'[p]]
        /\ OwnerIs(own'[p], own[p].id, own[p].tok, own[p].pending, own[p].manual, own[p].epoch)
        /\ HealIs(heal'[p], "idle", NoToken)
    BY <1>1, TypesNow, HealEndsIs DEF HealProbed
  <2>2. OwnMoves(p)
    BY <2>1 DEF HealProbed, OwnMoves, LifeInd, TypeOK
  <2>3. TasksMove(p)
    BY <2>1, <1>1 DEF HealProbed, TasksMove, LifeInd, TypeOK
  <2>4. RestMoves(p)
    BY <1>1, TypesNow, LifecycleConstants DEF HealProbed, tasks, LifeInd, TypeOK, SetOwn, OwnsSocket, RestMoves
  <2>5. Moves(p)
    BY <2>2, <2>3, <2>4 DEF Moves
  <2>6. Held(p)
    BY <2>5, HeldNow
  <2>7. /\ live'[p] = live[p] /\ conn'[p] = conn[p] /\ man'[p] = man[p] /\ rec'[p] = rec[p]
        /\ up'[p] = up[p] /\ db' = db /\ by' = by /\ (p \in stopped' <=> p \in stopped)
        /\ lock' = lock /\ stops' = stops
    BY <1>1, TypesNow DEF HealProbed, tasks, LifeInd, TypeOK, SetOwn, OwnsSocket
  <2>8. own[p] \in Owners /\ own[p].tok \in Owned /\ own[p].id \in Ids /\ own[p].pending \in SUBSET Tokens
    BY <2>6 DEF Held
  <2>9. OwnerIs(own'[p], own[p].id, own[p].tok, own[p].pending, own[p].manual, own[p].epoch)
    BY <2>7, <2>8, <2>1
  <2>10. heal[p] \in Heals /\ db.owner \in Owned
    BY <2>6 DEF Held
  <2>11. HealIs(heal'[p], "idle", NoToken)
    BY <2>7, <2>10, <2>1
  <2>12. Typed(own[p], live[p], conn[p], man[p], rec[p], heal[p], up[p])'
    BY <2>7, <2>9, <2>11, <2>6 DEF OwnerIs, ConnIs, StopIs, HealIs, Typed, Held
  <2>13. KnownOnly(own[p], conn[p], man[p], heal[p], up[p])'
    BY <2>7, <2>9, <2>11, <2>6, LifecycleConstants DEF OwnerIs, ConnIs, StopIs, HealIs, KnownOnly, Known, Held, LifeInd, RowInv, Of
  <2>14. RowInv'
    BY <2>7, <2>9, <2>11, <2>6, LifecycleConstants DEF OwnerIs, ConnIs, StopIs, HealIs, RowInv, Known, KnownOnly, LifeInd, Of
  <2>15. Fit(p, own[p], live[p], conn[p], man[p], rec[p], heal[p], up[p], p \in stopped)'
    BY <2>7, <2>9, <2>11, <2>6, LifecycleConstants DEF OwnerIs, ConnIs, StopIs, HealIs, Fit, Cleaning, Held, LifeInd, Of
  <2> QED BY <2>5, <2>12, <2>13, <2>14, <2>15, Kept
<1>2. CASE OwnsSocket(p, heal[p].id) /\ ~ Matches(p, heal[p].seen) /\ HealEnds(p, [own[p] EXCEPT !.retired = TRUE, !.pending = {}]) /\ live' = [live EXCEPT ![p] = FALSE] /\ UNCHANGED conn
  <2>1. OwnerIs([own[p] EXCEPT !.retired = TRUE, !.pending = {}], own[p].id, own[p].tok, {}, own[p].manual, own[p].epoch)
    BY TypesNow, OwnerRetire
  <2>2. /\ own' = [own EXCEPT ![p] = own'[p]] /\ heal' = [heal EXCEPT ![p] = heal'[p]]
        /\ OwnerIs(own'[p], own[p].id, own[p].tok, {}, own[p].manual, own[p].epoch)
        /\ HealIs(heal'[p], "idle", NoToken)
    BY <1>2, <2>1, HealEndsIs DEF OwnerIs
  <2>3. OwnMoves(p)
    BY <2>2, <1>2 DEF HealProbed, OwnMoves, LifeInd, TypeOK
  <2>4. TasksMove(p)
    BY <2>2, <1>2 DEF HealProbed, TasksMove, LifeInd, TypeOK
  <2>5. RestMoves(p)
    BY <1>2, TypesNow, LifecycleConstants DEF HealProbed, tasks, LifeInd, TypeOK, SetOwn, OwnsSocket, RestMoves
  <2>6. Moves(p)
    BY <2>3, <2>4, <2>5 DEF Moves
  <2>7. Held(p)
    BY <2>6, HeldNow
  <2>8. /\ live'[p] = FALSE /\ conn'[p] = conn[p] /\ man'[p] = man[p] /\ rec'[p] = rec[p]
        /\ up'[p] = up[p] /\ db' = db /\ by' = by /\ (p \in stopped' <=> p \in stopped)
        /\ lock' = lock /\ stops' = stops
    BY <1>2, TypesNow DEF HealProbed, tasks, LifeInd, TypeOK, SetOwn, OwnsSocket
  <2>9. own[p] \in Owners /\ own[p].tok \in Owned /\ own[p].id \in Ids /\ own[p].pending \in SUBSET Tokens
    BY <2>7 DEF Held
  <2>10. OwnerIs(own'[p], own[p].id, own[p].tok, {}, own[p].manual, own[p].epoch)
    BY <2>8, <2>9, <2>2
  <2>11. heal[p] \in Heals /\ db.owner \in Owned
    BY <2>7 DEF Held
  <2>12. HealIs(heal'[p], "idle", NoToken)
    BY <2>8, <2>11, <2>2
  <2>13. Typed(own[p], live[p], conn[p], man[p], rec[p], heal[p], up[p])'
    BY <2>8, <2>10, <2>12, <2>7 DEF OwnerIs, ConnIs, StopIs, HealIs, Typed, Held
  <2>14. KnownOnly(own[p], conn[p], man[p], heal[p], up[p])'
    BY <2>8, <2>10, <2>12, <2>7, LifecycleConstants DEF OwnerIs, ConnIs, StopIs, HealIs, KnownOnly, Known, Held, LifeInd, RowInv, Of
  <2>15. RowInv'
    BY <2>8, <2>10, <2>12, <2>7, LifecycleConstants DEF OwnerIs, ConnIs, StopIs, HealIs, RowInv, Known, KnownOnly, LifeInd, Of
  <2>16. Fit(p, own[p], live[p], conn[p], man[p], rec[p], heal[p], up[p], p \in stopped)'
    BY <2>8, <2>10, <2>12, <2>7, LifecycleConstants DEF OwnerIs, ConnIs, StopIs, HealIs, Fit, Cleaning, Held, LifeInd, Of
  <2> QED BY <2>6, <2>13, <2>14, <2>15, <2>16, Kept
<1>3. CASE /\ OwnsSocket(p, heal[p].id) /\ Matches(p, heal[p].seen)
              /\ SetOwn(p, [own[p] EXCEPT !.tok = heal[p].seen, !.pending = {}, !.ready = TRUE])
              /\ heal' = [heal EXCEPT ![p].pc = "joined"]
              /\ IF conn[p].pc = "idle" THEN Begin(p, [Capture(p, FALSE) EXCEPT !.tok = heal[p].seen], FALSE) ELSE UNCHANGED conn
              /\ UNCHANGED live
  <2>1. [Capture(p, FALSE) EXCEPT !.tok = heal[p].seen] \in Contexts
    BY TypesNow, CaptureType DEF Contexts
  <2>2. /\ conn' = [conn EXCEPT ![p] = conn'[p]]
        /\ conn'[p] \in Connects /\ (conn[p].pc # "idle" => conn'[p] = conn[p])
        /\ conn[p].pc = "idle" => /\ conn'[p].pc = "start" /\ conn'[p].seen = NoToken
                                  /\ conn'[p].new = NoToken /\ (conn'[p].behind <=> Cleaning(man[p]))
    BY <1>3, <2>1, BeginIs, TypesNow DEF LifeInd, TypeOK
  <2>3. OwnMoves(p)
    BY <1>3 DEF HealProbed, SetOwn, OwnMoves, LifeInd, TypeOK
  <2>4. TasksMove(p)
    BY <2>2, <1>3 DEF HealProbed, TasksMove, LifeInd, TypeOK
  <2>5. RestMoves(p)
    BY <1>3, TypesNow, LifecycleConstants DEF HealProbed, tasks, LifeInd, TypeOK, SetOwn, OwnsSocket, RestMoves
  <2>6. Moves(p)
    BY <2>3, <2>4, <2>5 DEF Moves
  <2>7. Held(p)
    BY <2>6, HeldNow
  <2>8. /\ own'[p] = [own[p] EXCEPT !.tok = heal[p].seen, !.pending = {}, !.ready = TRUE]
        /\ live'[p] = live[p] /\ man'[p] = man[p] /\ rec'[p] = rec[p]
        /\ heal'[p] = [heal[p] EXCEPT !.pc = "joined"] /\ up'[p] = up[p] /\ db' = db
        /\ by' = by /\ (p \in stopped' <=> p \in stopped) /\ lock' = lock /\ stops' = stops
        /\ ~ own[p].manual /\ heal[p].pc = "probed"
    BY <1>3, TypesNow DEF HealProbed, tasks, LifeInd, TypeOK, SetOwn, OwnsSocket
  <2>9. own[p] \in Owners /\ heal[p].seen \in Owned
    BY <2>7 DEF Held
  <2>10. own'[p] = [own[p] EXCEPT !.tok = heal[p].seen, !.pending = {}, !.ready = TRUE]
    BY <2>8
  <2>11. OwnerIs(own'[p], own[p].id, heal[p].seen, {}, own[p].manual, own[p].epoch)
    BY <2>10, <2>9, OwnerHealthy
  <2>12. TRUE
    BY <2>7, <2>2
  <2>13. /\ conn'[p] \in Connects /\ (conn[p].pc # "idle" => conn'[p] = conn[p])
         /\ conn[p].pc = "idle" => /\ conn'[p].pc = "start" /\ conn'[p].seen = NoToken
                                   /\ conn'[p].new = NoToken /\ (conn'[p].behind <=> Cleaning(man[p]))
    BY <2>8, <2>12, <2>2
  <2>14. heal[p] \in Heals /\ db.owner \in Owned
    BY <2>7 DEF Held
  <2>15. heal'[p] = [heal[p] EXCEPT !.pc = "joined"]
    BY <2>8
  <2>16. HealIs(heal'[p], "joined", heal[p].seen)
    BY <2>15, <2>14, HealPc
  <2>17. Typed(own[p], live[p], conn[p], man[p], rec[p], heal[p], up[p])'
    BY <2>8, <2>11, <2>13, <2>16, <2>7 DEF OwnerIs, ConnIs, StopIs, HealIs, Typed, Held
  <2>18. KnownOnly(own[p], conn[p], man[p], heal[p], up[p])'
    BY <2>8, <2>11, <2>13, <2>16, <2>7, LifecycleConstants DEF OwnerIs, ConnIs, StopIs, HealIs, KnownOnly, Known, Held, LifeInd, RowInv, Of
  <2>19. RowInv'
    BY <2>8, <2>11, <2>13, <2>16, <2>7, LifecycleConstants DEF OwnerIs, ConnIs, StopIs, HealIs, RowInv, Known, KnownOnly, LifeInd, Of
  <2>20. Fit(p, own[p], live[p], conn[p], man[p], rec[p], heal[p], up[p], p \in stopped)'
    BY <2>8, <2>11, <2>13, <2>16, <2>7, LifecycleConstants DEF OwnerIs, ConnIs, StopIs, HealIs, Fit, Cleaning, Held, LifeInd, Of
  <2> QED BY <2>6, <2>17, <2>18, <2>19, <2>20, Kept
<1> QED BY <1>1, <1>2, <1>3, TypesNow DEF HealProbed, SetOwn, OwnsSocket

\* HealOver.
LEMMA HealOverInd ==
  ASSUME NEW p \in Procs, LifeInd, HealOver(p)
  PROVE  LifeInd'
<1>1. CASE heal[p].pc = "failed" /\ OwnsSocket(p, heal[p].id)
  <2>1. OwnerIs([own[p] EXCEPT !.ready = FALSE], own[p].id, own[p].tok, own[p].pending, own[p].manual, own[p].epoch)
    BY TypesNow, OwnerReady
  <2>2. HealEnds(p, [own[p] EXCEPT !.ready = FALSE])
    BY <1>1 DEF HealOver
  <2>3. /\ own' = [own EXCEPT ![p] = own'[p]] /\ heal' = [heal EXCEPT ![p] = heal'[p]]
        /\ OwnerIs(own'[p], own[p].id, own[p].tok, own[p].pending, own[p].manual, own[p].epoch)
        /\ HealIs(heal'[p], "idle", NoToken)
    BY <2>1, <2>2, HealEndsIs DEF OwnerIs
  <2>4. OwnMoves(p)
    BY <2>3 DEF HealOver, OwnMoves, LifeInd, TypeOK
  <2>5. TasksMove(p)
    BY <2>3 DEF HealOver, TasksMove, LifeInd, TypeOK
  <2>6. RestMoves(p)
    BY <1>1, TypesNow, LifecycleConstants DEF HealOver, tasks, LifeInd, TypeOK, RestMoves
  <2>7. Moves(p)
    BY <2>4, <2>5, <2>6 DEF Moves
  <2>8. Held(p)
    BY <2>7, HeldNow
  <2>9. /\ live'[p] = live[p] /\ conn'[p] = conn[p] /\ man'[p] = man[p] /\ rec'[p] = rec[p]
        /\ up'[p] = up[p] /\ db' = db /\ by' = by /\ (p \in stopped' <=> p \in stopped)
        /\ lock' = lock /\ stops' = stops
    BY <1>1, TypesNow DEF HealOver, tasks, LifeInd, TypeOK
  <2>10. own[p] \in Owners /\ own[p].tok \in Owned /\ own[p].id \in Ids /\ own[p].pending \in SUBSET Tokens
    BY <2>8 DEF Held
  <2>11. OwnerIs(own'[p], own[p].id, own[p].tok, own[p].pending, own[p].manual, own[p].epoch)
    BY <2>9, <2>10, <2>3
  <2>12. heal[p] \in Heals /\ db.owner \in Owned
    BY <2>8 DEF Held
  <2>13. HealIs(heal'[p], "idle", NoToken)
    BY <2>9, <2>12, <2>3
  <2>14. Typed(own[p], live[p], conn[p], man[p], rec[p], heal[p], up[p])'
    BY <2>9, <2>11, <2>13, <2>8 DEF OwnerIs, ConnIs, StopIs, HealIs, Typed, Held
  <2>15. KnownOnly(own[p], conn[p], man[p], heal[p], up[p])'
    BY <2>9, <2>11, <2>13, <2>8, LifecycleConstants DEF OwnerIs, ConnIs, StopIs, HealIs, KnownOnly, Known, Held, LifeInd, RowInv, Of
  <2>16. RowInv'
    BY <2>9, <2>11, <2>13, <2>8, LifecycleConstants DEF OwnerIs, ConnIs, StopIs, HealIs, RowInv, Known, KnownOnly, LifeInd, Of
  <2>17. Fit(p, own[p], live[p], conn[p], man[p], rec[p], heal[p], up[p], p \in stopped)'
    BY <2>9, <2>11, <2>13, <2>8, LifecycleConstants DEF OwnerIs, ConnIs, StopIs, HealIs, Fit, Cleaning, Held, LifeInd, Of
  <2> QED BY <2>7, <2>14, <2>15, <2>16, <2>17, Kept
<1>2. CASE ~ (heal[p].pc = "failed" /\ OwnsSocket(p, heal[p].id))
  <2>1. HealEnds(p, own[p])
    BY <1>2 DEF HealOver
  <2>2. /\ own' = [own EXCEPT ![p] = own'[p]] /\ heal' = [heal EXCEPT ![p] = heal'[p]]
        /\ OwnerIs(own'[p], own[p].id, own[p].tok, own[p].pending, own[p].manual, own[p].epoch)
        /\ HealIs(heal'[p], "idle", NoToken)
    BY <2>1, TypesNow, HealEndsIs
  <2>3. OwnMoves(p)
    BY <2>2 DEF HealOver, OwnMoves, LifeInd, TypeOK
  <2>4. TasksMove(p)
    BY <2>2 DEF HealOver, TasksMove, LifeInd, TypeOK
  <2>5. RestMoves(p)
    BY <1>2, TypesNow, LifecycleConstants DEF HealOver, tasks, LifeInd, TypeOK, RestMoves
  <2>6. Moves(p)
    BY <2>3, <2>4, <2>5 DEF Moves
  <2>7. Held(p)
    BY <2>6, HeldNow
  <2>8. /\ live'[p] = live[p] /\ conn'[p] = conn[p] /\ man'[p] = man[p] /\ rec'[p] = rec[p]
        /\ up'[p] = up[p] /\ db' = db /\ by' = by /\ (p \in stopped' <=> p \in stopped)
        /\ lock' = lock /\ stops' = stops
    BY <1>2, TypesNow DEF HealOver, tasks, LifeInd, TypeOK
  <2>9. own[p] \in Owners /\ own[p].tok \in Owned /\ own[p].id \in Ids /\ own[p].pending \in SUBSET Tokens
    BY <2>7 DEF Held
  <2>10. OwnerIs(own'[p], own[p].id, own[p].tok, own[p].pending, own[p].manual, own[p].epoch)
    BY <2>8, <2>9, <2>2
  <2>11. heal[p] \in Heals /\ db.owner \in Owned
    BY <2>7 DEF Held
  <2>12. HealIs(heal'[p], "idle", NoToken)
    BY <2>8, <2>11, <2>2
  <2>13. Typed(own[p], live[p], conn[p], man[p], rec[p], heal[p], up[p])'
    BY <2>8, <2>10, <2>12, <2>7 DEF OwnerIs, ConnIs, StopIs, HealIs, Typed, Held
  <2>14. KnownOnly(own[p], conn[p], man[p], heal[p], up[p])'
    BY <2>8, <2>10, <2>12, <2>7, LifecycleConstants DEF OwnerIs, ConnIs, StopIs, HealIs, KnownOnly, Known, Held, LifeInd, RowInv, Of
  <2>15. RowInv'
    BY <2>8, <2>10, <2>12, <2>7, LifecycleConstants DEF OwnerIs, ConnIs, StopIs, HealIs, RowInv, Known, KnownOnly, LifeInd, Of
  <2>16. Fit(p, own[p], live[p], conn[p], man[p], rec[p], heal[p], up[p], p \in stopped)'
    BY <2>8, <2>10, <2>12, <2>7, LifecycleConstants DEF OwnerIs, ConnIs, StopIs, HealIs, Fit, Cleaning, Held, LifeInd, Of
  <2> QED BY <2>6, <2>13, <2>14, <2>15, <2>16, Kept
<1> QED BY <1>1, <1>2, TypesNow DEF HealOver

\* Recover.
LEMMA RecoverInd ==
  ASSUME NEW p \in Procs, LifeInd, Recover(p)
  PROVE  LifeInd'
<1>1. CASE own[p].id = NoToken
  <2>1. Restored(db) \in Owners /\ Known(db.owner) /\ db \in Rows
    BY TypesNow, RestoredIs DEF LifeInd, RowInv
  <2>2. /\ Known(Restored(db).id) /\ Known(Restored(db).tok)
        /\ Restored(db).pending = {} /\ Restored(db).epoch = 0
        /\ Restored(db).suspended => Restored(db).id = Placeholder
    BY <2>1, RestoredIs
  <2>3. OwnerIs([Restored(db) EXCEPT !.recovering = TRUE], Restored(db).id, Restored(db).tok, Restored(db).pending, Restored(db).manual, Restored(db).epoch)
    BY <2>1, OwnerRecover
  <2>4. OwnMoves(p)
    BY <1>1, TypesNow, LifecycleConstants DEF Recover, tasks, LifeInd, TypeOK, SetOwn, Running, OwnMoves
  <2>5. TasksMove(p)
    BY <1>1, TypesNow, LifecycleConstants DEF Recover, tasks, LifeInd, TypeOK, SetOwn, Running, TasksMove
  <2>6. RestMoves(p)
    BY <1>1, TypesNow, LifecycleConstants DEF Recover, tasks, LifeInd, TypeOK, SetOwn, Running, RestMoves
  <2>7. Moves(p)
    BY <2>4, <2>5, <2>6 DEF Moves
  <2>8. Held(p)
    BY <2>7, HeldNow
  <2>9. /\ own'[p] = [Restored(db) EXCEPT !.recovering = TRUE] /\ live'[p] = live[p]
        /\ conn'[p] = conn[p] /\ man'[p] = man[p] /\ rec'[p] = rec[p]
        /\ heal'[p] = [NoHeal EXCEPT !.pc = "probe", !.id = Restored(db).id] /\ up'[p] = up[p]
        /\ db' = db /\ by' = by /\ (p \in stopped' <=> p \in stopped) /\ lock' = lock
        /\ stops' = stops /\ up[p].pc = "up" /\ Restored(db).id = Placeholder
        /\ own[p].id = NoToken
    BY <1>1, TypesNow, <2>2 DEF Recover, tasks, LifeInd, TypeOK, SetOwn, Running
  <2>10. own[p] \in Owners /\ own[p].tok \in Owned /\ own[p].id \in Ids /\ own[p].pending \in SUBSET Tokens
    BY <2>8 DEF Held
  <2>11. own'[p] = [Restored(db) EXCEPT !.recovering = TRUE]
    BY <2>9
  <2>12. own'[p] \in Owners /\ Known(own'[p].id) /\ Known(own'[p].tok) /\ own'[p].pending = {} /\ own'[p].epoch = 0 /\ own'[p].id = Restored(db).id
    BY <2>11, <2>10, <2>2, <2>3 DEF OwnerIs
  <2>13. Restored(db).id \in Ids
    BY <2>8, <2>1 DEF Owners
  <2>14. heal'[p] = [NoHeal EXCEPT !.pc = "probe", !.id = Restored(db).id]
    BY <2>9
  <2>15. HealIs(heal'[p], "probe", NoToken)
    BY <2>14, <2>13, HealStart
  <2>16. Typed(own[p], live[p], conn[p], man[p], rec[p], heal[p], up[p])'
    BY <2>9, <2>12, <2>15, <2>8 DEF OwnerIs, ConnIs, StopIs, HealIs, Typed, Held
  <2>17. KnownOnly(own[p], conn[p], man[p], heal[p], up[p])'
    BY <2>9, <2>12, <2>15, <2>8, LifecycleConstants DEF OwnerIs, ConnIs, StopIs, HealIs, KnownOnly, Known, Held, LifeInd, RowInv, Of
  <2>18. RowInv'
    BY <2>9, <2>12, <2>15, <2>8, LifecycleConstants DEF OwnerIs, ConnIs, StopIs, HealIs, RowInv, Known, KnownOnly, LifeInd, Of
  <2>19. Fit(p, own[p], live[p], conn[p], man[p], rec[p], heal[p], up[p], p \in stopped)'
    BY <2>9, <2>12, <2>15, <2>8, LifecycleConstants DEF OwnerIs, ConnIs, StopIs, HealIs, Fit, Cleaning, Held, LifeInd, Of
  <2> QED BY <2>7, <2>16, <2>17, <2>18, <2>19, Kept
<1>2. CASE own[p].id # NoToken
  <2>1. OwnMoves(p)
    BY <1>2, TypesNow, LifecycleConstants DEF Recover, tasks, LifeInd, TypeOK, SetOwn, Running, OwnMoves
  <2>2. TasksMove(p)
    BY <1>2, TypesNow, LifecycleConstants DEF Recover, tasks, LifeInd, TypeOK, SetOwn, Running, TasksMove
  <2>3. RestMoves(p)
    BY <1>2, TypesNow, LifecycleConstants DEF Recover, tasks, LifeInd, TypeOK, SetOwn, Running, RestMoves
  <2>4. Moves(p)
    BY <2>1, <2>2, <2>3 DEF Moves
  <2>5. Held(p)
    BY <2>4, HeldNow
  <2>6. /\ own'[p] = [own[p] EXCEPT !.recovering = TRUE] /\ live'[p] = live[p]
        /\ conn'[p] = conn[p] /\ man'[p] = man[p] /\ rec'[p] = rec[p]
        /\ heal'[p] = [NoHeal EXCEPT !.pc = "probe", !.id = own[p].id] /\ up'[p] = up[p]
        /\ db' = db /\ by' = by /\ (p \in stopped' <=> p \in stopped) /\ lock' = lock
        /\ stops' = stops /\ up[p].pc = "up"
    BY <1>2, TypesNow DEF Recover, tasks, LifeInd, TypeOK, SetOwn, Running
  <2>7. own[p] \in Owners /\ own[p].tok \in Owned /\ own[p].id \in Ids /\ own[p].pending \in SUBSET Tokens
    BY <2>5 DEF Held
  <2>8. own'[p] = [own[p] EXCEPT !.recovering = TRUE]
    BY <2>6
  <2>9. OwnerIs(own'[p], own[p].id, own[p].tok, own[p].pending, own[p].manual, own[p].epoch)
    BY <2>8, <2>7, OwnerRecover
  <2>10. own[p].id \in Ids
    BY <2>5 DEF Held
  <2>11. heal'[p] = [NoHeal EXCEPT !.pc = "probe", !.id = own[p].id]
    BY <2>6
  <2>12. HealIs(heal'[p], "probe", NoToken)
    BY <2>11, <2>10, HealStart
  <2>13. Typed(own[p], live[p], conn[p], man[p], rec[p], heal[p], up[p])'
    BY <2>6, <2>9, <2>12, <2>5 DEF OwnerIs, ConnIs, StopIs, HealIs, Typed, Held
  <2>14. KnownOnly(own[p], conn[p], man[p], heal[p], up[p])'
    BY <2>6, <2>9, <2>12, <2>5, LifecycleConstants DEF OwnerIs, ConnIs, StopIs, HealIs, KnownOnly, Known, Held, LifeInd, RowInv, Of
  <2>15. RowInv'
    BY <2>6, <2>9, <2>12, <2>5, LifecycleConstants DEF OwnerIs, ConnIs, StopIs, HealIs, RowInv, Known, KnownOnly, LifeInd, Of
  <2>16. Fit(p, own[p], live[p], conn[p], man[p], rec[p], heal[p], up[p], p \in stopped)'
    BY <2>6, <2>9, <2>12, <2>5, LifecycleConstants DEF OwnerIs, ConnIs, StopIs, HealIs, Fit, Cleaning, Held, LifeInd, Of
  <2> QED BY <2>4, <2>13, <2>14, <2>15, <2>16, Kept
<1> QED BY <1>1, <1>2, TypesNow DEF Recover, SetOwn, Running

\* BeforeConnect.
LEMMA BeforeConnectInd ==
  ASSUME NEW p \in Procs, LifeInd, BeforeConnect(p)
  PROVE  LifeInd'
<1>1. CASE Throws(p)
  <2>1. Throws(p) /\ UNCHANGED <<lock, by, up, stopped, stops>> /\ (Fault \/ UNCHANGED faults)
    BY <1>1 DEF BeforeConnect
  <2>2. faults' \in 0 .. MaxFaults BY <2>1, FaultIs
  <2>3. RowInv' BY <1>1, RowKeeps DEF BeforeConnect
  <2> QED BY <2>1, <2>2, <2>3, ThrowsKeeps
<1>2. CASE /\ conn[p].pc = "start" /\ ~ conn[p].behind /\ SetOwn(p, [own[p] EXCEPT !.ready = FALSE])
           /\ conn' = [conn EXCEPT ![p].pc = "read"] /\ UNCHANGED <<live, man, rec, heal>>
  <2>1. OwnMoves(p)
    BY <1>2, TypesNow, LifecycleConstants DEF BeforeConnect, tasks, LifeInd, TypeOK, SetOwn, OwnMoves
  <2>2. TasksMove(p)
    BY <1>2, TypesNow, LifecycleConstants DEF BeforeConnect, tasks, LifeInd, TypeOK, SetOwn, TasksMove
  <2>3. RestMoves(p)
    BY <1>2, TypesNow, LifecycleConstants DEF BeforeConnect, tasks, LifeInd, TypeOK, SetOwn, RestMoves
  <2>4. Moves(p)
    BY <2>1, <2>2, <2>3 DEF Moves
  <2>5. Held(p)
    BY <2>4, HeldNow
  <2>6. /\ own'[p] = [own[p] EXCEPT !.ready = FALSE] /\ live'[p] = live[p]
        /\ conn'[p] = [conn[p] EXCEPT !.pc = "read"] /\ man'[p] = man[p] /\ rec'[p] = rec[p]
        /\ heal'[p] = heal[p] /\ up'[p] = up[p] /\ db' = db /\ by' = by
        /\ (p \in stopped' <=> p \in stopped) /\ lock' = lock /\ stops' = stops
        /\ conn[p].pc = "start" /\ ~ conn[p].behind
    BY <1>2, TypesNow DEF BeforeConnect, tasks, LifeInd, TypeOK, SetOwn
  <2>7. own[p] \in Owners /\ own[p].tok \in Owned /\ own[p].id \in Ids /\ own[p].pending \in SUBSET Tokens
    BY <2>5 DEF Held
  <2>8. own'[p] = [own[p] EXCEPT !.ready = FALSE]
    BY <2>6
  <2>9. OwnerIs(own'[p], own[p].id, own[p].tok, own[p].pending, own[p].manual, own[p].epoch)
    BY <2>8, <2>7, OwnerReady
  <2>10. conn[p] \in Connects /\ db.owner \in Owned
    BY <2>5 DEF Held
  <2>11. conn'[p] = [conn[p] EXCEPT !.pc = "read"]
    BY <2>6
  <2>12. ConnIs(conn'[p], "read", conn[p].seen, conn[p].new, conn[p].behind)
    BY <2>11, <2>10, ConnPc
  <2>13. Typed(own[p], live[p], conn[p], man[p], rec[p], heal[p], up[p])'
    BY <2>6, <2>9, <2>12, <2>5 DEF OwnerIs, ConnIs, StopIs, HealIs, Typed, Held
  <2>14. KnownOnly(own[p], conn[p], man[p], heal[p], up[p])'
    BY <2>6, <2>9, <2>12, <2>5, LifecycleConstants DEF OwnerIs, ConnIs, StopIs, HealIs, KnownOnly, Known, Held, LifeInd, RowInv, Of
  <2>15. RowInv'
    BY <2>6, <2>9, <2>12, <2>5, LifecycleConstants DEF OwnerIs, ConnIs, StopIs, HealIs, RowInv, Known, KnownOnly, LifeInd, Of
  <2>16. Fit(p, own[p], live[p], conn[p], man[p], rec[p], heal[p], up[p], p \in stopped)'
    BY <2>6, <2>9, <2>12, <2>5, LifecycleConstants DEF OwnerIs, ConnIs, StopIs, HealIs, Fit, Cleaning, Held, LifeInd, Of
  <2> QED BY <2>4, <2>13, <2>14, <2>15, <2>16, Kept
<1>3. CASE ConnEnds(p, FALSE) /\ UNCHANGED <<own, live, rec>>
  <2>1. /\ ConnEnds(p, FALSE) /\ conn[p].pc # "idle" /\ UNCHANGED <<own, live, rec, up, lock, by, stopped, stops>>
        /\ Fault \/ UNCHANGED faults
    BY <1>3 DEF BeforeConnect
  <2>2. faults' \in 0 .. MaxFaults BY <2>1, FaultIs
  <2>3. RowInv' BY <1>3, RowKeeps DEF BeforeConnect
  <2> QED BY <2>1, <2>2, <2>3, EndsOnly
<1>4. CASE /\ conn[p].pc = "start" /\ ~ conn[p].behind /\ conn' = [conn EXCEPT ![p].pc = "probe"]
           /\ UNCHANGED <<own, live, man, rec, heal>>
  <2>1. OwnMoves(p)
    BY <1>4, TypesNow, LifecycleConstants DEF BeforeConnect, tasks, LifeInd, TypeOK, SetOwn, OwnMoves
  <2>2. TasksMove(p)
    BY <1>4, TypesNow, LifecycleConstants DEF BeforeConnect, tasks, LifeInd, TypeOK, SetOwn, TasksMove
  <2>3. RestMoves(p)
    BY <1>4, TypesNow, LifecycleConstants DEF BeforeConnect, tasks, LifeInd, TypeOK, SetOwn, RestMoves
  <2>4. Moves(p)
    BY <2>1, <2>2, <2>3 DEF Moves
  <2>5. Held(p)
    BY <2>4, HeldNow
  <2>6. /\ own'[p] = own[p] /\ live'[p] = live[p] /\ conn'[p] = [conn[p] EXCEPT !.pc = "probe"]
        /\ man'[p] = man[p] /\ rec'[p] = rec[p] /\ heal'[p] = heal[p] /\ up'[p] = up[p]
        /\ db' = db /\ by' = by /\ (p \in stopped' <=> p \in stopped) /\ lock' = lock
        /\ stops' = stops /\ conn[p].pc = "start" /\ ~ conn[p].behind
    BY <1>4, TypesNow DEF BeforeConnect, tasks, LifeInd, TypeOK, SetOwn
  <2>7. conn[p] \in Connects /\ db.owner \in Owned
    BY <2>5 DEF Held
  <2>8. conn'[p] = [conn[p] EXCEPT !.pc = "probe"]
    BY <2>6
  <2>9. ConnIs(conn'[p], "probe", conn[p].seen, conn[p].new, conn[p].behind)
    BY <2>8, <2>7, ConnPc
  <2>10. Typed(own[p], live[p], conn[p], man[p], rec[p], heal[p], up[p])'
    BY <2>6, <2>9, <2>5 DEF OwnerIs, ConnIs, StopIs, HealIs, Typed, Held
  <2>11. KnownOnly(own[p], conn[p], man[p], heal[p], up[p])'
    BY <2>6, <2>9, <2>5, LifecycleConstants DEF OwnerIs, ConnIs, StopIs, HealIs, KnownOnly, Known, Held, LifeInd, RowInv, Of
  <2>12. RowInv'
    BY <2>6, <2>9, <2>5, LifecycleConstants DEF OwnerIs, ConnIs, StopIs, HealIs, RowInv, Known, KnownOnly, LifeInd, Of
  <2>13. Fit(p, own[p], live[p], conn[p], man[p], rec[p], heal[p], up[p], p \in stopped)'
    BY <2>6, <2>9, <2>5, LifecycleConstants DEF OwnerIs, ConnIs, StopIs, HealIs, Fit, Cleaning, Held, LifeInd, Of
  <2> QED BY <2>4, <2>10, <2>11, <2>12, <2>13, Kept
<1> QED BY <1>1, <1>2, <1>3, <1>4, TypesNow DEF BeforeConnect, SetOwn

\* ConnectProbe.
LEMMA ConnectProbeInd ==
  ASSUME NEW p \in Procs, LifeInd, ConnectProbe(p)
  PROVE  LifeInd'
<1>1. CASE conn' = [conn EXCEPT ![p].pc = "probed", ![p].seen = db.owner] /\ UNCHANGED <<man, heal, faults>>
  <2>1. OwnMoves(p)
    BY <1>1, TypesNow, LifecycleConstants DEF ConnectProbe, tasks, LifeInd, TypeOK, OwnMoves
  <2>2. TasksMove(p)
    BY <1>1, TypesNow, LifecycleConstants DEF ConnectProbe, tasks, LifeInd, TypeOK, TasksMove
  <2>3. RestMoves(p)
    BY <1>1, TypesNow, LifecycleConstants DEF ConnectProbe, tasks, LifeInd, TypeOK, RestMoves
  <2>4. Moves(p)
    BY <2>1, <2>2, <2>3 DEF Moves
  <2>5. Held(p)
    BY <2>4, HeldNow
  <2>6. /\ own'[p] = own[p] /\ live'[p] = live[p]
        /\ conn'[p] = [conn[p] EXCEPT !.pc = "probed", !.seen = db.owner] /\ man'[p] = man[p]
        /\ rec'[p] = rec[p] /\ heal'[p] = heal[p] /\ up'[p] = up[p] /\ db' = db /\ by' = by
        /\ (p \in stopped' <=> p \in stopped) /\ lock' = lock /\ stops' = stops
        /\ conn[p].pc = "probe"
    BY <1>1, TypesNow DEF ConnectProbe, tasks, LifeInd, TypeOK
  <2>7. conn[p] \in Connects /\ db.owner \in Owned
    BY <2>5 DEF Held
  <2>8. conn'[p] = [conn[p] EXCEPT !.pc = "probed", !.seen = db.owner]
    BY <2>6
  <2>9. ConnIs(conn'[p], "probed", db.owner, conn[p].new, conn[p].behind)
    BY <2>8, <2>7, ConnSeen
  <2>10. Typed(own[p], live[p], conn[p], man[p], rec[p], heal[p], up[p])'
    BY <2>6, <2>9, <2>5 DEF OwnerIs, ConnIs, StopIs, HealIs, Typed, Held
  <2>11. KnownOnly(own[p], conn[p], man[p], heal[p], up[p])'
    BY <2>6, <2>9, <2>5, LifecycleConstants DEF OwnerIs, ConnIs, StopIs, HealIs, KnownOnly, Known, Held, LifeInd, RowInv, Of
  <2>12. RowInv'
    BY <2>6, <2>9, <2>5, LifecycleConstants DEF OwnerIs, ConnIs, StopIs, HealIs, RowInv, Known, KnownOnly, LifeInd, Of
  <2>13. Fit(p, own[p], live[p], conn[p], man[p], rec[p], heal[p], up[p], p \in stopped)'
    BY <2>6, <2>9, <2>5, LifecycleConstants DEF OwnerIs, ConnIs, StopIs, HealIs, Fit, Cleaning, Held, LifeInd, Of
  <2> QED BY <2>4, <2>10, <2>11, <2>12, <2>13, Kept
<1>2. CASE Fault /\ ConnEnds(p, FALSE)
  <2>1. /\ ConnEnds(p, FALSE) /\ conn[p].pc # "idle" /\ UNCHANGED <<own, live, rec, up, lock, by, stopped, stops>>
        /\ Fault \/ UNCHANGED faults
    BY <1>2 DEF ConnectProbe
  <2>2. faults' \in 0 .. MaxFaults BY <2>1, FaultIs
  <2>3. RowInv' BY <1>2, RowKeeps DEF ConnectProbe
  <2> QED BY <2>1, <2>2, <2>3, EndsOnly
<1> QED BY <1>1, <1>2, TypesNow DEF ConnectProbe

\* ConnectProbed.
LEMMA ConnectProbedInd ==
  ASSUME NEW p \in Procs, LifeInd, ConnectProbed(p)
  PROVE  LifeInd'
<1>1. CASE Throws(p)
  <2>1. Throws(p) /\ UNCHANGED <<lock, by, up, stopped, stops>> /\ (Fault \/ UNCHANGED faults)
    BY <1>1 DEF ConnectProbed
  <2>2. faults' \in 0 .. MaxFaults BY <2>1, FaultIs
  <2>3. RowInv' BY <1>1, RowKeeps DEF ConnectProbed
  <2> QED BY <2>1, <2>2, <2>3, ThrowsKeeps
<1>2. CASE Adopts(p, conn[p].seen) /\ UNCHANGED rec /\ conn' = [conn EXCEPT ![p].pc = "read"] /\ UNCHANGED <<man, heal>>
  <2>1. Adopts(p, conn[p].seen) /\ UNCHANGED <<db, lock, by, up, stopped, stops, faults, rec>> /\ conn[p].pc = "probed"
    BY <1>2 DEF ConnectProbed
  <2>2. /\ OwnMoves(p) /\ live'[p] \in BOOLEAN
        /\ \/ OwnerIs(own'[p], own[p].id, own[p].tok, {}, own[p].manual, own[p].epoch)
           \/ OwnerIs(own'[p], own[p].id, conn[p].seen, {}, own[p].manual, own[p].epoch)
    BY <2>1, TypesNow, AdoptsIs
  <2>3. /\ own'[p] \in Owners /\ own'[p].id = own[p].id /\ own'[p].tok \in {own[p].tok, conn[p].seen} /\ own'[p].pending = {}
        /\ own'[p].manual = own[p].manual /\ own'[p].epoch = own[p].epoch
    BY <2>2 DEF OwnerIs
  <2>4. OwnMoves(p)
    BY <2>2
  <2>5. TasksMove(p)
    BY <1>2, <2>1 DEF TasksMove, LifeInd, TypeOK
  <2>6. RestMoves(p)
    BY <1>2, TypesNow, LifecycleConstants DEF ConnectProbed, tasks, LifeInd, TypeOK, SetOwn, RestMoves
  <2>7. Moves(p)
    BY <2>4, <2>5, <2>6 DEF Moves
  <2>8. Held(p)
    BY <2>7, HeldNow
  <2>9. /\ live'[p] \in BOOLEAN /\ conn'[p] = [conn[p] EXCEPT !.pc = "read"]
        /\ man'[p] = man[p] /\ rec'[p] = rec[p] /\ heal'[p] = heal[p] /\ up'[p] = up[p]
        /\ db' = db /\ by' = by /\ (p \in stopped' <=> p \in stopped) /\ lock' = lock
        /\ stops' = stops /\ conn[p].pc = "probed"
    BY <1>2, TypesNow, <2>2 DEF ConnectProbed, tasks, LifeInd, TypeOK, SetOwn
  <2>10. own[p] \in Owners /\ own[p].tok \in Owned /\ own[p].id \in Ids /\ own[p].pending \in SUBSET Tokens
    BY <2>8 DEF Held
  <2>11. /\ own'[p] \in Owners /\ own'[p].id = own[p].id /\ own'[p].tok \in {own[p].tok, conn[p].seen}
         /\ own'[p].pending = {} /\ own'[p].manual = own[p].manual /\ own'[p].epoch = own[p].epoch
    BY <2>9, <2>10, <2>3
  <2>12. conn[p] \in Connects /\ db.owner \in Owned
    BY <2>8 DEF Held
  <2>13. conn'[p] = [conn[p] EXCEPT !.pc = "read"]
    BY <2>9
  <2>14. ConnIs(conn'[p], "read", conn[p].seen, conn[p].new, conn[p].behind)
    BY <2>13, <2>12, ConnPc
  <2>15. Typed(own[p], live[p], conn[p], man[p], rec[p], heal[p], up[p])'
    BY <2>9, <2>11, <2>14, <2>8 DEF OwnerIs, ConnIs, StopIs, HealIs, Typed, Held
  <2>16. KnownOnly(own[p], conn[p], man[p], heal[p], up[p])'
    BY <2>9, <2>11, <2>14, <2>8, LifecycleConstants DEF OwnerIs, ConnIs, StopIs, HealIs, KnownOnly, Known, Held, LifeInd, RowInv, Of
  <2>17. RowInv'
    BY <2>9, <2>11, <2>14, <2>8, LifecycleConstants DEF OwnerIs, ConnIs, StopIs, HealIs, RowInv, Known, KnownOnly, LifeInd, Of
  <2>18. Fit(p, own[p], live[p], conn[p], man[p], rec[p], heal[p], up[p], p \in stopped)'
    BY <2>9, <2>11, <2>14, <2>8, LifecycleConstants DEF OwnerIs, ConnIs, StopIs, HealIs, Fit, Cleaning, Held, LifeInd, Of
  <2> QED BY <2>7, <2>15, <2>16, <2>17, <2>18, Kept
<1>3. CASE Adopts(p, conn[p].seen) /\ UNCHANGED rec /\ ConnEnds(p, TRUE)
  <2>1. /\ Adopts(p, conn[p].seen) /\ UNCHANGED <<db, lock, by, up, stopped, stops, faults, rec>> /\ conn[p].pc = "probed"
    BY <1>3 DEF ConnectProbed
  <2>2. /\ OwnMoves(p) /\ live'[p] \in BOOLEAN
        /\ OwnerIs(own'[p], own[p].id, own[p].tok, {}, own[p].manual, own[p].epoch)
           \/ OwnerIs(own'[p], own[p].id, conn[p].seen, {}, own[p].manual, own[p].epoch)
    BY <2>1, TypesNow, AdoptsIs
  <2>3. faults' \in 0 .. MaxFaults /\ RowInv'
    BY <2>1, RowKeeps DEF LifeInd, TypeOK
  <2>4. /\ own'[p] \in Owners /\ own'[p].id = own[p].id /\ own'[p].tok \in {own[p].tok, conn[p].seen}
        /\ own'[p].pending = {} /\ own'[p].manual = own[p].manual /\ own'[p].epoch = own[p].epoch
    BY <2>2 DEF OwnerIs
  <2>5. KnownOnly(own[p], conn[p], man[p], heal[p], up[p]) BY DEF LifeInd, Of
  <2>6. own[p].epoch <= own[p].epoch
    BY LifecycleConstants DEF LifeInd, TypeOK, Owners
  <2>7. Cleaning(man[p]) => own[p].id # NoToken /\ (own[p].id = man[p].ctx.id => own[p].manual)
    BY DEF LifeInd, Of, Fit
  <2>8. rec'[p] = rec[p] /\ rec[p] \in [pc: {"idle", "begin", "write"}, id: Ids] /\ up'[p] = up[p]
    BY <2>1 DEF LifeInd, TypeOK
  <2>9. Known(own'[p].id) /\ Known(own'[p].tok)
    BY <2>4, <2>5 DEF KnownOnly
  <2> QED BY <1>3, <2>1, <2>2, <2>3, <2>4, <2>6, <2>7, <2>8, <2>9, EndsKeeps
<1> QED BY <1>1, <1>2, <1>3, TypesNow DEF ConnectProbed, SetOwn

\* ReadOwner.
LEMMA ReadOwnerInd ==
  ASSUME NEW p \in Procs, LifeInd, ReadOwner(p)
  PROVE  LifeInd'
<1>1. CASE conn' = [conn EXCEPT ![p].pc = "join", ![p].seen = db.owner, ![p].back = Capture(p, TRUE)] /\ UNCHANGED <<own, live, man, rec, heal, faults>>
  <2>1. OwnMoves(p)
    BY <1>1, TypesNow, LifecycleConstants DEF ReadOwner, tasks, LifeInd, TypeOK, OwnMoves
  <2>2. TasksMove(p)
    BY <1>1, TypesNow, LifecycleConstants DEF ReadOwner, tasks, LifeInd, TypeOK, TasksMove
  <2>3. RestMoves(p)
    BY <1>1, TypesNow, LifecycleConstants DEF ReadOwner, tasks, LifeInd, TypeOK, RestMoves
  <2>4. Moves(p)
    BY <2>1, <2>2, <2>3 DEF Moves
  <2>5. Held(p)
    BY <2>4, HeldNow
  <2>6. /\ own'[p] = own[p] /\ live'[p] = live[p]
        /\ conn'[p] = [conn[p] EXCEPT !.pc = "join", !.seen = db.owner, !.back = Capture(p, TRUE)]
        /\ man'[p] = man[p] /\ rec'[p] = rec[p] /\ heal'[p] = heal[p] /\ up'[p] = up[p]
        /\ db' = db /\ by' = by /\ (p \in stopped' <=> p \in stopped) /\ lock' = lock
        /\ stops' = stops /\ conn[p].pc = "read"
    BY <1>1, TypesNow DEF ReadOwner, tasks, LifeInd, TypeOK
  <2>7. conn[p] \in Connects /\ db.owner \in Owned /\ Capture(p, TRUE) \in Contexts
    BY <2>5, CaptureType DEF Held
  <2>8. conn'[p] = [conn[p] EXCEPT !.pc = "join", !.seen = db.owner, !.back = Capture(p, TRUE)]
    BY <2>6
  <2>9. ConnIs(conn'[p], "join", db.owner, conn[p].new, conn[p].behind)
    BY <2>8, <2>7, ConnRead
  <2>10. Typed(own[p], live[p], conn[p], man[p], rec[p], heal[p], up[p])'
    BY <2>6, <2>9, <2>5 DEF OwnerIs, ConnIs, StopIs, HealIs, Typed, Held
  <2>11. KnownOnly(own[p], conn[p], man[p], heal[p], up[p])'
    BY <2>6, <2>9, <2>5, LifecycleConstants DEF OwnerIs, ConnIs, StopIs, HealIs, KnownOnly, Known, Held, LifeInd, RowInv, Of
  <2>12. RowInv'
    BY <2>6, <2>9, <2>5, LifecycleConstants DEF OwnerIs, ConnIs, StopIs, HealIs, RowInv, Known, KnownOnly, LifeInd, Of
  <2>13. Fit(p, own[p], live[p], conn[p], man[p], rec[p], heal[p], up[p], p \in stopped)'
    BY <2>6, <2>9, <2>5, LifecycleConstants DEF OwnerIs, ConnIs, StopIs, HealIs, Fit, Cleaning, Held, LifeInd, Of
  <2> QED BY <2>4, <2>10, <2>11, <2>12, <2>13, Kept
<1>2. CASE Throws(p)
  <2>1. Throws(p) /\ UNCHANGED <<lock, by, up, stopped, stops>> /\ (Fault \/ UNCHANGED faults)
    BY <1>2 DEF ReadOwner
  <2>2. faults' \in 0 .. MaxFaults BY <2>1, FaultIs
  <2>3. RowInv' BY <1>2, RowKeeps DEF ReadOwner
  <2> QED BY <2>1, <2>2, <2>3, ThrowsKeeps
<1> QED BY <1>1, <1>2, TypesNow DEF ReadOwner

\* Join.
LEMMA JoinInd ==
  ASSUME NEW p \in Procs, LifeInd, Join(p)
  PROVE  LifeInd'
<1>1. CASE Throws(p) /\ UNCHANGED by
  <2>1. Throws(p) /\ UNCHANGED <<lock, by, up, stopped, stops>> /\ (Fault \/ UNCHANGED faults)
    BY <1>1 DEF Join
  <2>2. faults' \in 0 .. MaxFaults BY <2>1, FaultIs
  <2>3. RowInv' BY <1>1, RowKeeps DEF Join
  <2> QED BY <2>1, <2>2, <2>3, ThrowsKeeps
<1>2. CASE /\ conn[p].pc = "join" /\ own[p].id = NoToken
           /\ ~ (Throws(p) /\ UNCHANGED by)
  <2>1. PICK t \in Fresh :
               /\ by' = [by EXCEPT ![t] = p]
               /\ SetOwn(p, [[NoOwner EXCEPT !.id = Placeholder, !.tok = conn[p].seen] EXCEPT !.pending = @ \cup {t}])
               /\ conn' = [conn EXCEPT ![p].pc = "claim", ![p].new = t, ![p].ctx = [id |-> Placeholder, tok |-> conn[p].seen, epoch |-> 0, stopped |-> TRUE], ![p].back = [id |-> Placeholder, tok |-> conn[p].seen, epoch |-> 0, stopped |-> TRUE]]
               /\ UNCHANGED <<live, man, rec, heal>>
    BY <1>2 DEF Join
  <2>2. t \in Tokens /\ by[t] = NoProc /\ p # NoProc
    BY LifecycleConstants DEF Fresh
  <2>3. t # own[p].id /\ t # man[p].ctx.id
    BY <2>2 DEF LifeInd, Of, KnownOnly, Known
  <2>4. UNCHANGED <<db, lock, up, stopped, stops, faults>>
    BY DEF Join
  <2>5. conn[p] \in Connects /\ t \in Owned /\ [id |-> Placeholder, tok |-> conn[p].seen, epoch |-> 0, stopped |-> TRUE] \in Contexts /\ [id |-> Placeholder, tok |-> conn[p].seen, epoch |-> 0, stopped |-> TRUE] \in Contexts
    BY <2>2, TypesNow, LifecycleConstants DEF Contexts, Ids, Owned
  <2>6. ConnIs([conn[p] EXCEPT !.pc = "claim", !.new = t, !.ctx = [id |-> Placeholder, tok |-> conn[p].seen, epoch |-> 0, stopped |-> TRUE], !.back = [id |-> Placeholder, tok |-> conn[p].seen, epoch |-> 0, stopped |-> TRUE]], "claim", conn[p].seen, t, conn[p].behind)
    BY <2>5, ConnJoin
  <2>7. by'[t] # NoProc /\ (\A s \in Tokens : by[s] # NoProc => by'[s] # NoProc)
    BY <2>1, <2>2 DEF LifeInd, TypeOK
  <2>8. OwnerIs([NoOwner EXCEPT !.id = Placeholder, !.tok = conn[p].seen], Placeholder, conn[p].seen, {}, FALSE, 0)
    BY TypesNow, OwnerPlaced DEF Ids
  <2>9. [NoOwner EXCEPT !.id = Placeholder, !.tok = conn[p].seen] \in Owners /\ [NoOwner EXCEPT !.id = Placeholder, !.tok = conn[p].seen].pending = {}
    BY <2>8 DEF OwnerIs
  <2>10. OwnerIs([[NoOwner EXCEPT !.id = Placeholder, !.tok = conn[p].seen] EXCEPT !.pending = {t}], [NoOwner EXCEPT !.id = Placeholder, !.tok = conn[p].seen].id, [NoOwner EXCEPT !.id = Placeholder, !.tok = conn[p].seen].tok, {t}, [NoOwner EXCEPT !.id = Placeholder, !.tok = conn[p].seen].manual, [NoOwner EXCEPT !.id = Placeholder, !.tok = conn[p].seen].epoch)
    BY <2>2, <2>9, OwnerPend
  <2>11. /\ [NoOwner EXCEPT !.id = Placeholder, !.tok = conn[p].seen].id = Placeholder /\ [NoOwner EXCEPT !.id = Placeholder, !.tok = conn[p].seen].tok = conn[p].seen
         /\ [NoOwner EXCEPT !.id = Placeholder, !.tok = conn[p].seen].manual = FALSE /\ [NoOwner EXCEPT !.id = Placeholder, !.tok = conn[p].seen].epoch = 0
    BY <2>8 DEF OwnerIs
  <2>12. OwnMoves(p)
    BY <2>1, <2>4 DEF SetOwn, OwnMoves, LifeInd, TypeOK
  <2>13. TasksMove(p)
    BY <2>1 DEF TasksMove, LifeInd, TypeOK
  <2>14. RestMoves(p)
    BY <2>1, <2>2, <2>4, <2>7 DEF RestMoves, LifeInd, TypeOK
  <2>15. Moves(p)
    BY <2>12, <2>13, <2>14 DEF Moves
  <2>16. Held(p)
    BY <2>15, HeldNow
  <2>17. /\ own'[p] = [[NoOwner EXCEPT !.id = Placeholder, !.tok = conn[p].seen] EXCEPT !.pending = {t}]
         /\ live'[p] = live[p]
         /\ conn'[p] = [conn[p] EXCEPT !.pc = "claim", !.new = t, !.ctx = [id |-> Placeholder, tok |-> conn[p].seen, epoch |-> 0, stopped |-> TRUE], !.back = [id |-> Placeholder, tok |-> conn[p].seen, epoch |-> 0, stopped |-> TRUE]]
         /\ man'[p] = man[p] /\ rec'[p] = rec[p] /\ heal'[p] = heal[p] /\ up'[p] = up[p]
         /\ db' = db /\ by'[t] # NoProc /\ (\A s \in Tokens : by[s] # NoProc => by'[s] # NoProc)
         /\ (p \in stopped' <=> p \in stopped) /\ lock' = lock /\ stops' = stops
         /\ conn[p].pc = "join" /\ t \in Tokens /\ t # own[p].id /\ t # man[p].ctx.id
         /\ own[p].id = NoToken
    BY <1>2, <2>1, <2>2, <2>3, <2>4, <2>7, <2>9 DEF tasks, LifeInd, TypeOK, SetOwn
  <2>18. own[p] \in Owners
    BY <2>16 DEF Held
  <2>19. own'[p] = [[NoOwner EXCEPT !.id = Placeholder, !.tok = conn[p].seen] EXCEPT !.pending = {t}]
    BY <2>17
  <2>20. OwnerIs(own'[p], Placeholder, conn[p].seen, {t}, FALSE, 0)
    BY <2>19, <2>18, <2>10, <2>11
  <2>21. conn[p] \in Connects /\ db.owner \in Owned
    BY <2>16 DEF Held
  <2>22. conn'[p] = [conn[p] EXCEPT !.pc = "claim", !.new = t, !.ctx = [id |-> Placeholder, tok |-> conn[p].seen, epoch |-> 0, stopped |-> TRUE], !.back = [id |-> Placeholder, tok |-> conn[p].seen, epoch |-> 0, stopped |-> TRUE]]
    BY <2>17
  <2>23. ConnIs(conn'[p], "claim", conn[p].seen, t, conn[p].behind)
    BY <2>22, <2>21, <2>6
  <2>24. Typed(own[p], live[p], conn[p], man[p], rec[p], heal[p], up[p])'
    BY <2>17, <2>20, <2>23, <2>16 DEF OwnerIs, ConnIs, StopIs, HealIs, Typed, Held
  <2>25. KnownOnly(own[p], conn[p], man[p], heal[p], up[p])'
    BY <2>17, <2>20, <2>23, <2>16, LifecycleConstants DEF OwnerIs, ConnIs, StopIs, HealIs, KnownOnly, Known, Held, LifeInd, RowInv, Of
  <2>26. RowInv'
    BY <2>17, <2>20, <2>23, <2>16, LifecycleConstants DEF OwnerIs, ConnIs, StopIs, HealIs, RowInv, Known, KnownOnly, LifeInd, Of
  <2>27. Fit(p, own[p], live[p], conn[p], man[p], rec[p], heal[p], up[p], p \in stopped)'
    BY <2>17, <2>20, <2>23, <2>16, LifecycleConstants DEF OwnerIs, ConnIs, StopIs, HealIs, Fit, Cleaning, Held, LifeInd, Of
  <2> QED BY <2>15, <2>24, <2>25, <2>26, <2>27, Kept
<1>3. CASE /\ conn[p].pc = "join" /\ own[p].id # NoToken
           /\ ~ (Throws(p) /\ UNCHANGED by)
  <2>1. PICK t \in Fresh :
               /\ by' = [by EXCEPT ![t] = p]
               /\ SetOwn(p, [own[p] EXCEPT !.pending = @ \cup {t}])
               /\ conn' = [conn EXCEPT ![p].pc = "claim", ![p].new = t, ![p].ctx = conn[p].ctx, ![p].back = conn[p].back]
               /\ UNCHANGED <<live, man, rec, heal>>
    BY <1>3 DEF Join
  <2>2. t \in Tokens /\ by[t] = NoProc /\ p # NoProc
    BY LifecycleConstants DEF Fresh
  <2>3. t # own[p].id /\ t # man[p].ctx.id
    BY <2>2 DEF LifeInd, Of, KnownOnly, Known
  <2>4. UNCHANGED <<db, lock, up, stopped, stops, faults>>
    BY DEF Join
  <2>5. conn[p] \in Connects /\ t \in Owned /\ conn[p].ctx \in Contexts /\ conn[p].back \in Contexts
    BY <2>2, TypesNow, LifecycleConstants DEF Connects, Owned
  <2>6. ConnIs([conn[p] EXCEPT !.pc = "claim", !.new = t, !.ctx = conn[p].ctx, !.back = conn[p].back], "claim", conn[p].seen, t, conn[p].behind)
    BY <2>5, ConnJoin
  <2>7. by'[t] # NoProc /\ (\A s \in Tokens : by[s] # NoProc => by'[s] # NoProc)
    BY <2>1, <2>2 DEF LifeInd, TypeOK
  <2>8. OwnMoves(p)
    BY <2>1, <2>4 DEF SetOwn, OwnMoves, LifeInd, TypeOK
  <2>9. TasksMove(p)
    BY <2>1 DEF TasksMove, LifeInd, TypeOK
  <2>10. RestMoves(p)
    BY <2>1, <2>2, <2>4, <2>7 DEF RestMoves, LifeInd, TypeOK
  <2>11. Moves(p)
    BY <2>8, <2>9, <2>10 DEF Moves
  <2>12. Held(p)
    BY <2>11, HeldNow
  <2>13. /\ own'[p] = [own[p] EXCEPT !.pending = own[p].pending \cup {t}] /\ live'[p] = live[p]
         /\ conn'[p] = [conn[p] EXCEPT !.pc = "claim", !.new = t, !.ctx = conn[p].ctx, !.back = conn[p].back]
         /\ man'[p] = man[p] /\ rec'[p] = rec[p] /\ heal'[p] = heal[p] /\ up'[p] = up[p]
         /\ db' = db /\ by'[t] # NoProc /\ (\A s \in Tokens : by[s] # NoProc => by'[s] # NoProc)
         /\ (p \in stopped' <=> p \in stopped) /\ lock' = lock /\ stops' = stops
         /\ conn[p].pc = "join" /\ t \in Tokens /\ t # own[p].id /\ t # man[p].ctx.id
    BY <1>3, <2>1, <2>2, <2>3, <2>4, <2>7 DEF tasks, LifeInd, TypeOK, SetOwn
  <2>14. own[p] \in Owners /\ own[p].pending \cup {t} \in SUBSET Tokens
    BY <2>12, <2>2 DEF Held
  <2>15. own'[p] = [own[p] EXCEPT !.pending = own[p].pending \cup {t}]
    BY <2>13
  <2>16. OwnerIs(own'[p], own[p].id, own[p].tok, (own[p].pending \cup {t}), own[p].manual, own[p].epoch)
    BY <2>15, <2>14, OwnerPend
  <2>17. conn[p] \in Connects /\ db.owner \in Owned
    BY <2>12 DEF Held
  <2>18. conn'[p] = [conn[p] EXCEPT !.pc = "claim", !.new = t, !.ctx = conn[p].ctx, !.back = conn[p].back]
    BY <2>13
  <2>19. ConnIs(conn'[p], "claim", conn[p].seen, t, conn[p].behind)
    BY <2>18, <2>17, <2>6
  <2>20. Typed(own[p], live[p], conn[p], man[p], rec[p], heal[p], up[p])'
    BY <2>13, <2>16, <2>19, <2>12 DEF OwnerIs, ConnIs, StopIs, HealIs, Typed, Held
  <2>21. KnownOnly(own[p], conn[p], man[p], heal[p], up[p])'
    BY <2>13, <2>16, <2>19, <2>12, LifecycleConstants DEF OwnerIs, ConnIs, StopIs, HealIs, KnownOnly, Known, Held, LifeInd, RowInv, Of
  <2>22. RowInv'
    BY <2>13, <2>16, <2>19, <2>12, LifecycleConstants DEF OwnerIs, ConnIs, StopIs, HealIs, RowInv, Known, KnownOnly, LifeInd, Of
  <2>23. Fit(p, own[p], live[p], conn[p], man[p], rec[p], heal[p], up[p], p \in stopped)'
    BY <2>13, <2>16, <2>19, <2>12, LifecycleConstants DEF OwnerIs, ConnIs, StopIs, HealIs, Fit, Cleaning, Held, LifeInd, Of
  <2> QED BY <2>11, <2>20, <2>21, <2>22, <2>23, Kept
<1> QED BY <1>1, <1>2, <1>3, TypesNow DEF Join, SetOwn

\* ClaimOwner.
LEMMA ClaimOwnerInd ==
  ASSUME NEW p \in Procs, LifeInd, ClaimOwner(p)
  PROVE  LifeInd'
<1>1. CASE /\ db' = [db EXCEPT !.owner = conn[p].new] /\ conn' = [conn EXCEPT ![p].pc = "won"]
           /\ UNCHANGED <<own, live, man, rec, heal, faults>>
  <2>1. conn[p].new \in Owned /\ Known(conn[p].new)
    BY TypesNow DEF LifeInd, Of, KnownOnly
  <2>2. OwnMoves(p)
    BY <1>1, TypesNow, LifecycleConstants DEF ClaimOwner, tasks, LifeInd, TypeOK, OwnMoves
  <2>3. TasksMove(p)
    BY <1>1, TypesNow, LifecycleConstants DEF ClaimOwner, tasks, LifeInd, TypeOK, TasksMove
  <2>4. RestMoves(p)
    BY <1>1, TypesNow, LifecycleConstants DEF ClaimOwner, tasks, LifeInd, TypeOK, RestMoves
  <2>5. Moves(p)
    BY <2>2, <2>3, <2>4 DEF Moves
  <2>6. Held(p)
    BY <2>5, HeldNow
  <2>7. /\ own'[p] = own[p] /\ live'[p] = live[p] /\ conn'[p] = [conn[p] EXCEPT !.pc = "won"]
        /\ man'[p] = man[p] /\ rec'[p] = rec[p] /\ heal'[p] = heal[p] /\ up'[p] = up[p]
        /\ db' = [db EXCEPT !.owner = conn[p].new] /\ by' = by
        /\ (p \in stopped' <=> p \in stopped) /\ lock' = lock /\ stops' = stops
        /\ conn[p].pc = "claim"
    BY <1>1, TypesNow DEF ClaimOwner, tasks, LifeInd, TypeOK
  <2>8. conn[p] \in Connects /\ db.owner \in Owned
    BY <2>6 DEF Held
  <2>9. conn'[p] = [conn[p] EXCEPT !.pc = "won"]
    BY <2>7
  <2>10. ConnIs(conn'[p], "won", conn[p].seen, conn[p].new, conn[p].behind)
    BY <2>9, <2>8, ConnPc
  <2>11. db \in Rows /\ conn[p].new \in Owned /\ Known(conn[p].new)
    BY <2>6, <2>1 DEF Held
  <2>12. db' = [db EXCEPT !.owner = conn[p].new]
    BY <2>7
  <2>13. db' \in Rows /\ db'.owner = conn[p].new /\ Known(conn[p].new)
    BY <2>12, <2>11, RowEdit
  <2>14. Typed(own[p], live[p], conn[p], man[p], rec[p], heal[p], up[p])'
    BY <2>7, <2>10, <2>13, <2>6 DEF OwnerIs, ConnIs, StopIs, HealIs, Typed, Held
  <2>15. KnownOnly(own[p], conn[p], man[p], heal[p], up[p])'
    BY <2>7, <2>10, <2>13, <2>6, LifecycleConstants DEF OwnerIs, ConnIs, StopIs, HealIs, KnownOnly, Known, Held, LifeInd, RowInv, Of
  <2>16. RowInv'
    BY <2>7, <2>10, <2>13, <2>6, LifecycleConstants DEF OwnerIs, ConnIs, StopIs, HealIs, RowInv, Known, KnownOnly, LifeInd, Of
  <2>17. Fit(p, own[p], live[p], conn[p], man[p], rec[p], heal[p], up[p], p \in stopped)'
    BY <2>7, <2>10, <2>13, <2>6, LifecycleConstants DEF OwnerIs, ConnIs, StopIs, HealIs, Fit, Cleaning, Held, LifeInd, Of
  <2> QED BY <2>5, <2>14, <2>15, <2>16, <2>17, Kept
<1>2. CASE /\ db' = db /\ conn' = [conn EXCEPT ![p].pc = "lost"]
           /\ UNCHANGED <<own, live, man, rec, heal, faults>>
  <2>1. OwnMoves(p)
    BY <1>2, TypesNow, LifecycleConstants DEF ClaimOwner, tasks, LifeInd, TypeOK, OwnMoves
  <2>2. TasksMove(p)
    BY <1>2, TypesNow, LifecycleConstants DEF ClaimOwner, tasks, LifeInd, TypeOK, TasksMove
  <2>3. RestMoves(p)
    BY <1>2, TypesNow, LifecycleConstants DEF ClaimOwner, tasks, LifeInd, TypeOK, RestMoves
  <2>4. Moves(p)
    BY <2>1, <2>2, <2>3 DEF Moves
  <2>5. Held(p)
    BY <2>4, HeldNow
  <2>6. /\ own'[p] = own[p] /\ live'[p] = live[p] /\ conn'[p] = [conn[p] EXCEPT !.pc = "lost"]
        /\ man'[p] = man[p] /\ rec'[p] = rec[p] /\ heal'[p] = heal[p] /\ up'[p] = up[p]
        /\ db' = db /\ by' = by /\ (p \in stopped' <=> p \in stopped) /\ lock' = lock
        /\ stops' = stops /\ conn[p].pc = "claim"
    BY <1>2, TypesNow DEF ClaimOwner, tasks, LifeInd, TypeOK
  <2>7. conn[p] \in Connects /\ db.owner \in Owned
    BY <2>5 DEF Held
  <2>8. conn'[p] = [conn[p] EXCEPT !.pc = "lost"]
    BY <2>6
  <2>9. ConnIs(conn'[p], "lost", conn[p].seen, conn[p].new, conn[p].behind)
    BY <2>8, <2>7, ConnPc
  <2>10. Typed(own[p], live[p], conn[p], man[p], rec[p], heal[p], up[p])'
    BY <2>6, <2>9, <2>5 DEF OwnerIs, ConnIs, StopIs, HealIs, Typed, Held
  <2>11. KnownOnly(own[p], conn[p], man[p], heal[p], up[p])'
    BY <2>6, <2>9, <2>5, LifecycleConstants DEF OwnerIs, ConnIs, StopIs, HealIs, KnownOnly, Known, Held, LifeInd, RowInv, Of
  <2>12. RowInv'
    BY <2>6, <2>9, <2>5, LifecycleConstants DEF OwnerIs, ConnIs, StopIs, HealIs, RowInv, Known, KnownOnly, LifeInd, Of
  <2>13. Fit(p, own[p], live[p], conn[p], man[p], rec[p], heal[p], up[p], p \in stopped)'
    BY <2>6, <2>9, <2>5, LifecycleConstants DEF OwnerIs, ConnIs, StopIs, HealIs, Fit, Cleaning, Held, LifeInd, Of
  <2> QED BY <2>4, <2>10, <2>11, <2>12, <2>13, Kept
<1>3. CASE db' \in {db, IF db.owner = conn[p].seen THEN [db EXCEPT !.owner = conn[p].new] ELSE db} /\ Fault /\ Throws(p)
  <2>1. Throws(p) /\ UNCHANGED <<lock, by, up, stopped, stops>> /\ (Fault \/ UNCHANGED faults)
    BY <1>3 DEF ClaimOwner
  <2>2. faults' \in 0 .. MaxFaults BY <2>1, FaultIs
  <2>3. RowInv'
    <3>1. Known(conn[p].new) /\ Known(conn[p].seen) BY DEF LifeInd, Of, KnownOnly
    <3>2. db \in Rows /\ conn[p].new \in Owned /\ conn[p].seen \in Owned BY TypesNow
    <3>3. /\ [db EXCEPT !.owner = conn[p].new] \in Rows /\ [db EXCEPT !.owner = conn[p].seen] \in Rows
          /\ [db EXCEPT !.owner = conn[p].new].owner = conn[p].new
          /\ [db EXCEPT !.owner = conn[p].seen].owner = conn[p].seen
      BY <3>2, RowEdit
    <3>4. db' = db \/ db' = [db EXCEPT !.owner = conn[p].new] BY <1>3 DEF ClaimOwner
    <3> QED BY <2>1, <3>1, <3>2, <3>3, <3>4, RowKeeps
  <2> QED BY <2>1, <2>2, <2>3, ThrowsKeeps
<1> QED BY <1>1, <1>2, <1>3, TypesNow DEF ClaimOwner

\* Publish.
LEMMA PublishInd ==
  ASSUME NEW p \in Procs, LifeInd, Publish(p)
  PROVE  LifeInd'
<1>1. CASE /\ conn[p].pc = "won" /\ conn' = [conn EXCEPT ![p].pc = "refund"]
           /\ UNCHANGED <<own, live, man, rec, heal, faults>>
  <2>1. OwnMoves(p)
    BY <1>1, TypesNow, LifecycleConstants DEF Publish, tasks, LifeInd, TypeOK, SetOwn, OwnMoves
  <2>2. TasksMove(p)
    BY <1>1, TypesNow, LifecycleConstants DEF Publish, tasks, LifeInd, TypeOK, SetOwn, TasksMove
  <2>3. RestMoves(p)
    BY <1>1, TypesNow, LifecycleConstants DEF Publish, tasks, LifeInd, TypeOK, SetOwn, RestMoves
  <2>4. Moves(p)
    BY <2>1, <2>2, <2>3 DEF Moves
  <2>5. Held(p)
    BY <2>4, HeldNow
  <2>6. /\ own'[p] = own[p] /\ live'[p] = live[p]
        /\ conn'[p] = [conn[p] EXCEPT !.pc = "refund"] /\ man'[p] = man[p] /\ rec'[p] = rec[p]
        /\ heal'[p] = heal[p] /\ up'[p] = up[p] /\ db' = db /\ by' = by
        /\ (p \in stopped' <=> p \in stopped) /\ lock' = lock /\ stops' = stops
        /\ conn[p].pc = "won"
    BY <1>1, TypesNow DEF Publish, tasks, LifeInd, TypeOK, SetOwn
  <2>7. conn[p] \in Connects /\ db.owner \in Owned
    BY <2>5 DEF Held
  <2>8. conn'[p] = [conn[p] EXCEPT !.pc = "refund"]
    BY <2>6
  <2>9. ConnIs(conn'[p], "refund", conn[p].seen, conn[p].new, conn[p].behind)
    BY <2>8, <2>7, ConnPc
  <2>10. Typed(own[p], live[p], conn[p], man[p], rec[p], heal[p], up[p])'
    BY <2>6, <2>9, <2>5 DEF OwnerIs, ConnIs, StopIs, HealIs, Typed, Held
  <2>11. KnownOnly(own[p], conn[p], man[p], heal[p], up[p])'
    BY <2>6, <2>9, <2>5, LifecycleConstants DEF OwnerIs, ConnIs, StopIs, HealIs, KnownOnly, Known, Held, LifeInd, RowInv, Of
  <2>12. RowInv'
    BY <2>6, <2>9, <2>5, LifecycleConstants DEF OwnerIs, ConnIs, StopIs, HealIs, RowInv, Known, KnownOnly, LifeInd, Of
  <2>13. Fit(p, own[p], live[p], conn[p], man[p], rec[p], heal[p], up[p], p \in stopped)'
    BY <2>6, <2>9, <2>5, LifecycleConstants DEF OwnerIs, ConnIs, StopIs, HealIs, Fit, Cleaning, Held, LifeInd, Of
  <2> QED BY <2>4, <2>10, <2>11, <2>12, <2>13, Kept
<1>2. CASE Throws(p)
  <2>1. Throws(p) /\ UNCHANGED <<lock, by, up, stopped, stops>> /\ (Fault \/ UNCHANGED faults)
    BY <1>2 DEF Publish
  <2>2. faults' \in 0 .. MaxFaults BY <2>1, FaultIs
  <2>3. RowInv' BY <1>2, RowKeeps DEF Publish
  <2> QED BY <2>1, <2>2, <2>3, ThrowsKeeps
<1>3. CASE /\ conn[p].pc = "won" /\ SetOwn(p, [NoOwner EXCEPT !.id = conn[p].new, !.tok = conn[p].new])
           /\ live' = [live EXCEPT ![p] = TRUE] /\ ConnEnds(p, FALSE) /\ UNCHANGED <<rec, faults>>
  <2>1. /\ conn[p].pc = "won" /\ UNCHANGED <<db, lock, by, up, stopped, stops>>
        /\ Fault \/ UNCHANGED faults
    BY <1>3 DEF Publish
  <2>2. faults' \in 0 .. MaxFaults /\ RowInv' BY <2>1, FaultIs, RowKeeps
  <2>3. conn[p].new \in Tokens /\ Known(conn[p].new) /\ (Cleaning(man[p]) => conn[p].new # man[p].ctx.id)
    BY <2>1 DEF LifeInd, Of, Fit, KnownOnly
  <2>4. conn[p].new \in Ids /\ conn[p].new \in Owned BY <2>3 DEF Ids, Owned
  <2>5. OwnerIs([NoOwner EXCEPT !.id = conn[p].new, !.tok = conn[p].new], conn[p].new, conn[p].new, {}, FALSE, 0)
    BY <2>4, OwnerPlaced
  <2>6. /\ OwnMoves(p) /\ live'[p] \in BOOLEAN /\ rec'[p] \in [pc: {"idle", "begin", "write"}, id: Ids]
        /\ (rec'[p].pc = "write" => rec[p].pc = "write")
    BY <1>3, <2>1 DEF SetOwn, OwnMoves, LifeInd, TypeOK
  <2>7. OwnerIs(own'[p], conn[p].new, conn[p].new, {}, FALSE, 0)
    <3>1. own'[p] = [NoOwner EXCEPT !.id = conn[p].new, !.tok = conn[p].new] BY <1>3 DEF SetOwn, LifeInd, TypeOK
    <3> QED BY <3>1, <2>5
  <2>8. /\ own'[p] \in Owners /\ own'[p].id = conn[p].new /\ own'[p].tok = conn[p].new
        /\ own'[p].pending = {} /\ own'[p].epoch = 0
    BY <2>7 DEF OwnerIs
  <2>9. 0 <= own[p].epoch /\ up'[p] = up[p]
    BY <2>1, LifecycleConstants DEF LifeInd, TypeOK, Owners
  <2>10. conn[p].new # NoToken BY <2>3, LifecycleConstants
  <2> QED BY <1>3, <2>1, <2>2, <2>3, <2>6, <2>8, <2>9, <2>10, EndsKeeps
<1>4. CASE /\ conn[p].pc = "won" /\ Fault /\ Suspend(p, [NoOwner EXCEPT !.id = conn[p].new, !.tok = conn[p].new]) /\ ConnEnds(p, TRUE)
  <2>1. /\ conn[p].pc = "won" /\ UNCHANGED <<db, lock, by, up, stopped, stops>>
        /\ Fault \/ UNCHANGED faults
    BY <1>4 DEF Publish
  <2>2. faults' \in 0 .. MaxFaults /\ RowInv' BY <2>1, FaultIs, RowKeeps
  <2>3. conn[p].new \in Tokens /\ Known(conn[p].new) /\ (Cleaning(man[p]) => conn[p].new # man[p].ctx.id)
    BY <2>1 DEF LifeInd, Of, Fit, KnownOnly
  <2>4. conn[p].new \in Ids /\ conn[p].new \in Owned BY <2>3 DEF Ids, Owned
  <2>5. OwnerIs([NoOwner EXCEPT !.id = conn[p].new, !.tok = conn[p].new], conn[p].new, conn[p].new, {}, FALSE, 0)
    BY <2>4, OwnerPlaced
  <2>61. rec'[p] = [pc |-> "begin", id |-> [NoOwner EXCEPT !.id = conn[p].new, !.tok = conn[p].new].id] BY <1>4 DEF Suspend, LifeInd, TypeOK
  <2>62. [NoOwner EXCEPT !.id = conn[p].new, !.tok = conn[p].new].id = conn[p].new /\ [NoOwner EXCEPT !.id = conn[p].new, !.tok = conn[p].new] \in Owners BY <2>5 DEF OwnerIs
  <2>63. rec'[p] \in [pc: {"idle", "begin", "write"}, id: Ids] /\ rec'[p].pc = "begin" BY <2>4, <2>61, <2>62
  <2>64. OwnMoves(p) /\ live'[p] \in BOOLEAN BY <1>4, <2>1 DEF Suspend, SetOwn, OwnMoves, LifeInd, TypeOK
  <2>6. /\ OwnMoves(p) /\ live'[p] \in BOOLEAN /\ rec'[p] \in [pc: {"idle", "begin", "write"}, id: Ids]
        /\ (rec'[p].pc = "write" => rec[p].pc = "write")
    BY <2>63, <2>64
  <2>7. OwnerIs(own'[p], conn[p].new, conn[p].new, {}, FALSE, 0)
    <3>1. own'[p] = [[NoOwner EXCEPT !.id = conn[p].new, !.tok = conn[p].new] EXCEPT !.suspended = TRUE] BY <1>4 DEF Suspend, SetOwn, LifeInd, TypeOK
    <3>2. OwnerIs([[NoOwner EXCEPT !.id = conn[p].new, !.tok = conn[p].new] EXCEPT !.suspended = TRUE], conn[p].new, conn[p].new, {}, FALSE, 0)
      BY <2>5, <2>62, OwnerSuspend DEF OwnerIs
    <3> QED BY <3>1, <3>2
  <2>8. /\ own'[p] \in Owners /\ own'[p].id = conn[p].new /\ own'[p].tok = conn[p].new
        /\ own'[p].pending = {} /\ own'[p].epoch = 0
    BY <2>7 DEF OwnerIs
  <2>9. 0 <= own[p].epoch /\ up'[p] = up[p]
    BY <2>1, LifecycleConstants DEF LifeInd, TypeOK, Owners
  <2>10. conn[p].new # NoToken BY <2>3, LifecycleConstants
  <2> QED BY <1>4, <2>1, <2>2, <2>3, <2>6, <2>8, <2>9, <2>10, EndsKeeps
<1> QED BY <1>1, <1>2, <1>3, <1>4, TypesNow DEF Publish, SetOwn

\* Refund.
LEMMA RefundInd ==
  ASSUME NEW p \in Procs, LifeInd, Refund(p)
  PROVE  LifeInd'
<1>1. CASE db' \in {db, IF db.owner = conn[p].new THEN [db EXCEPT !.owner = conn[p].seen] ELSE db} /\ Fault /\ Throws(p)
  <2>1. Throws(p) /\ UNCHANGED <<lock, by, up, stopped, stops>> /\ (Fault \/ UNCHANGED faults)
    BY <1>1 DEF Refund
  <2>2. faults' \in 0 .. MaxFaults BY <2>1, FaultIs
  <2>3. RowInv'
    <3>1. Known(conn[p].new) /\ Known(conn[p].seen) BY DEF LifeInd, Of, KnownOnly
    <3>2. db \in Rows /\ conn[p].new \in Owned /\ conn[p].seen \in Owned BY TypesNow
    <3>3. /\ [db EXCEPT !.owner = conn[p].new] \in Rows /\ [db EXCEPT !.owner = conn[p].seen] \in Rows
          /\ [db EXCEPT !.owner = conn[p].new].owner = conn[p].new
          /\ [db EXCEPT !.owner = conn[p].seen].owner = conn[p].seen
      BY <3>2, RowEdit
    <3>4. db' = db \/ db' = [db EXCEPT !.owner = conn[p].seen] BY <1>1 DEF Refund
    <3> QED BY <2>1, <3>1, <3>2, <3>3, <3>4, RowKeeps
  <2> QED BY <2>1, <2>2, <2>3, ThrowsKeeps
<1>2. CASE /\ db' = IF db.owner = conn[p].new THEN [db EXCEPT !.owner = conn[p].seen] ELSE db
           /\ ConnEnds(p, TRUE) /\ UNCHANGED <<live, rec, faults>>
           /\ SetOwn(p, IF db.owner = conn[p].new /\ LifecycleCurrent(p, conn[p].back) THEN [own[p] EXCEPT !.pending = @ \ {conn[p].new}] ELSE own[p])
  <2>1. conn[p].pc = "refund" /\ UNCHANGED <<lock, by, up, stopped, stops, live, rec, faults>>
    BY <1>2 DEF Refund
  <2>2. faults' \in 0 .. MaxFaults BY <2>1 DEF LifeInd, TypeOK
  <2>3. RowInv'
    <3>1. Known(conn[p].new) /\ Known(conn[p].seen) BY DEF LifeInd, Of, KnownOnly
    <3>2. db \in Rows /\ conn[p].new \in Owned /\ conn[p].seen \in Owned BY TypesNow
    <3>3. /\ [db EXCEPT !.owner = conn[p].new] \in Rows /\ [db EXCEPT !.owner = conn[p].seen] \in Rows
          /\ [db EXCEPT !.owner = conn[p].new].owner = conn[p].new
          /\ [db EXCEPT !.owner = conn[p].seen].owner = conn[p].seen
      BY <3>2, RowEdit
    <3>4. db' = db \/ db' = [db EXCEPT !.owner = conn[p].seen] BY <1>2 DEF Refund
    <3> QED BY <2>1, <3>1, <3>2, <3>3, <3>4, RowKeeps
  <2>4. own[p] \in Owners /\ own[p].pending \ {conn[p].new} \in SUBSET Tokens BY TypesNow
  <2>5. OwnerIs([own[p] EXCEPT !.pending = own[p].pending \ {conn[p].new}], own[p].id, own[p].tok,
                own[p].pending \ {conn[p].new}, own[p].manual, own[p].epoch)
    BY <2>4, OwnerPend
  <2>6. own'[p] = own[p] \/ own'[p] = [own[p] EXCEPT !.pending = own[p].pending \ {conn[p].new}]
    BY <1>2 DEF SetOwn, LifeInd, TypeOK
  <2>7. /\ own'[p] \in Owners /\ own'[p].id = own[p].id /\ own'[p].tok = own[p].tok
        /\ own'[p].pending \subseteq own[p].pending /\ own'[p].manual = own[p].manual /\ own'[p].epoch = own[p].epoch
    BY <2>4, <2>5, <2>6 DEF OwnerIs
  <2>8. /\ OwnMoves(p) /\ live'[p] \in BOOLEAN /\ rec'[p] \in [pc: {"idle", "begin", "write"}, id: Ids]
        /\ (rec'[p].pc = "write" => rec[p].pc = "write")
    BY <1>2, <2>1 DEF SetOwn, OwnMoves, LifeInd, TypeOK
  <2>9. own[p].epoch <= own[p].epoch /\ up'[p] = up[p]
    BY <2>1, LifecycleConstants DEF LifeInd, TypeOK, Owners
  <2>10. KnownOnly(own[p], conn[p], man[p], heal[p], up[p]) BY DEF LifeInd, Of
  <2>11. /\ Cleaning(man[p]) => own[p].id # NoToken /\ (own[p].id = man[p].ctx.id => own[p].manual)
         /\ man[p].pc = "clean" => own[p].pending = {}
    BY DEF LifeInd, Of, Fit
  <2>12. /\ Known(own'[p].id) /\ Known(own'[p].tok) /\ \A t \in own'[p].pending : Known(t)
         /\ man[p].pc = "clean" => own'[p].pending = {}
    BY <2>7, <2>10, <2>11 DEF KnownOnly
  <2> QED BY <1>2, <2>1, <2>2, <2>3, <2>7, <2>8, <2>9, <2>11, <2>12, EndsKeeps
<1> QED BY <1>1, <1>2, TypesNow DEF Refund, SetOwn

\* StopRead.
LEMMA StopReadInd ==
  ASSUME NEW p \in Procs, LifeInd, StopRead(p)
  PROVE  LifeInd'
<1>1. CASE StopEnds(p, FALSE) /\ UNCHANGED faults
  <2>1. /\ StopEnds(p, FALSE) /\ Cleaning(man[p]) /\ (Fault \/ UNCHANGED faults)
        /\ UNCHANGED <<own, live, db, lock, by, rec, heal, up, stopped, stops>>
    BY <1>1 DEF StopRead, Cleaning
  <2>2. faults' \in 0 .. MaxFaults BY <2>1, FaultIs
  <2> QED BY <2>1, <2>2, CleanupOnly
<1>2. CASE Fault /\ StopEnds(p, FALSE)
  <2>1. /\ StopEnds(p, FALSE) /\ Cleaning(man[p]) /\ (Fault \/ UNCHANGED faults)
        /\ UNCHANGED <<own, live, db, lock, by, rec, heal, up, stopped, stops>>
    BY <1>2 DEF StopRead, Cleaning
  <2>2. faults' \in 0 .. MaxFaults BY <2>1, FaultIs
  <2> QED BY <2>1, <2>2, CleanupOnly
<1>3. CASE /\ own[p].pending = {} /\ UNCHANGED <<conn, faults>>
           /\ man' = [man EXCEPT ![p].pc = IF own[p].pending = {} THEN "clean" ELSE "decide", ![p].seen = db.owner]
  <2>1. OwnMoves(p)
    BY <1>3, TypesNow, LifecycleConstants DEF StopRead, tasks, LifeInd, TypeOK, OwnMoves
  <2>2. TasksMove(p)
    BY <1>3, TypesNow, LifecycleConstants DEF StopRead, tasks, LifeInd, TypeOK, TasksMove
  <2>3. RestMoves(p)
    BY <1>3, TypesNow, LifecycleConstants DEF StopRead, tasks, LifeInd, TypeOK, RestMoves
  <2>4. Moves(p)
    BY <2>1, <2>2, <2>3 DEF Moves
  <2>5. Held(p)
    BY <2>4, HeldNow
  <2>6. /\ own'[p] = own[p] /\ live'[p] = live[p] /\ conn'[p] = conn[p]
        /\ man'[p] = [man[p] EXCEPT !.pc = "clean", !.seen = db.owner] /\ rec'[p] = rec[p]
        /\ heal'[p] = heal[p] /\ up'[p] = up[p] /\ db' = db /\ by' = by
        /\ (p \in stopped' <=> p \in stopped) /\ lock' = lock /\ stops' = stops
        /\ man[p].pc = "read" /\ own[p].pending = {}
    BY <1>3, TypesNow DEF StopRead, tasks, LifeInd, TypeOK
  <2>7. man[p] \in Stops /\ db.owner \in Owned
    BY <2>5 DEF Held
  <2>8. man'[p] = [man[p] EXCEPT !.pc = "clean", !.seen = db.owner]
    BY <2>6
  <2>9. StopIs(man'[p], "clean", man[p].ctx, db.owner, man[p].tries)
    BY <2>8, <2>7, StopSeen
  <2>10. Typed(own[p], live[p], conn[p], man[p], rec[p], heal[p], up[p])'
    BY <2>6, <2>9, <2>5 DEF OwnerIs, ConnIs, StopIs, HealIs, Typed, Held
  <2>11. KnownOnly(own[p], conn[p], man[p], heal[p], up[p])'
    BY <2>6, <2>9, <2>5, LifecycleConstants DEF OwnerIs, ConnIs, StopIs, HealIs, KnownOnly, Known, Held, LifeInd, RowInv, Of
  <2>12. RowInv'
    BY <2>6, <2>9, <2>5, LifecycleConstants DEF OwnerIs, ConnIs, StopIs, HealIs, RowInv, Known, KnownOnly, LifeInd, Of
  <2>13. Fit(p, own[p], live[p], conn[p], man[p], rec[p], heal[p], up[p], p \in stopped)'
    BY <2>6, <2>9, <2>5, LifecycleConstants DEF OwnerIs, ConnIs, StopIs, HealIs, Fit, Cleaning, Held, LifeInd, Of
  <2> QED BY <2>4, <2>10, <2>11, <2>12, <2>13, Kept
<1>4. CASE /\ own[p].pending # {} /\ man[p].tries < 2 /\ UNCHANGED <<conn, faults>>
           /\ man' = [man EXCEPT ![p].pc = IF own[p].pending = {} THEN "clean" ELSE "decide", ![p].seen = db.owner]
  <2>1. OwnMoves(p)
    BY <1>4, TypesNow, LifecycleConstants DEF StopRead, tasks, LifeInd, TypeOK, OwnMoves
  <2>2. TasksMove(p)
    BY <1>4, TypesNow, LifecycleConstants DEF StopRead, tasks, LifeInd, TypeOK, TasksMove
  <2>3. RestMoves(p)
    BY <1>4, TypesNow, LifecycleConstants DEF StopRead, tasks, LifeInd, TypeOK, RestMoves
  <2>4. Moves(p)
    BY <2>1, <2>2, <2>3 DEF Moves
  <2>5. Held(p)
    BY <2>4, HeldNow
  <2>6. /\ own'[p] = own[p] /\ live'[p] = live[p] /\ conn'[p] = conn[p]
        /\ man'[p] = [man[p] EXCEPT !.pc = "decide", !.seen = db.owner] /\ rec'[p] = rec[p]
        /\ heal'[p] = heal[p] /\ up'[p] = up[p] /\ db' = db /\ by' = by
        /\ (p \in stopped' <=> p \in stopped) /\ lock' = lock /\ stops' = stops
        /\ man[p].pc = "read" /\ own[p].pending # {} /\ man[p].tries < 2
    BY <1>4, TypesNow DEF StopRead, tasks, LifeInd, TypeOK
  <2>7. man[p] \in Stops /\ db.owner \in Owned
    BY <2>5 DEF Held
  <2>8. man'[p] = [man[p] EXCEPT !.pc = "decide", !.seen = db.owner]
    BY <2>6
  <2>9. StopIs(man'[p], "decide", man[p].ctx, db.owner, man[p].tries)
    BY <2>8, <2>7, StopSeen
  <2>10. Typed(own[p], live[p], conn[p], man[p], rec[p], heal[p], up[p])'
    BY <2>6, <2>9, <2>5 DEF OwnerIs, ConnIs, StopIs, HealIs, Typed, Held
  <2>11. KnownOnly(own[p], conn[p], man[p], heal[p], up[p])'
    BY <2>6, <2>9, <2>5, LifecycleConstants DEF OwnerIs, ConnIs, StopIs, HealIs, KnownOnly, Known, Held, LifeInd, RowInv, Of
  <2>12. RowInv'
    BY <2>6, <2>9, <2>5, LifecycleConstants DEF OwnerIs, ConnIs, StopIs, HealIs, RowInv, Known, KnownOnly, LifeInd, Of
  <2>13. Fit(p, own[p], live[p], conn[p], man[p], rec[p], heal[p], up[p], p \in stopped)'
    BY <2>6, <2>9, <2>5, LifecycleConstants DEF OwnerIs, ConnIs, StopIs, HealIs, Fit, Cleaning, Held, LifeInd, Of
  <2> QED BY <2>4, <2>10, <2>11, <2>12, <2>13, Kept
<1> QED BY <1>1, <1>2, <1>3, <1>4, TypesNow DEF StopRead

\* StopDecide.
LEMMA StopDecideInd ==
  ASSUME NEW p \in Procs, LifeInd, StopDecide(p)
  PROVE  LifeInd'
<1>1. CASE Retire(p) /\ StopEnds(p, TRUE)
  <2>1. /\ Cleaning(man[p]) /\ UNCHANGED <<db, lock, by, rec, heal, up, stopped, stops, faults>>
    BY DEF StopDecide, Cleaning
  <2>2. faults' \in 0 .. MaxFaults /\ RowInv' BY <2>1, FaultIs, RowKeeps
  <2>3. OwnMoves(p) /\ live'[p] = FALSE BY <1>1, <2>1 DEF Retire, SetOwn, OwnMoves, LifeInd, TypeOK
  <2>4. own'[p] = [own[p] EXCEPT !.retired = TRUE, !.pending = {}] BY <1>1 DEF Retire, SetOwn, LifeInd, TypeOK
  <2>5. own[p] \in Owners BY TypesNow
  <2>6. OwnerIs(own'[p], own[p].id, own[p].tok, {}, own[p].manual, own[p].epoch) BY <2>4, <2>5, OwnerRetire
  <2>7. stopped' = stopped BY <2>1
  <2> QED BY <1>1, <2>1, <2>2, <2>3, <2>6, <2>7, CleanupEndsKeeps DEF OwnerIs
<1>2. CASE StopEnds(p, FALSE) /\ UNCHANGED <<own, live>>
  <2>1. /\ StopEnds(p, FALSE) /\ Cleaning(man[p]) /\ (Fault \/ UNCHANGED faults)
        /\ UNCHANGED <<own, live, db, lock, by, rec, heal, up, stopped, stops>>
    BY <1>2 DEF StopDecide, Cleaning
  <2>2. faults' \in 0 .. MaxFaults BY <2>1, FaultIs
  <2> QED BY <2>1, <2>2, CleanupOnly
<1>3. CASE /\ SetOwn(p, [own[p] EXCEPT !.pending = {}])
           /\ man' = [man EXCEPT ![p].pc = "clean"] /\ UNCHANGED <<live, conn>>
  <2>1. OwnMoves(p)
    BY <1>3, TypesNow, LifecycleConstants DEF StopDecide, tasks, LifeInd, TypeOK, SetOwn, OwnMoves
  <2>2. TasksMove(p)
    BY <1>3, TypesNow, LifecycleConstants DEF StopDecide, tasks, LifeInd, TypeOK, SetOwn, TasksMove
  <2>3. RestMoves(p)
    BY <1>3, TypesNow, LifecycleConstants DEF StopDecide, tasks, LifeInd, TypeOK, SetOwn, RestMoves
  <2>4. Moves(p)
    BY <2>1, <2>2, <2>3 DEF Moves
  <2>5. Held(p)
    BY <2>4, HeldNow
  <2>6. /\ own'[p] = [own[p] EXCEPT !.pending = {}] /\ live'[p] = live[p] /\ conn'[p] = conn[p]
        /\ man'[p] = [man[p] EXCEPT !.pc = "clean"] /\ rec'[p] = rec[p] /\ heal'[p] = heal[p]
        /\ up'[p] = up[p] /\ db' = db /\ by' = by /\ (p \in stopped' <=> p \in stopped)
        /\ lock' = lock /\ stops' = stops /\ man[p].pc = "decide"
    BY <1>3, TypesNow DEF StopDecide, tasks, LifeInd, TypeOK, SetOwn
  <2>7. own[p] \in Owners
    BY <2>5 DEF Held
  <2>8. own'[p] = [own[p] EXCEPT !.pending = {}]
    BY <2>6
  <2>9. OwnerIs(own'[p], own[p].id, own[p].tok, {}, own[p].manual, own[p].epoch)
    BY <2>8, <2>7, OwnerPend
  <2>10. man[p] \in Stops /\ db.owner \in Owned
    BY <2>5 DEF Held
  <2>11. man'[p] = [man[p] EXCEPT !.pc = "clean"]
    BY <2>6
  <2>12. StopIs(man'[p], "clean", man[p].ctx, man[p].seen, man[p].tries)
    BY <2>11, <2>10, StopPc
  <2>13. Typed(own[p], live[p], conn[p], man[p], rec[p], heal[p], up[p])'
    BY <2>6, <2>9, <2>12, <2>5 DEF OwnerIs, ConnIs, StopIs, HealIs, Typed, Held
  <2>14. KnownOnly(own[p], conn[p], man[p], heal[p], up[p])'
    BY <2>6, <2>9, <2>12, <2>5, LifecycleConstants DEF OwnerIs, ConnIs, StopIs, HealIs, KnownOnly, Known, Held, LifeInd, RowInv, Of
  <2>15. RowInv'
    BY <2>6, <2>9, <2>12, <2>5, LifecycleConstants DEF OwnerIs, ConnIs, StopIs, HealIs, RowInv, Known, KnownOnly, LifeInd, Of
  <2>16. Fit(p, own[p], live[p], conn[p], man[p], rec[p], heal[p], up[p], p \in stopped)'
    BY <2>6, <2>9, <2>12, <2>5, LifecycleConstants DEF OwnerIs, ConnIs, StopIs, HealIs, Fit, Cleaning, Held, LifeInd, Of
  <2> QED BY <2>4, <2>13, <2>14, <2>15, <2>16, Kept
<1>4. CASE man' = [man EXCEPT ![p].pc = "restore"] /\ UNCHANGED <<own, live, conn>>
  <2>1. OwnMoves(p)
    BY <1>4, TypesNow, LifecycleConstants DEF StopDecide, tasks, LifeInd, TypeOK, SetOwn, OwnMoves
  <2>2. TasksMove(p)
    BY <1>4, TypesNow, LifecycleConstants DEF StopDecide, tasks, LifeInd, TypeOK, SetOwn, TasksMove
  <2>3. RestMoves(p)
    BY <1>4, TypesNow, LifecycleConstants DEF StopDecide, tasks, LifeInd, TypeOK, SetOwn, RestMoves
  <2>4. Moves(p)
    BY <2>1, <2>2, <2>3 DEF Moves
  <2>5. Held(p)
    BY <2>4, HeldNow
  <2>6. /\ own'[p] = own[p] /\ live'[p] = live[p] /\ conn'[p] = conn[p]
        /\ man'[p] = [man[p] EXCEPT !.pc = "restore"] /\ rec'[p] = rec[p] /\ heal'[p] = heal[p]
        /\ up'[p] = up[p] /\ db' = db /\ by' = by /\ (p \in stopped' <=> p \in stopped)
        /\ lock' = lock /\ stops' = stops /\ man[p].pc = "decide"
    BY <1>4, TypesNow DEF StopDecide, tasks, LifeInd, TypeOK, SetOwn
  <2>7. man[p] \in Stops /\ db.owner \in Owned
    BY <2>5 DEF Held
  <2>8. man'[p] = [man[p] EXCEPT !.pc = "restore"]
    BY <2>6
  <2>9. StopIs(man'[p], "restore", man[p].ctx, man[p].seen, man[p].tries)
    BY <2>8, <2>7, StopPc
  <2>10. Typed(own[p], live[p], conn[p], man[p], rec[p], heal[p], up[p])'
    BY <2>6, <2>9, <2>5 DEF OwnerIs, ConnIs, StopIs, HealIs, Typed, Held
  <2>11. KnownOnly(own[p], conn[p], man[p], heal[p], up[p])'
    BY <2>6, <2>9, <2>5, LifecycleConstants DEF OwnerIs, ConnIs, StopIs, HealIs, KnownOnly, Known, Held, LifeInd, RowInv, Of
  <2>12. RowInv'
    BY <2>6, <2>9, <2>5, LifecycleConstants DEF OwnerIs, ConnIs, StopIs, HealIs, RowInv, Known, KnownOnly, LifeInd, Of
  <2>13. Fit(p, own[p], live[p], conn[p], man[p], rec[p], heal[p], up[p], p \in stopped)'
    BY <2>6, <2>9, <2>5, LifecycleConstants DEF OwnerIs, ConnIs, StopIs, HealIs, Fit, Cleaning, Held, LifeInd, Of
  <2> QED BY <2>4, <2>10, <2>11, <2>12, <2>13, Kept
<1>5. CASE LifecycleCurrent(p, man[p].ctx)
  <2>2. \/ Retire(p) /\ StopEnds(p, LifecycleCurrent(p, man[p].ctx))
        \/ /\ SetOwn(p, [own[p] EXCEPT !.pending = {}])
           /\ man' = [man EXCEPT ![p].pc = "clean"] /\ UNCHANGED <<live, conn>>
        \/ man' = [man EXCEPT ![p].pc = "restore"] /\ UNCHANGED <<own, live, conn>>
    BY <1>5 DEF StopDecide
  <2>3. StopEnds(p, LifecycleCurrent(p, man[p].ctx)) => StopEnds(p, TRUE)
    BY <1>5 DEF StopEnds
  <2> QED BY <1>1, <1>3, <1>4, <2>2, <2>3
<1>6. CASE ~ LifecycleCurrent(p, man[p].ctx)
  <2>1. StopEnds(p, LifecycleCurrent(p, man[p].ctx)) /\ UNCHANGED <<own, live>>
    BY <1>6 DEF StopDecide
  <2>2. StopEnds(p, LifecycleCurrent(p, man[p].ctx)) => StopEnds(p, FALSE)
    BY <1>6 DEF StopEnds
  <2> QED BY <1>2, <2>1, <2>2
<1> QED BY <1>5, <1>6

\* StopRestore.
LEMMA StopRestoreInd ==
  ASSUME NEW p \in Procs, LifeInd, StopRestore(p)
  PROVE  LifeInd'
<1>1. CASE /\ db' \in {db, [owner |-> man[p].ctx.tok, status |-> "close", why |-> "manual"]}
           /\ Fault /\ UNCHANGED own
           /\ man' = [man EXCEPT ![p].pc = "read", ![p].tries = @ + 1]
  <2>1. /\ [owner |-> man[p].ctx.tok, status |-> "close", why |-> "manual"] \in Rows /\ [owner |-> man[p].ctx.tok, status |-> "close", why |-> "manual"].owner = man[p].ctx.tok
        /\ man[p].ctx.tok \in Owned /\ Known(man[p].ctx.tok)
    BY ManualTypes DEF Rows
  <2>2. man[p].tries \in 0 .. 2 /\ man[p].tries < 2
    BY ManualTypes DEF StopRestore, LifeInd, Of, Fit
  <2>3. OwnMoves(p)
    BY <1>1, TypesNow, LifecycleConstants DEF StopRestore, tasks, LifeInd, TypeOK, SetOwn, OwnMoves
  <2>4. TasksMove(p)
    BY <1>1, TypesNow, LifecycleConstants DEF StopRestore, tasks, LifeInd, TypeOK, SetOwn, TasksMove
  <2>5. RestMoves(p)
    <3>1. UNCHANGED <<lock, by, stopped, stops>> BY DEF StopRestore
    <3>2. faults' \in 0 .. MaxFaults BY <1>1, FaultIs
    <3> QED BY <3>1, <3>2, LifecycleConstants DEF RestMoves, LifeInd, TypeOK
  <2>6. Moves(p)
    BY <2>3, <2>4, <2>5 DEF Moves
  <2>7. Held(p)
    BY <2>6, HeldNow
  <2>8. /\ own'[p] = own[p] /\ live'[p] = live[p] /\ conn'[p] = conn[p]
        /\ man'[p] = [man[p] EXCEPT !.pc = "read", !.tries = man[p].tries + 1]
        /\ rec'[p] = rec[p] /\ heal'[p] = heal[p] /\ up'[p] = up[p]
        /\ db' = db \/ db' = [owner |-> man[p].ctx.tok, status |-> "close", why |-> "manual"]
        /\ by' = by /\ (p \in stopped' <=> p \in stopped) /\ lock' = lock /\ stops' = stops
        /\ man[p].pc = "restore" /\ own'[p] = own[p]
    BY <1>1, TypesNow DEF StopRestore, tasks, LifeInd, TypeOK, SetOwn
  <2>9. man[p] \in Stops /\ man[p].tries + 1 \in 0 .. 2
    BY <2>7, <2>2 DEF Held
  <2>10. man'[p] = [man[p] EXCEPT !.pc = "read", !.tries = man[p].tries + 1]
    BY <2>8
  <2>11. StopIs(man'[p], "read", man[p].ctx, man[p].seen, (man[p].tries + 1))
    BY <2>10, <2>9, StopAgain
  <2>12. db \in Rows
    BY <2>7, <2>1 DEF Held
  <2>13. db' = db \/ db' = [owner |-> man[p].ctx.tok, status |-> "close", why |-> "manual"]
    BY <2>8
  <2>14. db' = db \/ (db' \in Rows /\ db'.owner = man[p].ctx.tok /\ Known(man[p].ctx.tok))
    BY <2>13, <2>12, <2>1
  <2>15. Typed(own[p], live[p], conn[p], man[p], rec[p], heal[p], up[p])'
    BY <2>8, <2>11, <2>14, <2>7 DEF OwnerIs, ConnIs, StopIs, HealIs, Typed, Held
  <2>16. KnownOnly(own[p], conn[p], man[p], heal[p], up[p])'
    BY <2>8, <2>11, <2>14, <2>7, LifecycleConstants DEF OwnerIs, ConnIs, StopIs, HealIs, KnownOnly, Known, Held, LifeInd, RowInv, Of
  <2>17. RowInv'
    BY <2>8, <2>11, <2>14, <2>7, LifecycleConstants DEF OwnerIs, ConnIs, StopIs, HealIs, RowInv, Known, KnownOnly, LifeInd, Of
  <2>18. Fit(p, own[p], live[p], conn[p], man[p], rec[p], heal[p], up[p], p \in stopped)'
    BY <2>8, <2>11, <2>14, <2>7, LifecycleConstants DEF OwnerIs, ConnIs, StopIs, HealIs, Fit, Cleaning, Held, LifeInd, Of
  <2> QED BY <2>6, <2>15, <2>16, <2>17, <2>18, Kept
<1>2. CASE /\ db' = [owner |-> man[p].ctx.tok, status |-> "close", why |-> "manual"] /\ UNCHANGED faults
           /\ SetOwn(p, [own[p] EXCEPT !.pending = {}]) /\ man' = [man EXCEPT ![p].pc = "clean"]
  <2>1. /\ [owner |-> man[p].ctx.tok, status |-> "close", why |-> "manual"] \in Rows /\ [owner |-> man[p].ctx.tok, status |-> "close", why |-> "manual"].owner = man[p].ctx.tok
        /\ man[p].ctx.tok \in Owned /\ Known(man[p].ctx.tok)
    BY ManualTypes DEF Rows
  <2>2. OwnMoves(p)
    BY <1>2, TypesNow, LifecycleConstants DEF StopRestore, tasks, LifeInd, TypeOK, SetOwn, OwnMoves
  <2>3. TasksMove(p)
    BY <1>2, TypesNow, LifecycleConstants DEF StopRestore, tasks, LifeInd, TypeOK, SetOwn, TasksMove
  <2>4. RestMoves(p)
    BY <1>2, TypesNow, LifecycleConstants DEF StopRestore, tasks, LifeInd, TypeOK, SetOwn, RestMoves
  <2>5. Moves(p)
    BY <2>2, <2>3, <2>4 DEF Moves
  <2>6. Held(p)
    BY <2>5, HeldNow
  <2>7. /\ own'[p] = [own[p] EXCEPT !.pending = {}] /\ live'[p] = live[p] /\ conn'[p] = conn[p]
        /\ man'[p] = [man[p] EXCEPT !.pc = "clean"] /\ rec'[p] = rec[p] /\ heal'[p] = heal[p]
        /\ up'[p] = up[p]
        /\ db' = [owner |-> man[p].ctx.tok, status |-> "close", why |-> "manual"] /\ by' = by
        /\ (p \in stopped' <=> p \in stopped) /\ lock' = lock /\ stops' = stops
        /\ man[p].pc = "restore"
    BY <1>2, TypesNow DEF StopRestore, tasks, LifeInd, TypeOK, SetOwn
  <2>8. own[p] \in Owners
    BY <2>6 DEF Held
  <2>9. own'[p] = [own[p] EXCEPT !.pending = {}]
    BY <2>7
  <2>10. OwnerIs(own'[p], own[p].id, own[p].tok, {}, own[p].manual, own[p].epoch)
    BY <2>9, <2>8, OwnerPend
  <2>11. man[p] \in Stops /\ db.owner \in Owned
    BY <2>6 DEF Held
  <2>12. man'[p] = [man[p] EXCEPT !.pc = "clean"]
    BY <2>7
  <2>13. StopIs(man'[p], "clean", man[p].ctx, man[p].seen, man[p].tries)
    BY <2>12, <2>11, StopPc
  <2>14. db \in Rows
    BY <2>6, <2>1 DEF Held
  <2>15. db' = [owner |-> man[p].ctx.tok, status |-> "close", why |-> "manual"]
    BY <2>7
  <2>16. db' \in Rows /\ db'.owner = man[p].ctx.tok /\ Known(man[p].ctx.tok)
    BY <2>15, <2>14, <2>1
  <2>17. Typed(own[p], live[p], conn[p], man[p], rec[p], heal[p], up[p])'
    BY <2>7, <2>10, <2>13, <2>16, <2>6 DEF OwnerIs, ConnIs, StopIs, HealIs, Typed, Held
  <2>18. KnownOnly(own[p], conn[p], man[p], heal[p], up[p])'
    BY <2>7, <2>10, <2>13, <2>16, <2>6, LifecycleConstants DEF OwnerIs, ConnIs, StopIs, HealIs, KnownOnly, Known, Held, LifeInd, RowInv, Of
  <2>19. RowInv'
    BY <2>7, <2>10, <2>13, <2>16, <2>6, LifecycleConstants DEF OwnerIs, ConnIs, StopIs, HealIs, RowInv, Known, KnownOnly, LifeInd, Of
  <2>20. Fit(p, own[p], live[p], conn[p], man[p], rec[p], heal[p], up[p], p \in stopped)'
    BY <2>7, <2>10, <2>13, <2>16, <2>6, LifecycleConstants DEF OwnerIs, ConnIs, StopIs, HealIs, Fit, Cleaning, Held, LifeInd, Of
  <2> QED BY <2>5, <2>17, <2>18, <2>19, <2>20, Kept
<1>3. CASE /\ db' = db /\ UNCHANGED <<own, faults>>
           /\ man' = [man EXCEPT ![p].pc = "read", ![p].tries = @ + 1]
  <2>1. /\ [owner |-> man[p].ctx.tok, status |-> "close", why |-> "manual"] \in Rows /\ [owner |-> man[p].ctx.tok, status |-> "close", why |-> "manual"].owner = man[p].ctx.tok
        /\ man[p].ctx.tok \in Owned /\ Known(man[p].ctx.tok)
    BY ManualTypes DEF Rows
  <2>2. man[p].tries \in 0 .. 2 /\ man[p].tries < 2
    BY ManualTypes DEF StopRestore, LifeInd, Of, Fit
  <2>3. OwnMoves(p)
    BY <1>3, TypesNow, LifecycleConstants DEF StopRestore, tasks, LifeInd, TypeOK, SetOwn, OwnMoves
  <2>4. TasksMove(p)
    BY <1>3, TypesNow, LifecycleConstants DEF StopRestore, tasks, LifeInd, TypeOK, SetOwn, TasksMove
  <2>5. RestMoves(p)
    BY <1>3, TypesNow, LifecycleConstants DEF StopRestore, tasks, LifeInd, TypeOK, SetOwn, RestMoves
  <2>6. Moves(p)
    BY <2>3, <2>4, <2>5 DEF Moves
  <2>7. Held(p)
    BY <2>6, HeldNow
  <2>8. /\ own'[p] = own[p] /\ live'[p] = live[p] /\ conn'[p] = conn[p]
        /\ man'[p] = [man[p] EXCEPT !.pc = "read", !.tries = man[p].tries + 1]
        /\ rec'[p] = rec[p] /\ heal'[p] = heal[p] /\ up'[p] = up[p] /\ db' = db /\ by' = by
        /\ (p \in stopped' <=> p \in stopped) /\ lock' = lock /\ stops' = stops
        /\ man[p].pc = "restore"
    BY <1>3, TypesNow DEF StopRestore, tasks, LifeInd, TypeOK, SetOwn
  <2>9. man[p] \in Stops /\ man[p].tries + 1 \in 0 .. 2
    BY <2>7, <2>2 DEF Held
  <2>10. man'[p] = [man[p] EXCEPT !.pc = "read", !.tries = man[p].tries + 1]
    BY <2>8
  <2>11. StopIs(man'[p], "read", man[p].ctx, man[p].seen, (man[p].tries + 1))
    BY <2>10, <2>9, StopAgain
  <2>12. Typed(own[p], live[p], conn[p], man[p], rec[p], heal[p], up[p])'
    BY <2>8, <2>11, <2>7 DEF OwnerIs, ConnIs, StopIs, HealIs, Typed, Held
  <2>13. KnownOnly(own[p], conn[p], man[p], heal[p], up[p])'
    BY <2>8, <2>11, <2>7, LifecycleConstants DEF OwnerIs, ConnIs, StopIs, HealIs, KnownOnly, Known, Held, LifeInd, RowInv, Of
  <2>14. RowInv'
    BY <2>8, <2>11, <2>7, LifecycleConstants DEF OwnerIs, ConnIs, StopIs, HealIs, RowInv, Known, KnownOnly, LifeInd, Of
  <2>15. Fit(p, own[p], live[p], conn[p], man[p], rec[p], heal[p], up[p], p \in stopped)'
    BY <2>8, <2>11, <2>7, LifecycleConstants DEF OwnerIs, ConnIs, StopIs, HealIs, Fit, Cleaning, Held, LifeInd, Of
  <2> QED BY <2>6, <2>12, <2>13, <2>14, <2>15, Kept
<1> QED BY <1>1, <1>2, <1>3, TypesNow DEF StopRestore, SetOwn

\* StopClean.
LEMMA StopCleanInd ==
  ASSUME NEW p \in Procs, LifeInd, StopClean(p)
  PROVE  LifeInd'
<1>1. CASE /\ LifecycleCurrent(p, man[p].ctx) /\ db' = Cleaned(p) /\ SetOwn(p, [own[p] EXCEPT !.deleting = man[p].remove])
           /\ live' = [live EXCEPT ![p] = FALSE]
           /\ stopped' = (IF conn[p].pc = "idle" THEN stopped \cup {p} ELSE stopped)
           /\ StopEnds(p, TRUE) /\ UNCHANGED faults
  <2>1. /\ man[p].pc = "clean" /\ Unlocked /\ UNCHANGED <<lock, by, rec, heal, up, stops>>
    BY DEF StopClean
  <2>2. faults' \in 0 .. MaxFaults BY <1>1, FaultIs
  <2>3. RowInv'
    <3>1. db \in Rows /\ Known(db.owner) BY DEF LifeInd, RowInv
    <3>2. Cleaned(p) \in Rows /\ Cleaned(p).owner = db.owner
      <4>1. ASSUME NEW r \in Rows, NEW w \in {"none", "suspended", "manual"}
            PROVE  [r EXCEPT !.status = "close", !.why = w] \in Rows /\ [r EXCEPT !.status = "close", !.why = w].owner = r.owner
        BY DEF Rows
      <4>2. PICK w \in {"none", "suspended", "manual"} : Cleaned(p) = [db EXCEPT !.status = "close", !.why = w]
        <5>1. [db EXCEPT !.status = "close"].why = db.why /\ db.why \in {"none", "suspended", "manual"}
          BY <3>1 DEF Rows
        <5>2. CASE db.why = "suspended"
          <6>1. Cleaned(p) = [db EXCEPT !.status = "close", !.why = "manual"] BY <5>1, <5>2 DEF Cleaned
          <6> QED BY <6>1
        <5>3. CASE db.why # "suspended"
          <6>1. Cleaned(p) = [db EXCEPT !.status = "close", !.why = db.why] BY <5>1, <5>3 DEF Cleaned
          <6> QED BY <5>1, <6>1
        <5> QED BY <5>1, <5>2, <5>3
      <4>3. [db EXCEPT !.status = "close", !.why = w] \in Rows /\ [db EXCEPT !.status = "close", !.why = w].owner = db.owner
        BY <3>1, <4>1
      <4> QED BY <4>2, <4>3
    <3>3. Cleaned(p).owner \in Owned BY <3>1, <3>2 DEF Rows
    <3> QED BY <1>1, <2>1, <3>1, <3>2, <3>3, RowKeeps
  <2>4. OwnMoves(p) /\ live'[p] = FALSE BY <1>1, <2>1 DEF SetOwn, OwnMoves, LifeInd, TypeOK
  <2>5. own[p] \in Owners /\ man[p].remove \in BOOLEAN BY DEF LifeInd, TypeOK, Stops
  <2>6. own'[p] = [own[p] EXCEPT !.deleting = man[p].remove] BY <1>1 DEF SetOwn, LifeInd, TypeOK
  <2>7. OwnerIs(own'[p], own[p].id, own[p].tok, own[p].pending, own[p].manual, own[p].epoch)
    BY <2>5, <2>6, OwnerDelete
  <2>8. own[p].manual /\ own[p].id # NoToken /\ own[p].pending = {}
    BY <1>1, <2>1 DEF LifeInd, Of, Fit, Cleaning, LifecycleCurrent
  <2>9. rec[p].pc # "write" BY <2>1, LifecycleConstants DEF Unlocked, LifeInd, Of, Fit
  <2>10. Cleaning(man[p]) BY <2>1 DEF Cleaning
  <2>11. stopped' = stopped \/ (stopped' = stopped \cup {p} /\ conn[p].pc = "idle") BY <1>1
  <2>12. own'[p] \in Owners /\ own'[p].id = own[p].id /\ own'[p].tok = own[p].tok
        /\ own'[p].pending \subseteq own[p].pending /\ own'[p].manual = own[p].manual
        /\ own'[p].epoch = own[p].epoch
    BY <2>7 DEF OwnerIs
  <2> QED BY <1>1, <2>1, <2>2, <2>3, <2>4, <2>8, <2>9, <2>10, <2>11, <2>12, CleanupEndsKeeps
<1>2. CASE StopEnds(p, FALSE) /\ UNCHANGED <<db, own, live, stopped, faults>>
  <2>1. /\ StopEnds(p, FALSE) /\ Cleaning(man[p]) /\ (Fault \/ UNCHANGED faults)
        /\ UNCHANGED <<own, live, db, lock, by, rec, heal, up, stopped, stops>>
    BY <1>2 DEF StopClean, Cleaning
  <2>2. faults' \in 0 .. MaxFaults BY <2>1, FaultIs
  <2> QED BY <2>1, <2>2, CleanupOnly
<1>3. CASE Fault /\ StopEnds(p, FALSE) /\ UNCHANGED <<db, own, live, stopped>>
  <2>1. /\ StopEnds(p, FALSE) /\ Cleaning(man[p]) /\ (Fault \/ UNCHANGED faults)
        /\ UNCHANGED <<own, live, db, lock, by, rec, heal, up, stopped, stops>>
    BY <1>3 DEF StopClean, Cleaning
  <2>2. faults' \in 0 .. MaxFaults BY <2>1, FaultIs
  <2> QED BY <2>1, <2>2, CleanupOnly
<1> QED BY <1>1, <1>2, <1>3, TypesNow DEF StopClean

\* ManualStop.
LEMMA ManualStopInd ==
  ASSUME NEW p \in Procs, LifeInd, ManualStop(p)
  PROVE  LifeInd'
<1>1. CASE own[p].id = NoToken
  <2>1. own[p].epoch \in Nat /\ own[p].epoch <= stops /\ stops \in Nat
    BY ManualTypes
  <2>2. NoContext.id = NoToken /\ NoContext.tok = NoToken
    BY DEF NoContext
  <2>3. OwnMoves(p)
    BY <1>1, TypesNow, LifecycleConstants DEF ManualStop, tasks, LifeInd, TypeOK, Running, OwnMoves
  <2>4. TasksMove(p)
    BY <1>1, TypesNow, LifecycleConstants DEF ManualStop, tasks, LifeInd, TypeOK, Running, TasksMove
  <2>5. RestMoves(p)
    BY <1>1, TypesNow, LifecycleConstants DEF ManualStop, tasks, LifeInd, TypeOK, Running, RestMoves
  <2>6. Moves(p)
    BY <2>3, <2>4, <2>5 DEF Moves
  <2>7. Held(p)
    BY <2>6, HeldNow
  <2>8. /\ own'[p] = own[p] /\ live'[p] = live[p] /\ conn'[p] = conn[p]
        /\ man'[p] = [NoStop EXCEPT !.pc = "adopt", !.seen = db.owner] /\ rec'[p] = rec[p]
        /\ heal'[p] = heal[p] /\ up'[p] = up[p] /\ db' = db /\ by' = by
        /\ (p \in stopped' <=> p \in stopped) /\ lock' = lock /\ stops' = stops + 1
        /\ own[p].id = NoToken /\ man[p].pc = "idle" /\ up[p].pc = "up"
        /\ own[p].epoch <= stops /\ NoContext.id = NoToken /\ NoContext.tok = NoToken
    BY <1>1, TypesNow, <2>1, <2>2 DEF ManualStop, tasks, LifeInd, TypeOK, Running
  <2>9. man[p] \in Stops /\ db.owner \in Owned
    BY <2>7 DEF Held
  <2>10. man'[p] = [NoStop EXCEPT !.pc = "adopt", !.seen = db.owner]
    BY <2>8
  <2>11. StopIs(man'[p], "adopt", NoContext, db.owner, 0)
    BY <2>10, <2>9, StopAdopt
  <2>12. Typed(own[p], live[p], conn[p], man[p], rec[p], heal[p], up[p])'
    BY <2>8, <2>11, <2>7 DEF OwnerIs, ConnIs, StopIs, HealIs, Typed, Held
  <2>13. KnownOnly(own[p], conn[p], man[p], heal[p], up[p])'
    BY <2>8, <2>11, <2>7, LifecycleConstants DEF OwnerIs, ConnIs, StopIs, HealIs, KnownOnly, Known, Held, LifeInd, RowInv, Of
  <2>14. RowInv'
    BY <2>8, <2>11, <2>7, LifecycleConstants DEF OwnerIs, ConnIs, StopIs, HealIs, RowInv, Known, KnownOnly, LifeInd, Of
  <2>15. Fit(p, own[p], live[p], conn[p], man[p], rec[p], heal[p], up[p], p \in stopped)'
    BY <2>8, <2>11, <2>7, LifecycleConstants DEF OwnerIs, ConnIs, StopIs, HealIs, Fit, Cleaning, Held, LifeInd, Of
  <2> QED BY <2>6, <2>12, <2>13, <2>14, <2>15, Kept
<1>2. CASE own[p].id # NoToken
  <2>1. PICK b \in BOOLEAN : StopOwner(p, own[p], b)
    BY <1>2 DEF ManualStop
  <2>2. /\ own[p] \in Owners /\ own[p].epoch < MaxStops /\ own[p].epoch <= stops
        /\ own[p].epoch \in Nat /\ stops \in Nat
    BY ManualTypes, TypesNow DEF ManualStop
  <2>3. UNCHANGED <<db, lock, by, live, conn, rec, heal, up, stopped, faults>> /\ stops' = stops + 1 /\ up[p].pc = "up"
    BY DEF ManualStop, Running
  <2>4. /\ own' = [own EXCEPT ![p] = own'[p]] /\ man' = [man EXCEPT ![p] = man'[p]]
        /\ OwnerIs(own'[p], own[p].id, own[p].tok, own[p].pending, TRUE, own[p].epoch + 1)
        /\ Cleaning(man[p]) => man'[p] = man[p]
        /\ ~ Cleaning(man[p]) =>
             /\ StopIs(man'[p], man'[p].pc, man'[p].ctx, NoToken, 0)
             /\ man'[p].pc = IF conn[p].pc = "idle" THEN "read" ELSE "wait"
             /\ man'[p].ctx.id = own[p].id /\ man'[p].ctx.tok = own[p].tok
    <3>1. Stopped(p, own[p]) BY <2>1, <2>2, StopOwnerIs
    <3> QED BY <3>1 DEF Stopped
  <2>5. OwnMoves(p)
    BY <2>4, <2>3 DEF OwnMoves, LifeInd, TypeOK
  <2>6. TasksMove(p)
    BY <2>4, <2>3 DEF TasksMove, LifeInd, TypeOK
  <2>7. RestMoves(p)
    BY <1>2, TypesNow, LifecycleConstants DEF ManualStop, tasks, LifeInd, TypeOK, Running, RestMoves
  <2>8. Moves(p)
    BY <2>5, <2>6, <2>7 DEF Moves
  <2>9. Held(p)
    BY <2>8, HeldNow
  <2>10. /\ live'[p] = live[p] /\ conn'[p] = conn[p] /\ rec'[p] = rec[p] /\ heal'[p] = heal[p]
         /\ up'[p] = up[p] /\ db' = db /\ by' = by /\ (p \in stopped' <=> p \in stopped)
         /\ lock' = lock /\ stops' = stops + 1 /\ own[p].id # NoToken /\ up[p].pc = "up"
         /\ own[p].epoch <= stops
    BY <1>2, <2>2, <2>3, <2>4 DEF tasks, LifeInd, TypeOK
  <2>11. own[p] \in Owners /\ own[p].tok \in Owned /\ own[p].id \in Ids /\ own[p].pending \in SUBSET Tokens
    BY <2>9 DEF Held
  <2>12. /\ own'[p] \in Owners /\ own'[p].id = own[p].id /\ own'[p].tok = own[p].tok
         /\ own'[p].pending = own[p].pending /\ own'[p].manual = TRUE /\ own'[p].epoch = own[p].epoch + 1
    BY <2>10, <2>11, <2>4 DEF OwnerIs
  <2>13. man[p] \in Stops /\ db.owner \in Owned
    BY <2>9 DEF Held
  <2>14. /\ man'[p] \in Stops
         /\ Cleaning(man[p]) => man'[p] = man[p]
         /\ ~ Cleaning(man[p]) =>
              /\ man'[p].seen = NoToken /\ man'[p].tries = 0
              /\ man'[p].pc = IF conn[p].pc = "idle" THEN "read" ELSE "wait"
              /\ man'[p].ctx.id = own[p].id /\ man'[p].ctx.tok = own[p].tok
    BY <2>10, <2>13, <2>4 DEF StopIs
  <2>15. Typed(own[p], live[p], conn[p], man[p], rec[p], heal[p], up[p])'
    BY <2>10, <2>12, <2>14, <2>9 DEF OwnerIs, ConnIs, StopIs, HealIs, Typed, Held
  <2>16. KnownOnly(own[p], conn[p], man[p], heal[p], up[p])'
    BY <2>10, <2>12, <2>14, <2>9, LifecycleConstants DEF OwnerIs, ConnIs, StopIs, HealIs, KnownOnly, Known, Held, LifeInd, RowInv, Of
  <2>17. RowInv'
    BY <2>10, <2>12, <2>14, <2>9, LifecycleConstants DEF OwnerIs, ConnIs, StopIs, HealIs, RowInv, Known, KnownOnly, LifeInd, Of
  <2>18. Fit(p, own[p], live[p], conn[p], man[p], rec[p], heal[p], up[p], p \in stopped)'
    BY <2>10, <2>12, <2>14, <2>9, LifecycleConstants DEF OwnerIs, ConnIs, StopIs, HealIs, Fit, Cleaning, Held, LifeInd, Of
  <2> QED BY <2>8, <2>15, <2>16, <2>17, <2>18, Kept
<1> QED BY <1>1, <1>2, TypesNow DEF ManualStop, Running

\* AdoptOwner.
LEMMA AdoptOwnerInd ==
  ASSUME NEW p \in Procs, LifeInd, AdoptOwner(p)
  PROVE  LifeInd'
<1>1. CASE man' = [man EXCEPT ![p] = NoStop] /\ UNCHANGED own
  <2>1. NoContext.id = NoToken /\ NoContext.tok = NoToken
    BY DEF NoContext
  <2>2. OwnMoves(p)
    BY <1>1, TypesNow, LifecycleConstants DEF AdoptOwner, tasks, LifeInd, TypeOK, OwnMoves
  <2>3. TasksMove(p)
    BY <1>1, TypesNow, LifecycleConstants DEF AdoptOwner, tasks, LifeInd, TypeOK, TasksMove
  <2>4. RestMoves(p)
    BY <1>1, TypesNow, LifecycleConstants DEF AdoptOwner, tasks, LifeInd, TypeOK, RestMoves
  <2>5. Moves(p)
    BY <2>2, <2>3, <2>4 DEF Moves
  <2>6. Held(p)
    BY <2>5, HeldNow
  <2>7. /\ own'[p] = own[p] /\ live'[p] = live[p] /\ conn'[p] = conn[p] /\ man'[p] = NoStop
        /\ rec'[p] = rec[p] /\ heal'[p] = heal[p] /\ up'[p] = up[p] /\ db' = db /\ by' = by
        /\ (p \in stopped' <=> p \in stopped) /\ lock' = lock /\ stops' = stops
        /\ man[p].pc = "adopt" /\ NoContext.id = NoToken /\ NoContext.tok = NoToken
    BY <1>1, TypesNow, <2>1 DEF AdoptOwner, tasks, LifeInd, TypeOK
  <2>8. man[p] \in Stops /\ db.owner \in Owned
    BY <2>6 DEF Held
  <2>9. man'[p] = NoStop
    BY <2>7
  <2>10. StopIs(man'[p], "idle", NoContext, NoToken, 0)
    BY <2>9, <2>8, StopNone
  <2>11. Typed(own[p], live[p], conn[p], man[p], rec[p], heal[p], up[p])'
    BY <2>7, <2>10, <2>6 DEF OwnerIs, ConnIs, StopIs, HealIs, Typed, Held
  <2>12. KnownOnly(own[p], conn[p], man[p], heal[p], up[p])'
    BY <2>7, <2>10, <2>6, LifecycleConstants DEF OwnerIs, ConnIs, StopIs, HealIs, KnownOnly, Known, Held, LifeInd, RowInv, Of
  <2>13. RowInv'
    BY <2>7, <2>10, <2>6, LifecycleConstants DEF OwnerIs, ConnIs, StopIs, HealIs, RowInv, Known, KnownOnly, LifeInd, Of
  <2>14. Fit(p, own[p], live[p], conn[p], man[p], rec[p], heal[p], up[p], p \in stopped)'
    BY <2>7, <2>10, <2>6, LifecycleConstants DEF OwnerIs, ConnIs, StopIs, HealIs, Fit, Cleaning, Held, LifeInd, Of
  <2> QED BY <2>5, <2>11, <2>12, <2>13, <2>14, Kept
<1>2. CASE own[p].id = NoToken /\ StopOwner(p, [NoOwner EXCEPT !.id = Placeholder, !.tok = man[p].seen], FALSE)
  <2>1. OwnerIs([NoOwner EXCEPT !.id = Placeholder, !.tok = man[p].seen], Placeholder, man[p].seen, {}, FALSE, 0)
    BY TypesNow, OwnerPlaced DEF Ids
  <2>2. /\ [NoOwner EXCEPT !.id = Placeholder, !.tok = man[p].seen] \in Owners /\ [NoOwner EXCEPT !.id = Placeholder, !.tok = man[p].seen].id = Placeholder /\ [NoOwner EXCEPT !.id = Placeholder, !.tok = man[p].seen].tok = man[p].seen
        /\ [NoOwner EXCEPT !.id = Placeholder, !.tok = man[p].seen].pending = {} /\ [NoOwner EXCEPT !.id = Placeholder, !.tok = man[p].seen].epoch = 0
    BY <2>1 DEF OwnerIs
  <2>3. UNCHANGED <<db, lock, by, live, conn, rec, heal, up, stopped, stops, faults>> /\ man[p].pc = "adopt"
    BY DEF AdoptOwner
  <2>4. 0 < MaxStops /\ 1 <= stops
    BY <2>3, ManualTypes
  <2>5. [NoOwner EXCEPT !.id = Placeholder, !.tok = man[p].seen].epoch < MaxStops
    BY <2>2, <2>4
  <2>6. /\ own' = [own EXCEPT ![p] = own'[p]] /\ man' = [man EXCEPT ![p] = man'[p]]
        /\ OwnerIs(own'[p], Placeholder, man[p].seen, {}, TRUE, 0 + 1)
        /\ Cleaning(man[p]) => man'[p] = man[p]
        /\ ~ Cleaning(man[p]) =>
             /\ StopIs(man'[p], man'[p].pc, man'[p].ctx, NoToken, 0)
             /\ man'[p].pc = IF conn[p].pc = "idle" THEN "read" ELSE "wait"
             /\ man'[p].ctx.id = Placeholder /\ man'[p].ctx.tok = man[p].seen
    <3>1. PICK r : r = [NoOwner EXCEPT !.id = Placeholder, !.tok = man[p].seen] OBVIOUS
    <3>2. PICK b \in BOOLEAN : StopOwner(p, r, b) BY <1>2, <3>1
    <3>3. r \in Owners /\ r.epoch < MaxStops BY <2>2, <2>5, <3>1
    <3>4. Stopped(p, r) BY <3>2, <3>3, StopOwnerIs
    <3>5. r.id = Placeholder /\ r.tok = man[p].seen /\ r.pending = {} /\ r.epoch = 0 BY <2>2, <3>1
    <3> HIDE <3>1
    <3> QED BY <3>4, <3>5 DEF Stopped
  <2>7. OwnMoves(p)
    BY <2>6, <2>3 DEF OwnMoves, LifeInd, TypeOK
  <2>8. TasksMove(p)
    BY <2>6, <2>3 DEF TasksMove, LifeInd, TypeOK
  <2>9. RestMoves(p)
    BY <2>3, LifecycleConstants DEF RestMoves, LifeInd, TypeOK
  <2>10. Moves(p)
    BY <2>7, <2>8, <2>9 DEF Moves
  <2>11. Held(p)
    BY <2>10, HeldNow
  <2>12. /\ live'[p] = live[p] /\ conn'[p] = conn[p] /\ rec'[p] = rec[p] /\ heal'[p] = heal[p]
         /\ up'[p] = up[p] /\ db' = db /\ by' = by /\ (p \in stopped' <=> p \in stopped)
         /\ lock' = lock /\ stops' = stops /\ own[p].id = NoToken /\ man[p].pc = "adopt"
         /\ 1 <= stops
    BY <1>2, <2>3, <2>4, <2>6 DEF tasks, LifeInd, TypeOK
  <2>13. own[p] \in Owners /\ own[p].tok \in Owned /\ own[p].id \in Ids /\ own[p].pending \in SUBSET Tokens
    BY <2>11 DEF Held
  <2>14. /\ own'[p] \in Owners /\ own'[p].id = Placeholder /\ own'[p].tok = man[p].seen
         /\ own'[p].pending = {} /\ own'[p].manual = TRUE /\ own'[p].epoch = 1
    BY <2>12, <2>13, <2>6 DEF OwnerIs
  <2>15. man[p] \in Stops /\ db.owner \in Owned
    BY <2>11 DEF Held
  <2>16. /\ man'[p] \in Stops
         /\ Cleaning(man[p]) => man'[p] = man[p]
         /\ ~ Cleaning(man[p]) =>
              /\ man'[p].seen = NoToken /\ man'[p].tries = 0
              /\ man'[p].pc = IF conn[p].pc = "idle" THEN "read" ELSE "wait"
              /\ man'[p].ctx.id = Placeholder /\ man'[p].ctx.tok = man[p].seen
    BY <2>12, <2>15, <2>6 DEF StopIs
  <2>17. Typed(own[p], live[p], conn[p], man[p], rec[p], heal[p], up[p])'
    BY <2>12, <2>14, <2>16, <2>11 DEF OwnerIs, ConnIs, StopIs, HealIs, Typed, Held
  <2>18. KnownOnly(own[p], conn[p], man[p], heal[p], up[p])'
    BY <2>12, <2>14, <2>16, <2>11, LifecycleConstants DEF OwnerIs, ConnIs, StopIs, HealIs, KnownOnly, Known, Held, LifeInd, RowInv, Of
  <2>19. RowInv'
    BY <2>12, <2>14, <2>16, <2>11, LifecycleConstants DEF OwnerIs, ConnIs, StopIs, HealIs, RowInv, Known, KnownOnly, LifeInd, Of
  <2>20. Fit(p, own[p], live[p], conn[p], man[p], rec[p], heal[p], up[p], p \in stopped)'
    BY <2>12, <2>14, <2>16, <2>11, LifecycleConstants DEF OwnerIs, ConnIs, StopIs, HealIs, Fit, Cleaning, Held, LifeInd, Of
  <2> QED BY <2>10, <2>17, <2>18, <2>19, <2>20, Kept
<1> QED BY <1>1, <1>2, TypesNow DEF AdoptOwner

\* Crash.
LEMMA CrashInd ==
  ASSUME NEW p \in Procs, LifeInd, Crash(p)
  PROVE  LifeInd'
<1>1. NoContext.id = NoToken /\ NoContext.tok = NoToken
  BY DEF NoContext
<1>2. OwnMoves(p)
  BY TypesNow, LifecycleConstants DEF Crash, tasks, LifeInd, TypeOK, Fault, SetOwn, OwnMoves
<1>3. TasksMove(p)
  BY TypesNow, LifecycleConstants DEF Crash, tasks, LifeInd, TypeOK, Fault, SetOwn, TasksMove
<1>4. RestMoves(p)
  BY TypesNow, LifecycleConstants DEF Crash, tasks, LifeInd, TypeOK, Fault, SetOwn, RestMoves
<1>5. Moves(p)
  BY <1>2, <1>3, <1>4 DEF Moves
<1>6. Held(p)
  BY <1>5, HeldNow
<1>7. /\ own'[p] = NoOwner /\ live'[p] = FALSE /\ conn'[p] = NoConnect /\ man'[p] = NoStop
      /\ rec'[p] = [pc |-> "idle", id |-> NoToken] /\ heal'[p] = NoHeal
      /\ up'[p] = [pc |-> "down", row |-> Unregistered] /\ db' = db /\ by' = by
      /\ p \notin stopped' /\ (lock' = lock \/ lock' = NoProc) /\ stops' = stops
      /\ NoContext.id = NoToken /\ NoContext.tok = NoToken
  BY TypesNow, <1>1 DEF Crash, tasks, LifeInd, TypeOK, Fault, SetOwn
<1>8. own[p] \in Owners /\ own[p].tok \in Owned /\ own[p].id \in Ids /\ own[p].pending \in SUBSET Tokens
  BY <1>6 DEF Held
<1>9. own'[p] = NoOwner
  BY <1>7
<1>10. OwnerIs(own'[p], NoToken, NoToken, {}, FALSE, 0)
  BY <1>9, <1>8, OwnerNone
<1>11. conn[p] \in Connects /\ db.owner \in Owned
  BY <1>6 DEF Held
<1>12. conn'[p] = NoConnect
  BY <1>7
<1>13. ConnIs(conn'[p], "idle", NoToken, NoToken, FALSE)
  BY <1>12, <1>11, ConnNone
<1>14. man[p] \in Stops /\ db.owner \in Owned
  BY <1>6 DEF Held
<1>15. man'[p] = NoStop
  BY <1>7
<1>16. StopIs(man'[p], "idle", NoContext, NoToken, 0)
  BY <1>15, <1>14, StopNone
<1>17. heal[p] \in Heals /\ db.owner \in Owned
  BY <1>6 DEF Held
<1>18. heal'[p] = NoHeal
  BY <1>7
<1>19. HealIs(heal'[p], "idle", NoToken)
  BY <1>18, <1>17, HealNone
<1>20. rec[p] \in [pc: {"idle", "begin", "write"}, id: Ids] /\ own[p].id \in Ids
  BY <1>6 DEF Held
<1>21. rec'[p] = [pc |-> "idle", id |-> NoToken]
  BY <1>7
<1>22. rec'[p] \in [pc: {"idle", "begin", "write"}, id: Ids] /\ rec'[p].pc = "idle"
  BY <1>21, <1>20, LifecycleConstants DEF Ids, Owned
<1>23. up[p].row \in Rows
  BY <1>6 DEF Held
<1>24. up'[p] = [pc |-> "down", row |-> Unregistered]
  BY <1>7
<1>25. up'[p].pc = "down" /\ up'[p].row = Unregistered /\ Unregistered \in Rows /\ Unregistered.owner = NoToken
  BY <1>24, <1>23, LifecycleConstants DEF Unregistered, Rows, Owned
<1>26. Typed(own[p], live[p], conn[p], man[p], rec[p], heal[p], up[p])'
  BY <1>7, <1>10, <1>13, <1>16, <1>19, <1>22, <1>25, <1>6 DEF OwnerIs, ConnIs, StopIs, HealIs, Typed, Held
<1>27. KnownOnly(own[p], conn[p], man[p], heal[p], up[p])'
  BY <1>7, <1>10, <1>13, <1>16, <1>19, <1>22, <1>25, <1>6, LifecycleConstants DEF OwnerIs, ConnIs, StopIs, HealIs, KnownOnly, Known, Held, LifeInd, RowInv, Of
<1>28. RowInv'
  BY <1>7, <1>10, <1>13, <1>16, <1>19, <1>22, <1>25, <1>6, LifecycleConstants DEF OwnerIs, ConnIs, StopIs, HealIs, RowInv, Known, KnownOnly, LifeInd, Of
<1>29. Fit(p, own[p], live[p], conn[p], man[p], rec[p], heal[p], up[p], p \in stopped)'
  <2>1. /\ own'[p].epoch = 0 /\ man'[p].pc = "idle" /\ conn'[p].pc = "idle" /\ ~ conn'[p].behind
        /\ heal'[p].pc = "idle" /\ rec'[p].pc = "idle" /\ p \notin stopped'
    BY <1>7, <1>10, <1>13, <1>16, <1>19, <1>22 DEF OwnerIs, ConnIs, StopIs, HealIs
  <2>2. stops' \in Nat
    BY <1>6 DEF Held
  <2>3. own'[p].epoch + (IF man'[p].pc = "adopt" THEN 1 ELSE 0) <= stops'
    BY <2>1, <2>2
  <2> QED BY <2>1, <2>3 DEF Fit, Cleaning
<1> QED BY <1>5, <1>26, <1>27, <1>28, <1>29, Kept

\* A process elsewhere changes the row and nothing else.
LEMMA ClaimElsewhereInd ==
  ASSUME LifeInd, ClaimElsewhere
  PROVE  LifeInd'
<1>1. PICK t \in Fresh : db' = [db EXCEPT !.owner = t] /\ by' = [by EXCEPT ![t] = Elsewhere]
  BY DEF ClaimElsewhere
<1>2. t \in Tokens /\ by[t] = NoProc BY DEF Fresh
<1>3. UNCHANGED <<lock, own, live, conn, man, rec, heal, up, stopped, stops>> /\ Fault
  BY DEF ClaimElsewhere, tasks
<1>4. faults' \in 0 .. MaxFaults BY <1>3, FaultIs
<1>5. by' \in [Tokens -> Procs \cup {NoProc, Elsewhere}] BY <1>1, <1>2 DEF LifeInd, TypeOK
<1>6. \A x : Known(x) => Known(x)'
  BY <1>1, <1>2, LifecycleConstants DEF LifeInd, TypeOK, Known
<1>7. Known(t)'
  BY <1>1, <1>2, LifecycleConstants DEF LifeInd, TypeOK, Known
<1>8. db' \in Rows /\ db'.owner = t
  <2>1. db \in Rows /\ t \in Owned BY <1>2 DEF LifeInd, TypeOK, Owned
  <2> QED BY <1>1, <2>1, RowEdit
<1>9. TypeOK' BY <1>3, <1>4, <1>5, <1>8 DEF LifeInd, TypeOK
<1>10. RowInv' BY <1>7, <1>8 DEF RowInv
<1>11. ASSUME NEW p \in Procs PROVE Of(p)'
  <2>1. Of(p) BY DEF LifeInd
  <2>2. Typed(own[p], live[p], conn[p], man[p], rec[p], heal[p], up[p])'
    BY <1>3, <2>1 DEF Of, Typed
  <2>3. KnownOnly(own[p], conn[p], man[p], heal[p], up[p])'
    BY <1>3, <1>6, <2>1 DEF Of, KnownOnly
  <2>4. Fit(p, own[p], live[p], conn[p], man[p], rec[p], heal[p], up[p], p \in stopped)'
    BY <1>3, <2>1 DEF Of, Fit
  <2> QED BY <2>2, <2>3, <2>4 DEF Of
<1> QED BY <1>9, <1>10, <1>11 DEF LifeInd

\* The invariant holds when the processes are down and the row is as it was made.
LEMMA InitInd == Init => LifeInd
<1> SUFFICES ASSUME Init PROVE LifeInd OBVIOUS
<1>1. NoOwner \in Owners /\ NoOwner.id = NoToken /\ NoOwner.tok = NoToken /\ NoOwner.pending = {} /\ NoOwner.epoch = 0
  BY OwnerNone DEF OwnerIs
<1>2. NoConnect \in Connects /\ NoConnect.pc = "idle" /\ NoConnect.seen = NoToken /\ NoConnect.new = NoToken /\ NoConnect.behind = FALSE
  BY ConnNone DEF ConnIs
<1>3. NoStop \in Stops /\ NoStop.pc = "idle" /\ NoStop.ctx = NoContext /\ NoStop.seen = NoToken
  BY StopNone DEF StopIs
<1>4. NoContext.id = NoToken /\ NoContext.tok = NoToken BY DEF NoContext
<1>5. NoHeal \in Heals /\ NoHeal.pc = "idle" /\ NoHeal.seen = NoToken BY HealNone DEF HealIs
<1>6. Unregistered \in Rows /\ Unregistered.owner = NoToken BY DEF Unregistered, Rows, Owned
<1>7. NoToken \in Ids BY DEF Ids, Owned
<1>8. TypeOK
  BY <1>1, <1>2, <1>3, <1>5, <1>6, <1>7, LifecycleConstants DEF Init, TypeOK
<1>9. Known(NoToken) BY LifecycleConstants DEF Known
<1>10. RowInv BY <1>6, <1>9 DEF Init, RowInv
<1>11. ASSUME NEW p \in Procs PROVE Of(p)
  <2>1. /\ own[p] = NoOwner /\ live[p] = FALSE /\ conn[p] = NoConnect /\ man[p] = NoStop
        /\ rec[p] = [pc |-> "idle", id |-> NoToken] /\ heal[p] = NoHeal
        /\ up[p] = [pc |-> "down", row |-> Unregistered] /\ p \notin stopped /\ stops = 0
    BY DEF Init
  <2>2. Typed(own[p], live[p], conn[p], man[p], rec[p], heal[p], up[p])
    BY <1>8 DEF TypeOK, Typed
  <2>3. KnownOnly(own[p], conn[p], man[p], heal[p], up[p])
    BY <1>1, <1>2, <1>3, <1>4, <1>5, <1>6, <1>9, <2>1 DEF KnownOnly
  <2>4. Fit(p, own[p], live[p], conn[p], man[p], rec[p], heal[p], up[p], p \in stopped)
    <3>1. /\ own[p].epoch = 0 /\ man[p].pc = "idle" /\ conn[p].pc = "idle" /\ ~ conn[p].behind
          /\ heal[p].pc = "idle" /\ rec[p].pc = "idle" /\ p \notin stopped /\ stops = 0
      BY <1>1, <1>2, <1>3, <1>5, <2>1
    <3>2. own[p].epoch + (IF man[p].pc = "adopt" THEN 1 ELSE 0) <= stops
      BY <3>1
    <3> QED BY <3>1, <3>2 DEF Fit, Cleaning
  <2> QED BY <2>2, <2>3, <2>4 DEF Of
<1> QED BY <1>8, <1>10, <1>11 DEF LifeInd

\* Every step keeps the invariant.
LEMMA NextInd == LifeInd /\ [Next]_vars => LifeInd'
<1> SUFFICES ASSUME LifeInd, [Next]_vars PROVE LifeInd' OBVIOUS
<1>1. CASE ClaimElsewhere BY <1>1, ClaimElsewhereInd
<1>2. ASSUME NEW p \in Procs, Boot(p) PROVE LifeInd'
  BY <1>2, ListInd, SetInstanceInd DEF Boot
<1>3. ASSUME NEW p \in Procs, Connecting(p) PROVE LifeInd'
  BY <1>3, BeforeConnectInd, ConnectProbeInd, ConnectProbedInd, ReadOwnerInd, JoinInd, ClaimOwnerInd,
     PublishInd, RefundInd DEF Connecting
<1>4. ASSUME NEW p \in Procs, Recording(p) PROVE LifeInd'
  BY <1>4, RecordBeginInd, RecordWriteInd DEF Recording
<1>5. ASSUME NEW p \in Procs, Healing(p) PROVE LifeInd'
  BY <1>5, HealProbeInd, HealProbedInd, HealOverInd DEF Healing
<1>6. ASSUME NEW p \in Procs, Stopping(p) PROVE LifeInd'
  BY <1>6, AdoptOwnerInd, StopReadInd, StopDecideInd, StopRestoreInd, StopCleanInd DEF Stopping
<1>7. ASSUME NEW p \in Procs,
             Connect(p) \/ Reconnect(p) \/ Recover(p) \/ Open(p) \/ GroupsSuspend(p) \/ SocketCloses(p)
             \/ ManualStop(p) \/ Crash(p)
      PROVE  LifeInd'
  BY <1>7, ConnectInd, ReconnectInd, RecoverInd, OpenInd, GroupsSuspendInd, SocketClosesInd,
     ManualStopInd, CrashInd
<1>8. CASE UNCHANGED vars
  <2>1. UNCHANGED <<db, lock, by, own, live, conn, man, rec, heal, up, stopped, stops, faults>>
    BY <1>8 DEF vars, tasks
  <2>2. TypeOK' /\ RowInv' BY <2>1 DEF LifeInd, TypeOK, RowInv, Known
  <2>3. ASSUME NEW p \in Procs PROVE Of(p)'
    <3>1. Of(p) BY DEF LifeInd
    <3> QED BY <2>1, <3>1 DEF Of, Typed, KnownOnly, Known, Fit, Cleaning
  <2> QED BY <2>2, <2>3 DEF LifeInd
<1> QED BY <1>1, <1>2, <1>3, <1>4, <1>5, <1>6, <1>7, <1>8 DEF Next

\* In every reachable state the parts of every process fit together: no stale
\* task of a stopped process is left that could give it a socket back, a cleanup
\* meets no connect but one that waits for it, and no token is used that nobody
\* has made (the owner, task and recovery records of nexi-groups.cjs).
THEOREM SpecInd == Spec => []LifeInd
<1>1. Init => LifeInd BY InitInd
<1>2. LifeInd /\ [Next]_vars => LifeInd' BY NextInd
<1> QED BY <1>1, <1>2, PTL DEF Spec

\* Every part of every process and the row keep their types.
THEOREM TypeCorrect == Spec => []TypeOK
<1>1. LifeInd => TypeOK BY DEF LifeInd
<1> QED BY <1>1, SpecInd, PTL

-----------------------------------------------------------------------------
\* What StopOvertakes says of one step.
Overtaken ==
  \A p \in Procs : own'[p].id \in Tokens /\ own'[p].id # own[p].id => own[p].epoch = conn[p].ctx.epoch

\* The record of p is replaced by one that names no new socket.
LEMMA NoSocket ==
  ASSUME NEW p \in Procs, LifeInd, NEW r, SetOwn(p, r), r.id = own[p].id \/ r.id \notin Tokens
  PROVE  Overtaken
BY DEF Overtaken, SetOwn, LifeInd, TypeOK

\* The same record with other fields.
LEMMA SameRecord ==
  ASSUME NEW p \in Procs, LifeInd, NEW t, NEW P, NEW m, NEW e, NEW r, SetOwn(p, r),
         OwnerIs(r, own[p].id, t, P, m, e)
  PROVE  Overtaken
BY NoSocket DEF OwnerIs

\* An owner that is left alone was not overtaken by anything.
LEMMA OwnKept ==
  ASSUME UNCHANGED own
  PROVE  Overtaken
BY DEF Overtaken

\* A step says of an exception,
LEMMA ThrowsOvertaken ==
  ASSUME NEW p \in Procs, LifeInd, Throws(p)
  PROVE  Overtaken
<1>1. own[p] \in Owners BY TypesNow
<1>2. OwnerIs([own[p] EXCEPT !.suspended = TRUE], own[p].id, own[p].tok, own[p].pending, own[p].manual, own[p].epoch)
  BY <1>1, OwnerSuspend
<1>3. SetOwn(p, [own[p] EXCEPT !.suspended = TRUE]) \/ UNCHANGED own BY DEF Throws, Suspend
<1> QED BY <1>2, <1>3, SameRecord, OwnKept

\* of a retire,
LEMMA RetireOvertaken ==
  ASSUME NEW p \in Procs, LifeInd, Retire(p)
  PROVE  Overtaken
<1>1. own[p] \in Owners BY TypesNow
<1>2. OwnerIs([own[p] EXCEPT !.retired = TRUE, !.pending = {}], own[p].id, own[p].tok, {}, own[p].manual, own[p].epoch)
  BY <1>1, OwnerRetire
<1> QED BY <1>2, SameRecord DEF Retire

\* of the end of a recovery,
LEMMA HealEndsOvertaken ==
  ASSUME NEW p \in Procs, LifeInd, NEW r \in Owners, r.id = own[p].id, HealEnds(p, r)
  PROVE  Overtaken
<1>1. OwnerIs([r EXCEPT !.recovering = FALSE], r.id, r.tok, r.pending, r.manual, r.epoch)
  BY OwnerRecover
<1>2. SetOwn(p, r) \/ SetOwn(p, [r EXCEPT !.recovering = FALSE]) BY DEF HealEnds
<1>3. [r EXCEPT !.recovering = FALSE].id = own[p].id BY <1>1 DEF OwnerIs
<1> QED BY <1>2, <1>3, NoSocket

\* of a connect at boot,
LEMMA BootOvertaken ==
  ASSUME NEW p \in Procs, LifeInd, Boot(p)
  PROVE  Overtaken
<1>1. CASE List(p) BY <1>1, OwnKept DEF List
<1>2. CASE SetInstance(p)
  <2>1. up[p].row \in Rows /\ Known(up[p].row.owner) BY TypesNow DEF LifeInd, Of, KnownOnly
  <2>2. Restored(up[p].row).id \notin Tokens BY <2>1, RestoredIs, LifecycleConstants
  <2>3. SetOwn(p, Restored(up[p].row)) BY <1>2 DEF SetInstance
  <2> QED BY <2>2, <2>3, NoSocket
<1> QED BY <1>1, <1>2 DEF Boot

\* of the publication of a socket,
LEMMA PublishOvertaken ==
  ASSUME NEW p \in Procs, LifeInd, Publish(p)
  PROVE  Overtaken
<1>1. CASE UNCHANGED own BY <1>1, OwnKept
<1>2. CASE Throws(p) BY <1>2, ThrowsOvertaken
<1>3. CASE ConnectCheck(p, conn[p].ctx)
           /\ (SetOwn(p, [NoOwner EXCEPT !.id = conn[p].new, !.tok = conn[p].new])
               \/ Suspend(p, [NoOwner EXCEPT !.id = conn[p].new, !.tok = conn[p].new]))
  <2>1. own[p].epoch = conn[p].ctx.epoch BY <1>3 DEF ConnectCheck
  <2>2. \A q \in Procs : q # p => own'[q] = own[q]
    BY <1>3 DEF Suspend, SetOwn, LifeInd, TypeOK
  <2> QED BY <2>1, <2>2 DEF Overtaken
<1> QED BY <1>1, <1>2, <1>3 DEF Publish

\* of a join,
LEMMA JoinOvertaken ==
  ASSUME NEW p \in Procs, LifeInd, Join(p)
  PROVE  Overtaken
<1>1. CASE Throws(p) BY <1>1, ThrowsOvertaken
<1>2. CASE ~ Throws(p)
  <2> DEFINE placed == [NoOwner EXCEPT !.id = Placeholder, !.tok = conn[p].seen]
             prev == IF own[p].id = NoToken THEN placed ELSE own[p]
  <2>1. PICK t \in Fresh : SetOwn(p, [prev EXCEPT !.pending = @ \cup {t}])
    BY <1>2 DEF Join
  <2>2. conn[p].seen \in Owned /\ own[p] \in Owners BY TypesNow
  <2>3. OwnerIs(placed, Placeholder, conn[p].seen, {}, FALSE, 0) BY <2>2, OwnerPlaced DEF Ids
  <2>4. prev \in Owners /\ prev.pending \cup {t} \in SUBSET Tokens
    BY <2>2, <2>3 DEF OwnerIs, Owners, Fresh
  <2>5. prev.id = own[p].id \/ prev.id \notin Tokens
    BY <2>3, LifecycleConstants DEF OwnerIs
  <2> HIDE DEF prev
  <2>6. OwnerIs([prev EXCEPT !.pending = prev.pending \cup {t}], prev.id, prev.tok, prev.pending \cup {t}, prev.manual, prev.epoch)
    BY <2>4, OwnerPend
  <2>7. [prev EXCEPT !.pending = prev.pending \cup {t}].id = prev.id BY <2>6 DEF OwnerIs
  <2> QED BY <2>1, <2>5, <2>7, NoSocket
<1> QED BY <1>1, <1>2

\* of every step of a connect,
LEMMA ConnectingOvertaken ==
  ASSUME NEW p \in Procs, LifeInd, Connecting(p)
  PROVE  Overtaken
<1> DEFINE r == own[p]
<1>1. r \in Owners /\ conn[p].seen \in Owned BY TypesNow
<1>2. CASE BeforeConnect(p)
  <2>1. OwnerIs([r EXCEPT !.ready = FALSE], r.id, r.tok, r.pending, r.manual, r.epoch) BY <1>1, OwnerReady
  <2>2. Throws(p) \/ SetOwn(p, [r EXCEPT !.ready = FALSE]) \/ UNCHANGED own BY <1>2 DEF BeforeConnect
  <2> QED BY <2>1, <2>2, ThrowsOvertaken, SameRecord, OwnKept
<1>3. CASE ConnectProbe(p) BY <1>3, OwnKept DEF ConnectProbe
<1>4. CASE ConnectProbed(p)
  <2>1. OwnerIs([r EXCEPT !.tok = conn[p].seen, !.pending = {}], r.id, conn[p].seen, {}, r.manual, r.epoch)
    BY <1>1, OwnerAdopt
  <2>2. Throws(p) \/ SetOwn(p, [r EXCEPT !.tok = conn[p].seen, !.pending = {}]) \/ Retire(p)
    BY <1>4 DEF ConnectProbed, Adopts
  <2> QED BY <2>1, <2>2, ThrowsOvertaken, SameRecord, RetireOvertaken
<1>5. CASE ReadOwner(p)
  <2>1. Throws(p) \/ UNCHANGED own BY <1>5 DEF ReadOwner
  <2> QED BY <2>1, ThrowsOvertaken, OwnKept
<1>6. CASE ClaimOwner(p)
  <2>1. Throws(p) \/ UNCHANGED own BY <1>6 DEF ClaimOwner
  <2> QED BY <2>1, ThrowsOvertaken, OwnKept
<1>7. CASE Refund(p)
  <2>1. CASE Throws(p) BY <2>1, ThrowsOvertaken
  <2>2. CASE SetOwn(p, own[p]) BY <2>2, NoSocket
  <2>3. CASE SetOwn(p, [own[p] EXCEPT !.pending = @ \ {conn[p].new}])
    <3>1. r.pending \ {conn[p].new} \in SUBSET Tokens BY <1>1 DEF Owners
    <3>2. OwnerIs([r EXCEPT !.pending = r.pending \ {conn[p].new}], r.id, r.tok, r.pending \ {conn[p].new}, r.manual, r.epoch)
      BY <1>1, <3>1, OwnerPend
    <3> QED BY <2>3, <3>2, SameRecord
  <2> QED BY <1>7, <2>1, <2>2, <2>3 DEF Refund
<1> QED BY <1>2, <1>3, <1>4, <1>5, <1>6, <1>7, PublishOvertaken, JoinOvertaken DEF Connecting

\* of a recovery,
LEMMA HealingOvertaken ==
  ASSUME NEW p \in Procs, LifeInd, Healing(p)
  PROVE  Overtaken
<1> DEFINE r == own[p]
<1>1. r \in Owners /\ heal[p].seen \in Owned BY TypesNow
<1>2. CASE HealProbe(p)
  <2>1. HealEnds(p, r) \/ UNCHANGED own BY <1>2 DEF HealProbe
  <2> QED BY <1>1, <2>1, HealEndsOvertaken, OwnKept
<1>3. CASE HealProbed(p)
  <2>1. \/ HealEnds(p, r) \/ HealEnds(p, [r EXCEPT !.retired = TRUE, !.pending = {}])
        \/ SetOwn(p, [r EXCEPT !.tok = heal[p].seen, !.pending = {}, !.ready = TRUE])
    BY <1>3 DEF HealProbed
  <2>2. OwnerIs([r EXCEPT !.tok = heal[p].seen, !.pending = {}, !.ready = TRUE], r.id, heal[p].seen, {}, r.manual, r.epoch)
    BY <1>1, OwnerHealthy
  <2>3. OwnerIs([r EXCEPT !.retired = TRUE, !.pending = {}], r.id, r.tok, {}, r.manual, r.epoch)
    BY <1>1, OwnerRetire
  <2>4. [r EXCEPT !.retired = TRUE, !.pending = {}] \in Owners
        /\ [r EXCEPT !.retired = TRUE, !.pending = {}].id = own[p].id
    BY <2>3 DEF OwnerIs
  <2> QED BY <1>1, <2>1, <2>2, <2>4, HealEndsOvertaken, SameRecord
<1>4. CASE HealOver(p)
  <2>1. HealEnds(p, r) \/ HealEnds(p, [r EXCEPT !.ready = FALSE]) BY <1>4 DEF HealOver
  <2>2. OwnerIs([r EXCEPT !.ready = FALSE], r.id, r.tok, r.pending, r.manual, r.epoch) BY <1>1, OwnerReady
  <2>3. [r EXCEPT !.ready = FALSE] \in Owners /\ [r EXCEPT !.ready = FALSE].id = own[p].id BY <2>2 DEF OwnerIs
  <2> QED BY <1>1, <2>1, <2>3, HealEndsOvertaken
<1> QED BY <1>2, <1>3, <1>4 DEF Healing

\* of stopOwner,
LEMMA StopOwnerOvertaken ==
  ASSUME NEW p \in Procs, LifeInd, NEW r \in Owners, NEW b, StopOwner(p, r, b), r.epoch < MaxStops,
         r.id = own[p].id \/ r.id \notin Tokens
  PROVE  Overtaken
<1> DEFINE e == r.epoch + 1
<1>1. e \in 0 .. MaxStops BY LifecycleConstants DEF Owners
<1>2. e = r.epoch + 1 OBVIOUS
<1> HIDE DEF e
<1>3. OwnerIs(Cancelled(r), r.id, r.tok, r.pending, TRUE, e) BY <1>1, <1>2, CancelIs
<1>4. SetOwn(p, Cancelled(r)) BY DEF StopOwner
<1>5. Cancelled(r).id = r.id BY <1>3 DEF OwnerIs
<1> QED BY <1>4, <1>5, NoSocket

\* of every step of a stop,
LEMMA StoppingOvertaken ==
  ASSUME NEW p \in Procs, LifeInd, Stopping(p)
  PROVE  Overtaken
<1> DEFINE r == own[p]
<1>1. r \in Owners /\ man[p].seen \in Owned BY TypesNow
<1>2. OwnerIs([r EXCEPT !.pending = {}], r.id, r.tok, {}, r.manual, r.epoch) BY <1>1, OwnerPend
<1>3. CASE AdoptOwner(p)
  <2>1. CASE UNCHANGED own BY <2>1, OwnKept
  <2>2. CASE StopOwner(p, [NoOwner EXCEPT !.id = Placeholder, !.tok = man[p].seen], FALSE)
    <3>1. PICK q : q = [NoOwner EXCEPT !.id = Placeholder, !.tok = man[p].seen] OBVIOUS
    <3>2. OwnerIs(q, Placeholder, man[p].seen, {}, FALSE, 0) BY <1>1, <3>1, OwnerPlaced DEF Ids
    <3>3. man[p].pc = "adopt" BY <1>3 DEF AdoptOwner
    <3>4. 0 < MaxStops BY <3>3, ManualTypes
    <3>5. StopOwner(p, q, FALSE) BY <2>2, <3>1
    <3>6. q \in Owners /\ q.epoch < MaxStops /\ q.id \notin Tokens
      BY <3>2, <3>4, LifecycleConstants DEF OwnerIs
    <3> QED BY <3>5, <3>6, StopOwnerOvertaken
  <2> QED BY <1>3, <2>1, <2>2 DEF AdoptOwner
<1>4. CASE StopRead(p) BY <1>4, OwnKept DEF StopRead
<1>5. CASE StopDecide(p)
  <2>1. Retire(p) \/ UNCHANGED own \/ SetOwn(p, [r EXCEPT !.pending = {}]) BY <1>5 DEF StopDecide
  <2> QED BY <1>2, <2>1, RetireOvertaken, OwnKept, SameRecord
<1>6. CASE StopRestore(p)
  <2>1. UNCHANGED own \/ SetOwn(p, [r EXCEPT !.pending = {}]) BY <1>6 DEF StopRestore
  <2> QED BY <1>2, <2>1, OwnKept, SameRecord
<1>7. CASE StopClean(p)
  <2>1. UNCHANGED own \/ SetOwn(p, [r EXCEPT !.deleting = man[p].remove]) BY <1>7 DEF StopClean
  <2>2. man[p].remove \in BOOLEAN BY DEF LifeInd, TypeOK, Stops
  <2>3. OwnerIs([r EXCEPT !.deleting = man[p].remove], r.id, r.tok, r.pending, r.manual, r.epoch)
    BY <1>1, <2>2, OwnerDelete
  <2> QED BY <2>1, <2>3, OwnKept, SameRecord
<1> QED BY <1>3, <1>4, <1>5, <1>6, <1>7 DEF Stopping

\* and of the rest, what StopOvertakes says.
LEMMA OthersOvertaken ==
  ASSUME NEW p \in Procs, LifeInd,
         Connect(p) \/ Reconnect(p) \/ Recover(p) \/ Open(p) \/ GroupsSuspend(p) \/ SocketCloses(p)
         \/ ManualStop(p) \/ Crash(p)
  PROVE  Overtaken
<1> DEFINE r == own[p]
<1>1. r \in Owners /\ db \in Rows BY TypesNow
<1>2. CASE Connect(p) BY <1>2, OwnKept DEF Connect
<1>3. CASE Reconnect(p)
  <2>1. OwnerIs([r EXCEPT !.timer = FALSE], r.id, r.tok, r.pending, r.manual, r.epoch) BY <1>1, OwnerTimer
  <2> QED BY <1>3, <2>1, SameRecord DEF Reconnect
<1>4. CASE Recover(p)
  <2>1. CASE own[p].id = NoToken
    <3>1. Known(db.owner) BY DEF LifeInd, RowInv
    <3>2. Restored(db) \in Owners /\ Restored(db).id \notin Tokens BY <1>1, <3>1, RestoredIs, LifecycleConstants
    <3>3. OwnerIs([Restored(db) EXCEPT !.recovering = TRUE], Restored(db).id, Restored(db).tok, Restored(db).pending, Restored(db).manual, Restored(db).epoch)
      BY <3>2, OwnerRecover
    <3>4. SetOwn(p, [Restored(db) EXCEPT !.recovering = TRUE]) BY <1>4, <2>1 DEF Recover
    <3>5. [Restored(db) EXCEPT !.recovering = TRUE].id \notin Tokens BY <3>2, <3>3 DEF OwnerIs
    <3> QED BY <3>4, <3>5, NoSocket
  <2>2. CASE own[p].id # NoToken
    <3>1. OwnerIs([r EXCEPT !.recovering = TRUE], r.id, r.tok, r.pending, r.manual, r.epoch) BY <1>1, OwnerRecover
    <3>2. SetOwn(p, [r EXCEPT !.recovering = TRUE]) BY <1>4, <2>2 DEF Recover
    <3> QED BY <3>1, <3>2, SameRecord
  <2> QED BY <2>1, <2>2
<1>5. CASE Open(p) BY <1>5, OwnKept DEF Open
<1>6. CASE GroupsSuspend(p)
  <2>1. OwnerIs([r EXCEPT !.suspended = TRUE], r.id, r.tok, r.pending, r.manual, r.epoch) BY <1>1, OwnerSuspend
  <2> QED BY <1>6, <2>1, SameRecord DEF GroupsSuspend, Suspend
<1>7. CASE SocketCloses(p)
  <2>1. OwnerIs([r EXCEPT !.timer = TRUE], r.id, r.tok, r.pending, r.manual, r.epoch) BY <1>1, OwnerTimer
  <2> QED BY <1>7, <2>1, SameRecord DEF SocketCloses
<1>8. CASE ManualStop(p)
  <2>1. CASE UNCHANGED own BY <2>1, OwnKept
  <2>2. ASSUME NEW b \in BOOLEAN, StopOwner(p, r, b) PROVE Overtaken
    <3>1. stops < MaxStops BY <1>8 DEF ManualStop
    <3>2. r.epoch < MaxStops BY <3>1, ManualTypes
    <3> QED BY <1>1, <2>2, <3>2, StopOwnerOvertaken
  <2> QED BY <1>8, <2>1, <2>2 DEF ManualStop
<1>9. CASE Crash(p)
  <2>1. NoOwner.id \notin Tokens BY OwnerNone, LifecycleConstants DEF OwnerIs
  <2> QED BY <1>9, <2>1, NoSocket DEF Crash
<1> QED BY <1>2, <1>3, <1>4, <1>5, <1>6, <1>7, <1>8, <1>9

\* So does every step.
LEMMA NextOvertaken == LifeInd /\ [Next]_vars => Overtaken
<1> SUFFICES ASSUME LifeInd, [Next]_vars PROVE Overtaken OBVIOUS
<1>1. CASE ClaimElsewhere BY <1>1, OwnKept DEF ClaimElsewhere
<1>2. ASSUME NEW p \in Procs, Recording(p) PROVE Overtaken
  BY <1>2, OwnKept DEF Recording, RecordBegin, RecordWrite
<1>3. CASE UNCHANGED vars BY <1>3, OwnKept DEF vars
<1> QED BY <1>1, <1>2, <1>3, BootOvertaken, ConnectingOvertaken, HealingOvertaken, StoppingOvertaken, OthersOvertaken DEF Next

-----------------------------------------------------------------------------
\* What a stopped process leaves of the row and of its token.
Settled(p) ==
  /\ db.owner = own[p].tok => db.why # "suspended"
  /\ db.owner \in Tokens /\ by[db.owner] = p => db.owner = own[p].tok

\* A step that leaves the row and the token of p alone.
SameRow(p) == db' = db /\ by' = by /\ own'[p].tok = own[p].tok

\* A process that is stopped, as the invariant has it.
LEMMA StoppedIs ==
  ASSUME NEW p \in Procs, LifeInd, p \in stopped
  PROVE  /\ up[p].pc = "up" /\ own[p].manual /\ own[p].id # NoToken /\ ~ live[p]
         /\ conn[p].pc = "idle" /\ rec[p].pc # "write" /\ man[p].pc \in {"idle", "read", "clean"}
BY DEF LifeInd, Of, Fit

\* The record of p with other fields, and the same row.
LEMMA SameToken ==
  ASSUME NEW p \in Procs, LifeInd, UNCHANGED <<db, by>>, NEW i, NEW P, NEW m, NEW e, NEW r,
         SetOwn(p, r), OwnerIs(r, i, own[p].tok, P, m, e)
  PROVE  SameRow(p)
BY DEF SameRow, SetOwn, OwnerIs, LifeInd, TypeOK

\* The end of a recovery is such a step.
LEMMA HealEndsSameRow ==
  ASSUME NEW p \in Procs, LifeInd, UNCHANGED <<db, by>>, NEW r \in Owners, r.tok = own[p].tok,
         HealEnds(p, r)
  PROVE  SameRow(p)
BY HealEndsIs DEF SameRow, OwnerIs

\* A stopped process heals nothing and connects nothing.
LEMMA HealingSettled ==
  ASSUME NEW p \in Procs, LifeInd, p \in stopped, Healing(p)
  PROVE  SameRow(p)
<1> DEFINE r == own[p]
<1>1. r \in Owners BY TypesNow
<1>2. ~ OwnsSocket(p, heal[p].id) BY StoppedIs DEF OwnsSocket
<1>3. CASE HealProbe(p)
  <2>1. UNCHANGED <<db, by>> /\ (HealEnds(p, r) \/ UNCHANGED own) BY <1>3 DEF HealProbe
  <2> QED BY <1>1, <2>1, HealEndsSameRow DEF SameRow
<1>4. CASE HealProbed(p)
  <2>1. UNCHANGED <<db, by>> /\ HealEnds(p, r) BY <1>2, <1>4 DEF HealProbed
  <2> QED BY <1>1, <2>1, HealEndsSameRow
<1>5. CASE HealOver(p)
  <2>1. UNCHANGED <<db, by>> /\ HealEnds(p, r) BY <1>2, <1>5 DEF HealOver
  <2> QED BY <1>1, <2>1, HealEndsSameRow
<1> QED BY <1>3, <1>4, <1>5 DEF Healing

\* What the other actions leave of a stopped process is settled.
LEMMA OthersSettled ==
  ASSUME NEW p \in Procs, LifeInd, p \in stopped,
         Connect(p) \/ Reconnect(p) \/ Recover(p) \/ Open(p) \/ GroupsSuspend(p) \/ SocketCloses(p)
         \/ ManualStop(p) \/ Crash(p)
  PROVE  SameRow(p) \/ p \notin stopped'
<1> DEFINE r == own[p]
<1>1. r \in Owners BY TypesNow
<1>2. up[p].pc = "up" /\ r.manual /\ r.id # NoToken /\ ~ live[p] BY StoppedIs
<1>3. CASE Connect(p) BY <1>3 DEF Connect
<1>4. CASE Reconnect(p)
  <2>1. OwnerIs([r EXCEPT !.timer = FALSE], r.id, r.tok, r.pending, r.manual, r.epoch) BY <1>1, OwnerTimer
  <2>2. SetOwn(p, [r EXCEPT !.timer = FALSE]) /\ UNCHANGED <<db, by>> BY <1>4 DEF Reconnect
  <2> QED BY <2>1, <2>2, SameToken
<1>5. CASE Recover(p) BY <1>2, <1>5 DEF Recover
<1>6. CASE Open(p) \/ GroupsSuspend(p) \/ SocketCloses(p)
  BY <1>2, <1>6 DEF Open, GroupsSuspend, SocketCloses, Heard
<1>7. CASE ManualStop(p)
  <2>1. PICK b \in BOOLEAN : StopOwner(p, r, b) BY <1>2, <1>7 DEF ManualStop
  <2>2. stops < MaxStops /\ UNCHANGED <<db, by>> BY <1>7 DEF ManualStop
  <2>3. r.epoch < MaxStops BY <2>2, ManualTypes
  <2>4. Stopped(p, r) BY <1>1, <2>1, <2>3, StopOwnerIs
  <2> QED BY <2>2, <2>4 DEF Stopped, OwnerIs, SameRow
<1>8. CASE Crash(p) BY <1>8 DEF Crash
<1> QED BY <1>3, <1>4, <1>5, <1>6, <1>7, <1>8

\* The cleanup is the one step that stops a process, and it leaves the row with
\* its own token and no suspension.
LEMMA CleanSettled ==
  ASSUME NEW p \in Procs, LifeInd, StopClean(p), p \in stopped => Settled(p), p \in stopped'
  PROVE  Settled(p)'
<1>1. own[p] \in Owners /\ man[p].remove \in BOOLEAN /\ db \in Rows
  BY DEF LifeInd, TypeOK, Stops
<1>2. CASE UNCHANGED <<db, own, stopped>>
  BY <1>2 DEF Settled, StopClean
<1>3. CASE /\ Registered(p) /\ db' = Cleaned(p)
           /\ SetOwn(p, [own[p] EXCEPT !.deleting = man[p].remove])
  <2>1. own'[p] = [own[p] EXCEPT !.deleting = man[p].remove]
    BY <1>3 DEF SetOwn, LifeInd, TypeOK
  <2>2. own'[p].tok = own[p].tok
    <3>1. OwnerIs([own[p] EXCEPT !.deleting = man[p].remove], own[p].id, own[p].tok, own[p].pending, own[p].manual, own[p].epoch)
      BY <1>1, OwnerDelete
    <3> QED BY <2>1, <3>1 DEF OwnerIs
  <2>3. db'.owner = db.owner /\ db'.why # "suspended"
    <3>1. ASSUME NEW d \in Rows, NEW w
          PROVE  /\ [d EXCEPT !.status = "close", !.why = w].owner = d.owner
                 /\ [d EXCEPT !.status = "close", !.why = w].why = w
      BY DEF Rows
    <3>2. [db EXCEPT !.status = "close"].why = db.why BY <1>1 DEF Rows
    <3>3. CASE db.why = "suspended"
      <4>1. db' = [db EXCEPT !.status = "close", !.why = "manual"] BY <1>3, <3>2, <3>3 DEF Cleaned
      <4> QED BY <1>1, <3>1, <4>1
    <3>4. CASE db.why # "suspended"
      <4>1. db' = [db EXCEPT !.status = "close", !.why = db.why] BY <1>3, <3>2, <3>4 DEF Cleaned
      <4> QED BY <1>1, <3>1, <3>4, <4>1
    <3> QED BY <3>3, <3>4
  <2> QED BY <1>3, <2>2, <2>3 DEF Settled, Registered
<1> QED BY <1>2, <1>3 DEF StopClean

\* Every step leaves a stopped process that registers alone settled.
LEMMA NextSettled ==
  ASSUME NEW p \in Procs, Procs = {p}, LifeInd, [Next]_vars, p \in stopped => Settled(p), p \in stopped'
  PROVE  Settled(p)'
<1>1. SUFFICES ASSUME ~ StopClean(p) PROVE Settled(p)'
  BY CleanSettled
<1>2. p \in stopped
  <2>1. CASE ClaimElsewhere BY <2>1 DEF ClaimElsewhere
  <2>2. CASE Boot(p) BY <2>2 DEF Boot, List, SetInstance
  <2>3. CASE Connecting(p)
    BY <2>3 DEF Connecting, BeforeConnect, ConnectProbe, ConnectProbed, ReadOwner, Join, ClaimOwner, Publish, Refund
  <2>4. CASE Recording(p) BY <2>4 DEF Recording, RecordBegin, RecordWrite
  <2>5. CASE Healing(p) BY <2>5 DEF Healing, HealProbe, HealProbed, HealOver
  <2>6. CASE Stopping(p) BY <1>1, <2>6 DEF Stopping, AdoptOwner, StopRead, StopDecide, StopRestore
  <2>7. CASE \/ Connect(p) \/ Reconnect(p) \/ Recover(p) \/ Open(p) \/ GroupsSuspend(p)
             \/ SocketCloses(p) \/ ManualStop(p) \/ Crash(p)
    BY <2>7 DEF Connect, Reconnect, Recover, Open, GroupsSuspend, SocketCloses, ManualStop, Crash
  <2>8. CASE UNCHANGED vars BY <2>8 DEF vars
  <2> QED BY <2>1, <2>2, <2>3, <2>4, <2>5, <2>6, <2>7, <2>8 DEF Next
<1>3. Settled(p) BY <1>2
<1>4. SameRow(p) => Settled(p)' BY <1>3 DEF SameRow, Settled
<1>5. /\ up[p].pc = "up" /\ conn[p].pc = "idle" /\ rec[p].pc # "write" /\ ~ live[p] /\ own[p].manual
      /\ man[p].pc \in {"idle", "read", "clean"}
  BY <1>2, StoppedIs
<1>6. CASE ClaimElsewhere
  <2>1. PICK t \in Fresh : db' = [db EXCEPT !.owner = t] /\ by' = [by EXCEPT ![t] = Elsewhere]
    BY <1>6 DEF ClaimElsewhere
  <2>2. t \in Tokens /\ by[t] = NoProc /\ by'[t] = Elsewhere /\ Known(own[p].tok)
    BY <2>1 DEF Fresh, LifeInd, TypeOK, Of, KnownOnly
  <2>3. db'.owner = t BY <2>1 DEF LifeInd, TypeOK, Rows
  <2>4. own'[p].tok = own[p].tok BY <1>6 DEF ClaimElsewhere
  <2> QED BY <2>2, <2>3, <2>4, LifecycleConstants DEF Settled, Known
<1>7. CASE Boot(p) BY <1>5, <1>7 DEF Boot, List, SetInstance
<1>8. CASE Connecting(p)
  BY <1>5, <1>8 DEF Connecting, BeforeConnect, ConnectProbe, ConnectProbed, ReadOwner, Join, ClaimOwner, Publish, Refund
<1>9. CASE Recording(p)
  <2>1. UNCHANGED <<db, by, own>> BY <1>5, <1>9 DEF Recording, RecordBegin, RecordWrite
  <2> QED BY <1>4, <2>1 DEF SameRow
<1>10. CASE Healing(p) BY <1>2, <1>4, <1>10, HealingSettled
<1>11. CASE Stopping(p)
  <2>1. UNCHANGED <<db, by, own>> BY <1>1, <1>5, <1>11 DEF Stopping, AdoptOwner, StopRead, StopDecide, StopRestore
  <2> QED BY <1>4, <2>1 DEF SameRow
<1>12. CASE \/ Connect(p) \/ Reconnect(p) \/ Recover(p) \/ Open(p) \/ GroupsSuspend(p)
            \/ SocketCloses(p) \/ ManualStop(p) \/ Crash(p)
  BY <1>2, <1>4, <1>12, OthersSettled
<1>13. CASE UNCHANGED vars
  <2>1. UNCHANGED <<db, by, own>> BY <1>13 DEF vars
  <2> QED BY <1>4, <2>1 DEF SameRow
<1> QED BY <1>6, <1>7, <1>8, <1>9, <1>10, <1>11, <1>12, <1>13 DEF Next

\* What holds of the stopped processes of a database with one process.
StoppedInv == \A p \in stopped : Procs = {p} => Settled(p)

\* That is what LifecycleInv says.
LEMMA StopHoldsIs == LifeInd /\ StoppedInv => LifecycleInv
<1> SUFFICES ASSUME LifeInd, StoppedInv PROVE LifecycleInv OBVIOUS
<1>1. TypeOK BY DEF LifeInd
<1>2. ASSUME NEW p \in stopped PROVE ~ live[p]
  <2>1. p \in Procs BY <1>1 DEF TypeOK
  <2> QED BY <2>1, StoppedIs
<1> QED BY <1>1, <1>2 DEF LifecycleInv, StopHolds, StoppedInv, Settled

\* After a manual stop that succeeded, no socket of the process lives, and the
\* row is not left suspended, nor with a registration the stop overtook: the
\* invariant of the run.
THEOREM StopsHold == Spec => []LifecycleInv
<1>1. Init => StoppedInv BY DEF Init, StoppedInv
<1>2. LifeInd /\ StoppedInv /\ [Next]_vars => StoppedInv'
  <2> SUFFICES ASSUME LifeInd, StoppedInv, [Next]_vars PROVE StoppedInv' OBVIOUS
  <2>1. LifeInd' BY NextInd
  <2>2. ASSUME NEW p \in stopped', Procs = {p} PROVE Settled(p)'
    BY <2>2, NextSettled DEF StoppedInv
  <2> QED BY <2>2 DEF StoppedInv
<1>3. LifeInd /\ StoppedInv => LifecycleInv BY StopHoldsIs
<1> QED BY <1>1, <1>2, <1>3, SpecInd, PTL DEF Spec

\* A connect task that a manual stop overtook publishes no socket: a record
\* takes the name of a socket only while its epoch is the one the task began
\* with.
THEOREM ManualStopsOvertake == Spec => StopOvertakes
<1>1. LifeInd /\ [Next]_vars => [Overtaken]_vars BY NextOvertaken
<1> QED BY <1>1, SpecInd, PTL DEF Spec, StopOvertakes, Overtaken
=============================================================================
