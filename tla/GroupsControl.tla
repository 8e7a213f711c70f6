----------------------------- MODULE GroupsControl -----------------------------
(***************************************************************************)
(* The authority the application grants over groups (nexi-groups.cjs:      *)
(* control with bootstrap, catalog and room) and what it admits: packets   *)
(* of groups are recorded in the database before their Signal keys are     *)
(* written and before WhatsApp gets an answer (admit, admitProjection,     *)
(* invalidateCatalog, enqueue, and the handlers patch-groups-source.mjs    *)
(* rewrites).  All of them compete for one row of NexiGroupControl, by     *)
(* reads followed by updates that ask for the revision that was read.  The *)
(* statements of a transaction from its first update on are one step.      *)
(***************************************************************************)
EXTENDS Naturals, FiniteSets

CONSTANTS
  Rooms,
  Nodes,        \* packets WhatsApp has for this device, sent again until answered
  KindOf,       \* KindOf[n]: see Kinds
  RoomOf,       \* RoomOf[n], of no meaning for a bare notification
  Handlers,     \* packets and public events in work at one time
  Calls,        \* control requests, each made once
  Public,       \* a public event of the socket, in place of a packet
  NoNode, NoRow,
  StartRows,    \* rows the service may start with, no room enabled yet
  Requests,     \* what the application signs, some of it maybe delivered late
  MaxSession,   \* bound on paired sessions
  MaxRevision,  \* bound on the revision at which packets are still delivered
  MaxFaults     \* bound on faults, lost connections and public events

\* A message; a change of a group; the removal of this account from it; a
\* notification about groups without what an event needs.
Kinds == {"message", "change", "left", "bare"}

ASSUME GroupsControlConstants ==
  /\ IsFiniteSet(Nodes) /\ KindOf \in [Nodes -> Kinds] /\ RoomOf \in [Nodes -> Rooms]
  /\ Public \notin Nodes /\ NoNode \notin Nodes \cup {Public}
  /\ \A q \in Requests :
       /\ q.op \in {"bootstrap", "catalog", "room"} /\ q.gen \in Nat \ {0}
       /\ q.room \in [gen : Nat, on : BOOLEAN, meta : Nat]
       /\ q.op # "room" => q.jid = NoNode /\ q.room = [gen |-> 0, on |-> FALSE, meta |-> 0]
       /\ q.op = "room" => q.jid \in Rooms /\ q.room.gen > 0 /\ q.room.meta > 0
  /\ MaxSession \in Nat \ {0} /\ MaxRevision \in Nat /\ MaxFaults \in Nat

VARIABLES
  ctl,       \* the row of NexiGroupControl
  session,   \* the session fingerprint of the current credentials
  up,        \* the socket in charge is open
  wire,      \* wire[n]: what WhatsApp knows of a packet
  keys,      \* messages whose Signal keys a session has used up
  rows,      \* events of packets in NexiGroupEventOutbox
  snaps,     \* group.metadata.snapshot events there, with the changes they show
  at,        \* handlers with their local variables
  call,      \* control requests with theirs
  faults,
  steady     \* history: packets whose room was enabled ever since they were sent

socket == <<session, up>>
stored == <<ctl, keys, rows, snaps>>
vars   == <<stored, socket, wire, at, call, faults, steady>>

Generations == {1} \cup {q.gen : q \in Requests}
Granted     == {q \in Requests : q.op = "room"}
RoomGens    == {q.room.gen : q \in Granted}
Metas       == {q.room.meta : q \in Granted}
Changes     == {n \in Nodes : KindOf[n] # "message"}
Unknown     == [gen |-> 0, on |-> FALSE, meta |-> 0]
RoomStates  == [gen : {0} \cup RoomGens, on : BOOLEAN, meta : {0} \cup Metas]
Controls    == [gen : Generations, rev : Nat, session : Nat, rooms : [Rooms -> RoomStates],
                stale : BOOLEAN, catalog : SUBSET Changes]

\* The row a service finds: of this pairing or an earlier one, no room enabled yet.
ASSUME GroupsControlStart ==
  /\ NoRow \notin Controls
  /\ StartRows \subseteq Controls \cup {NoRow}
  /\ \A b \in StartRows \ {NoRow} : b.session <= 1 /\ \A j \in Rooms : ~ b.rooms[j].on

Idle  == [pc |-> "idle", node |-> NoNode, mine |-> FALSE, session |-> 0, bind |-> NoRow]
Fresh == [pc |-> "new", op |-> "none", gen |-> 0, session |-> 0, room |-> Unknown,
          jid |-> NoNode, bind |-> NoRow, seen |-> {}]

TypeOK ==
  /\ ctl \in Controls \cup {NoRow}
  /\ session \in 1 .. MaxSession /\ up \in BOOLEAN
  /\ wire \in [Nodes -> {"unsent", "open", "acked"}]
  /\ keys \subseteq (1 .. MaxSession) \X Nodes
  /\ rows \subseteq [gen : Generations, session : 1 .. MaxSession, node : Nodes, room_gen : RoomGens]
  /\ snaps \subseteq [gen : Generations, session : 1 .. MaxSession, jid : Rooms,
                      room_gen : RoomGens, meta : Metas, seen : SUBSET Changes]
  /\ at \in [Handlers -> [pc : {"idle", "bind", "fence", "invalidate", "owns", "keys", "ack"},
                          node : Nodes \cup {Public, NoNode}, mine : BOOLEAN, session : Nat,
                          bind : Controls \cup {NoRow}]]
  /\ call \in [Calls -> [pc : {"new", "read", "write", "bind", "fetch", "done"},
                         op : {"none", "bootstrap", "catalog", "room"}, gen : {0} \cup Generations,
                         session : Nat, room : RoomStates, jid : Rooms \cup {NoNode},
                         bind : Controls \cup {NoRow}, seen : SUBSET Changes]]
  /\ faults \in Nat /\ steady \subseteq Nodes

Init ==
  /\ ctl \in StartRows /\ session = 1 /\ up = TRUE
  /\ wire = [n \in Nodes |-> "unsent"]
  /\ keys = {} /\ rows = {} /\ snaps = {} /\ steady = {} /\ faults = 0
  /\ at = [h \in Handlers |-> Idle] /\ call = [c \in Calls |-> Fresh]

\* bindingFor: the row, if it is bound to the session of who asks.
BindingFor(s)  == IF ctl # NoRow /\ ctl.session = s THEN ctl ELSE NoRow
\* What a packet shows as done to a group, as a fetch sees it.
Happened       == {n \in Changes : wire[n] # "unsent"}

GoTo(h, stage) == at' = [at EXCEPT ![h].pc = stage]
Leave(h)       == at' = [at EXCEPT ![h] = Idle]
Fault          == faults < MaxFaults /\ faults' = faults + 1

\* ownsSocket: the socket the packet came from was not replaced.
Owns(h)  == at[h].mine
Replaced == at' = [h \in Handlers |-> [at[h] EXCEPT !.mine = FALSE]]
\* What-if variant: a failed admission is swallowed and the packet goes on.
SuspendNothing(h) ==
  /\ at' = [at EXCEPT ![h].pc = "owns", ![h].bind = NoRow] /\ UNCHANGED socket

\* nexiGroupsSuspend ends the socket a failed admission came from, unanswered.
Suspend(h) ==
  /\ up' = (up /\ ~ Owns(h))
  /\ Leave(h) /\ UNCHANGED session

-----------------------------------------------------------------------------
\* WhatsApp has something new for the device.
Send(n) ==
  /\ wire[n] = "unsent" /\ wire' = [wire EXCEPT ![n] = "open"]
  /\ UNCHANGED <<stored, socket, at, call, faults>>

\* Messages of a socket are handled one by one, and so are notifications.
Lane(n) == KindOf[n] = "message"

\* handleMessage and handleNotification.  A message whose keys are used up does
\* not decrypt, gets no projection and is answered.
Deliver(h, n) ==
  /\ up /\ wire[n] = "open" /\ at[h] = Idle /\ (ctl # NoRow => ctl.rev < MaxRevision)
  /\ \A g \in Handlers : Owns(g) => Lane(at[g].node) # Lane(n)
  /\ at' = [at EXCEPT ![h] = [pc |-> IF <<session, n>> \in keys THEN "ack" ELSE "bind",
                              node |-> n, mine |-> TRUE, session |-> session, bind |-> NoRow]]
  /\ UNCHANGED <<stored, socket, wire, call, faults>>

\* interceptEvents: a public event about groups makes the catalog stale.
Publish(h) ==
  /\ at[h] = Idle /\ Fault
  /\ at' = [at EXCEPT ![h] = [pc |-> "bind", node |-> Public, mine |-> FALSE, session |-> session,
                              bind |-> NoRow]]
  /\ UNCHANGED <<stored, socket, wire, call>>

\* What a packet is to a binding that was read: nothing to admit without one, nor
\* a message of a room that is not enabled.
Stage(n, b) ==
  IF b = NoRow THEN "owns"
  ELSE IF n = Public \/ KindOf[n] = "bare" THEN "invalidate"
  ELSE IF KindOf[n] = "message" /\ ~ b.rooms[RoomOf[n]].on THEN "owns" ELSE "fence"

\* The first statement of admitProjection and of invalidateCatalog.
Bind(h) ==
  LET b == BindingFor(at[h].session) IN
  /\ at[h].pc = "bind"
  /\ at' = [at EXCEPT ![h].pc = Stage(at[h].node, b),
                      ![h].bind = IF Stage(at[h].node, b) = "owns" THEN NoRow ELSE b]
  /\ UNCHANGED <<stored, socket, wire, call, faults>>

\* What-if variant: the fence asks for the binding, not for its revision.
FencedBinding(b) == ctl # NoRow /\ ctl.gen = b.gen /\ ctl.session = b.session

\* The compare-and-set that takes the lock of the row.
Fenced(b) == ctl # NoRow /\ ctl.rev = b.rev /\ ctl.gen = b.gen /\ ctl.session = b.session

Authority(h) == at[h].bind.rooms[RoomOf[at[h].node]]

Event(h) == [gen |-> at[h].bind.gen, session |-> at[h].session, node |-> at[h].node,
             room_gen |-> Authority(h).gen]

\* enqueue: an event of the same source is there with another content.
Conflict(h) ==
  \E w \in rows : /\ w.gen = at[h].bind.gen /\ w.session = at[h].session
                  /\ w.node = at[h].node /\ w # Event(h)

\* The row after an admission: a notification makes the catalog stale, and the
\* removal of this account withdraws the room.
Admitted(h) ==
  LET left == KindOf[at[h].node] = "left" /\ Authority(h).on IN
  [ctl EXCEPT !.rev = @ + (IF left THEN 2 ELSE 1),
              !.stale = @ \/ KindOf[at[h].node] # "message",
              !.rooms[RoomOf[at[h].node]].on = @ /\ ~ left]

Admissible(h) ==
  LET b == at[h].bind IN
  IF at[h].pc = "fence" THEN Fenced(b) /\ ~ (Authority(h).on /\ Conflict(h))
  ELSE ctl # NoRow /\ ctl.gen = b.gen /\ ctl.session = b.session

\* The rest of admitProjection's transaction, or of invalidateCatalog.
Commit(h) ==
  /\ ctl' = IF at[h].pc = "fence" THEN Admitted(h) ELSE [ctl EXCEPT !.rev = @ + 1, !.stale = TRUE]
  /\ rows' = IF at[h].pc = "fence" /\ Authority(h).on THEN rows \cup {Event(h)} ELSE rows
  /\ UNCHANGED <<keys, snaps>>

Admit(h) ==
  /\ at[h].pc \in {"fence", "invalidate"}
  /\ IF Admissible(h)
     THEN Commit(h) /\ at' = [at EXCEPT ![h].pc = "owns", ![h].bind = NoRow] /\ UNCHANGED socket
     ELSE Suspend(h) /\ UNCHANGED stored
  /\ UNCHANGED <<wire, call, faults>>

\* Back from the database: is this still the socket in charge?
Owned(h) ==
  /\ at[h].pc = "owns"
  /\ IF at[h].node = Public \/ ~ Owns(h) THEN Leave(h)
     ELSE GoTo(h, IF KindOf[at[h].node] = "message" THEN "keys" ELSE "ack")
  /\ UNCHANGED <<stored, socket, wire, call, faults>>

UsedUp(h) == keys' = keys \cup {<<at[h].session, at[h].node>>} /\ UNCHANGED <<ctl, rows, snaps>>

\* The end of the Signal transaction around decryption and admission.
WriteKeys(h) ==
  /\ at[h].pc = "keys" /\ UsedUp(h) /\ GoTo(h, "ack")
  /\ UNCHANGED <<socket, wire, call, faults>>

\* Only an open socket answers; an answer that fails suspends a notification's.
Ack(h) ==
  /\ at[h].pc = "ack" /\ Leave(h)
  /\ wire' = IF up /\ Owns(h) THEN [wire EXCEPT ![at[h].node] = "acked"] ELSE wire
  /\ UNCHANGED <<stored, socket, call, faults>>

\* A statement of a handler fails, with or without its effect.  Nobody suspends
\* the socket for a public event.
HandlerFails(h) ==
  /\ at[h].pc \in {"bind", "fence", "invalidate", "keys"} /\ Fault /\ Suspend(h)
  /\ \/ UNCHANGED stored
     \/ at[h].pc \in {"fence", "invalidate"} /\ Admissible(h) /\ Commit(h)
     \/ at[h].pc = "keys" /\ UsedUp(h)
  /\ UNCHANGED <<wire, call>>

-----------------------------------------------------------------------------
CallWith(c, d) == call' = [call EXCEPT ![c] = d]
Done(c)        == CallWith(c, [Fresh EXCEPT !.pc = "done"])
Control(c)     == UNCHANGED <<keys, rows, socket, wire, at, faults>>

\* control: a signed request arrives, from now or delayed, while a socket is open.
Request(c) ==
  /\ call[c].pc = "new" /\ up
  /\ \E q \in Requests :
       CallWith(c, [pc |-> IF q.op = "bootstrap" THEN "read" ELSE "bind", op |-> q.op, gen |-> q.gen,
                    session |-> session, room |-> q.room, jid |-> q.jid, bind |-> NoRow, seen |-> {}])
  /\ UNCHANGED ctl /\ UNCHANGED snaps /\ Control(c)

\* The binding catalog and room work with; enabling a room and a catalog that is
\* stale or fifteen minutes old ask WhatsApp.
ReadBinding(c) ==
  LET b == BindingFor(call[c].session)
      d == [call[c] EXCEPT !.bind = b] IN
  /\ call[c].pc = "bind"
  /\ IF b = NoRow \/ b.gen # d.gen THEN Done(c)
     ELSE \/ d.op = "catalog" /\ CallWith(c, [d EXCEPT !.pc = "fetch"])
          \/ d.op = "catalog" /\ ~ b.stale /\ Done(c)
          \/ d.op = "room" /\ CallWith(c, [d EXCEPT !.pc = IF d.room.on THEN "fetch" ELSE "read"])
  /\ UNCHANGED ctl /\ UNCHANGED snaps /\ Control(c)

\* Metadata of the groups, or an error; a catalog of another session is dropped.
Fetch(c) ==
  /\ call[c].pc = "fetch"
  /\ \/ CallWith(c, [call[c] EXCEPT !.seen = IF call[c].op = "room"
                       THEN {n \in Happened : RoomOf[n] = call[c].jid} ELSE Happened,
                     !.pc = IF call[c].op = "room" THEN "read" ELSE "write"])
     \/ Done(c)
  /\ UNCHANGED ctl /\ UNCHANGED snaps /\ Control(c)

\* What-if variant: what was fetched may be older than the binding.
RoomAllowedStale(c) ==
  LET d == call[c]  old == ctl.rooms[d.jid] IN
  /\ ctl # NoRow /\ ctl.gen = d.bind.gen /\ ctl.session = d.session /\ session = d.session
  /\ old.gen <= d.room.gen
  /\ old.gen = d.room.gen => old.on = d.room.on /\ old.meta <= d.room.meta

\* What the transaction of a room asks of the row it reads.
RoomAllowed(c) ==
  LET d == call[c]  old == ctl.rooms[d.jid] IN
  /\ ctl # NoRow /\ ctl.gen = d.bind.gen /\ ctl.session = d.session /\ session = d.session
  /\ d.room.on => ctl.rev = d.bind.rev
  /\ old.gen <= d.room.gen
  /\ old.gen = d.room.gen => old.on = d.room.on /\ old.meta <= d.room.meta

\* What the transaction of a bootstrap asks: the generations of one owner only
\* grow, and one generation has one session and one nonce.
BootstrapAllowed(c) ==
  ctl = NoRow \/ ctl.gen < call[c].gen \/ (ctl.gen = call[c].gen /\ ctl.session = call[c].session)

\* The first statement of the transactions of bootstrap and room.
ReadRow(c) ==
  /\ call[c].pc = "read"
  /\ IF \/ call[c].op = "bootstrap" /\ BootstrapAllowed(c)
        \/ call[c].op = "room" /\ RoomAllowed(c)
     THEN CallWith(c, [call[c] EXCEPT !.pc = "write", !.bind = ctl]) ELSE Done(c)
  /\ UNCHANGED ctl /\ UNCHANGED snaps /\ Control(c)

\* What-if variant: the update of a room does not ask for the revision it read.
UnchangedRow(c) == ctl # NoRow /\ ctl.gen = call[c].bind.gen

\* The compare-and-sets of the three operations.
SameRow(c) == ctl # NoRow /\ call[c].bind # NoRow /\ ctl.rev = call[c].bind.rev

Snapshot(c) ==
  LET d == call[c] IN
  [gen |-> d.bind.gen, session |-> d.session, jid |-> d.jid, room_gen |-> d.room.gen,
   meta |-> d.room.meta, seen |-> d.seen]

\* enqueue of a snapshot: its source is there with another content.
SnapshotConflict(c) ==
  \E s \in snaps : s # Snapshot(c) /\ s = [Snapshot(c) EXCEPT !.seen = s.seen]

Bootstraps(c) ==
  LET d == call[c] IN
  /\ IF d.bind # NoRow THEN SameRow(c) \/ d.bind.gen = d.gen ELSE ctl = NoRow
  /\ ctl' = IF d.bind # NoRow /\ d.bind.gen = d.gen THEN ctl
            ELSE [gen |-> d.gen, rev |-> IF d.bind = NoRow THEN 0 ELSE d.bind.rev + 1,
                  session |-> d.session, rooms |-> [j \in Rooms |-> Unknown],
                  stale |-> TRUE, catalog |-> {}]
  /\ UNCHANGED snaps

\* What-if variant: the catalog is stored whatever happened since.
CatalogsLate(c) ==
  /\ session = call[c].session /\ ctl # NoRow /\ ctl.gen = call[c].gen /\ ctl.session = call[c].session
  /\ ctl' = [ctl EXCEPT !.rev = @ + 1, !.catalog = call[c].seen, !.stale = FALSE]
  /\ UNCHANGED snaps

Catalogs(c) ==
  /\ SameRow(c) /\ ctl.gen = call[c].gen /\ ctl.session = call[c].session
  /\ ctl' = [ctl EXCEPT !.rev = @ + 1, !.catalog = call[c].seen, !.stale = FALSE]
  /\ UNCHANGED snaps

Authorizes(c) ==
  LET d == call[c] IN
  /\ SameRow(c) /\ ~ (d.room.on /\ SnapshotConflict(c))
  /\ ctl' = [ctl EXCEPT !.rev = @ + 1, !.rooms = [d.bind.rooms EXCEPT ![d.jid] = d.room]]
  /\ snaps' = IF d.room.on THEN snaps \cup {Snapshot(c)} ELSE snaps

Writes(c) ==
  \/ call[c].op = "bootstrap" /\ Bootstraps(c)
  \/ call[c].op = "catalog" /\ Catalogs(c)
  \/ call[c].op = "room" /\ Authorizes(c)

\* The rest of the transaction: it commits, and its reply arrives or not, or it
\* is rolled back.  All the ends of a request are answers the application may
\* repeat the request after.
Write(c) ==
  /\ call[c].pc = "write" /\ Done(c)
  /\ Writes(c) \/ UNCHANGED <<ctl, snaps>>
  /\ Control(c)

-----------------------------------------------------------------------------
\* The connection is lost.
Disconnect ==
  /\ up /\ Fault /\ up' = FALSE
  /\ UNCHANGED <<stored, session, wire, at, call>>

\* Recovery, reconnection or a restart gives a new socket, once a suspension or a
\* lost connection ended the last one.
Reconnect ==
  /\ ~ up /\ up' = TRUE /\ Replaced
  /\ UNCHANGED <<stored, session, wire, call, faults>>

Crash ==
  /\ Fault /\ up' = FALSE
  /\ at' = [h \in Handlers |-> Idle]
  /\ call' = [c \in Calls |-> IF call[c].pc = "new" THEN Fresh ELSE [Fresh EXCEPT !.pc = "done"]]
  /\ UNCHANGED <<stored, session, wire>>

\* The account is paired anew: other credentials, another fingerprint.
Pair ==
  /\ session < MaxSession /\ session' = session + 1 /\ up' = TRUE /\ Replaced
  /\ UNCHANGED <<stored, wire, call, faults>>

Enabled(n)  == ctl # NoRow /\ ctl.session = session /\ KindOf[n] # "bare" /\ ctl.rooms[RoomOf[n]].on
History     == steady' = {n \in Nodes : /\ n \in steady \/ wire[n] = "unsent"
                                        /\ wire'[n] # "unsent" /\ Enabled(n)'}

Handle(h) == Bind(h) \/ Admit(h) \/ Owned(h) \/ WriteKeys(h) \/ Ack(h)
Serve(c)  == ReadBinding(c) \/ Fetch(c) \/ ReadRow(c) \/ Write(c)

Next ==
  /\ \/ \E n \in Nodes : Send(n) \/ \E h \in Handlers : Deliver(h, n)
     \/ \E h \in Handlers : Publish(h) \/ Handle(h) \/ HandlerFails(h)
     \/ \E c \in Calls : Request(c) \/ Serve(c)
     \/ Disconnect \/ Reconnect \/ Crash \/ Pair
  /\ History

Spec == Init /\ [][Next]_vars

-----------------------------------------------------------------------------
Bound     == ctl # NoRow /\ ctl.session = session
Acked     == {n \in Nodes : wire[n] = "acked"}
InRoom(j) == {n \in Changes : KindOf[n] # "bare" /\ RoomOf[n] = j}

\* "Signal keys commit" only where "canonical SQL has already committed"
\* (GROUPS-WAVE1-CORRECTIONS.md:27): no packet of a room that was enabled since
\* before it was sent is answered, or made impossible to decrypt again, without
\* its event in the outbox, whatever fails in between.
NoneLost ==
  \A n \in steady : n \in Acked \/ <<session, n>> \in keys =>
    \E w \in rows : w.node = n /\ w.session = session /\ w.gen = ctl.gen

\* "A revoke cannot race admission into an incompatible binding or room
\* generation" (nexi-groups.cjs:597): an event appears while its room is enabled
\* in the generations it names, whatever request commits between the read and
\* the transaction.
RowsAuthorized ==
  [][\A w \in rows' \ rows :
       /\ ctl # NoRow /\ ctl.gen = w.gen /\ ctl.session = w.session
       /\ ctl.rooms[RoomOf[w.node]].on /\ ctl.rooms[RoomOf[w.node]].gen = w.room_gen]_vars

\* "CAS prevents concurrent JSON updates from dropping another room or restoring
\* an older authorization after a newer disable" (nexi-groups.cjs:976): within a
\* binding generation the authority over a room only moves on, and what was
\* disabled, by the application or by a removal, stays so in its generation.
AuthorityForward ==
  [][ctl # NoRow =>
       \/ ctl'.gen > ctl.gen
       \/ /\ ctl'.gen = ctl.gen
          /\ \A j \in Rooms : LET old == ctl.rooms[j]  new == ctl'.rooms[j] IN
               \/ new.gen > old.gen
               \/ new.gen = old.gen /\ (new.on => old.on) /\ new.meta >= old.meta]_vars

\* A catalog that is not called stale shows every change of the groups that was
\* answered to WhatsApp: a fetch that a notification overtakes is not stored.
CatalogCurrent == Bound /\ ~ ctl.stale => Changes \cap Acked \subseteq ctl.catalog

\* The application can follow an enabled room: every change that was answered is
\* in the snapshot of its authorization, or told by an event of its own.
RoomFollowed ==
  Bound => \A j \in Rooms : ctl.rooms[j].on =>
    \E s \in snaps :
      /\ s.jid = j /\ s.gen = ctl.gen /\ s.session = session
      /\ s.room_gen = ctl.rooms[j].gen /\ s.meta = ctl.rooms[j].meta
      /\ InRoom(j) \cap Acked \subseteq s.seen \cup
           {w.node : w \in {r \in rows : r.gen = ctl.gen /\ r.session = session}}

\* The three of them, and the types of the state: what WhatsApp is told of a
\* packet, what the outbox tells the application and what the binding says of
\* the catalog stay together.
ControlInv == TypeOK /\ NoneLost /\ CatalogCurrent /\ RoomFollowed
=============================================================================
