------------------------- MODULE GroupsControl_proofs -------------------------
(***************************************************************************)
(* The authority over groups, for any number of rooms, packets, handlers,  *)
(* requests, pairings and faults.  The argument is about what was read:    *)
(* every binding somebody still holds is a version of the one row, and of  *)
(* its versions only the current one has the current revision, so that a   *)
(* compare-and-set that succeeds says that the row is the one that was     *)
(* read.  With that, whatever is past its admission has been told to the   *)
(* row, to the outbox, or to the fetch that is about to be stored.         *)
(***************************************************************************)
EXTENDS GroupsControl, TLAPS

\* What a handler or a request holds is the row, or what the row was before.
Version(b) == b # NoRow => /\ ctl # NoRow /\ b.rev <= ctl.rev
                           /\ b.rev = ctl.rev => b = ctl

RowInv ==
  /\ ctl # NoRow => /\ ctl.session <= session
                    /\ \A j \in Rooms : ctl.rooms[j].on => ctl.rooms[j].gen \in RoomGens
  /\ \A k \in keys : KindOf[k[2]] = "message" /\ wire[k[2]] # "unsent"

\* A handler between its stages.
HandlerOK(h) ==
  /\ Version(at[h].bind)
  /\ at[h].bind # NoRow => at[h].bind.session = at[h].session
  /\ at[h].mine => at[h].session = session /\ at[h].node \in Nodes
  /\ at[h].pc # "idle" => at[h].session \in 1 .. session /\ at[h].node \in Nodes \cup {Public}
  /\ at[h].node \in Nodes => wire[at[h].node] # "unsent"
  /\ at[h].pc = "fence" => at[h].bind # NoRow /\ at[h].node \in Nodes /\ KindOf[at[h].node] # "bare"
  /\ at[h].pc = "invalidate" => at[h].bind # NoRow /\ (at[h].node = Public \/ KindOf[at[h].node] = "bare")
  /\ at[h].pc \in {"keys", "ack"} => at[h].node \in Nodes
  /\ at[h].pc = "keys" => KindOf[at[h].node] = "message"
HandlerInv == \A h \in Handlers : HandlerOK(h)

\* What a room's request may do to the room of a row it read.
Ordered(d, b) ==
  LET old == b.rooms[d.jid] IN
  /\ old.gen <= d.room.gen
  /\ old.gen = d.room.gen => old.on = d.room.on /\ old.meta <= d.room.meta

\* A request between its stages.
CallOK(c) ==
  LET d == call[c] IN
  /\ Version(d.bind)
  /\ d.pc \in {"read", "write", "bind", "fetch"} =>
       /\ d.session \in 1 .. session /\ d.gen \in Generations /\ d.op # "none"
       /\ d.op = "room" => d.jid \in Rooms /\ d.room.gen \in RoomGens /\ d.room.meta \in Metas
  /\ d.pc = "fetch" \/ (d.pc \in {"read", "write"} /\ d.op = "room") \/ (d.pc = "write" /\ d.op = "catalog") =>
       d.bind # NoRow /\ d.bind.session = d.session
  /\ d.pc = "fetch" => d.op # "bootstrap"
  /\ d.pc = "write" /\ d.op = "bootstrap" /\ d.bind # NoRow => d.bind.gen <= d.gen
  /\ d.pc = "write" /\ d.op = "room" => Ordered(d, d.bind)
CallInv == \A c \in Calls : CallOK(c)

\* Packets that are answered, or that their socket may answer without asking
\* the database again.
Passed == Acked \cup {at[h].node : h \in {g \in Handlers : at[g].mine /\ at[g].pc \in {"owns", "ack"}}}

\* What a fetch has seen includes what had passed before, as long as the row is
\* the one the request read.
SeenBy(c) ==
  LET d == call[c] IN
  SameRow(c) /\ Bound =>
    /\ d.op = "catalog" /\ d.pc = "write" => Changes \cap Passed \subseteq d.seen
    /\ d.op = "room" /\ d.room.on /\ d.pc \in {"read", "write"} => InRoom(d.jid) \cap Passed \subseteq d.seen
SeenInv == \A c \in Calls : SeenBy(c)

CatalogInv == Bound /\ ~ ctl.stale => Changes \cap Passed \subseteq ctl.catalog

\* Events of packets, under the current binding.
Told == {w.node : w \in {r \in rows : r.gen = ctl.gen /\ r.session = session}}
Followed(j) ==
  \E s \in snaps :
    /\ s.jid = j /\ s.gen = ctl.gen /\ s.session = session
    /\ s.room_gen = ctl.rooms[j].gen /\ s.meta = ctl.rooms[j].meta
    /\ InRoom(j) \cap Passed \subseteq s.seen \cup Told
FollowedInv == Bound => \A j \in Rooms : ctl.rooms[j].on => Followed(j)

\* Beyond its admission, answered or out of keys.
Beyond(n) ==
  \/ wire[n] = "acked" \/ <<session, n>> \in keys
  \/ \E h \in Handlers : at[h].node = n /\ at[h].session = session /\ at[h].pc \in {"owns", "keys", "ack"}
SteadyInv ==
  \A n \in steady : Enabled(n) /\ wire[n] # "unsent" /\ (Beyond(n) => n \in Told)

IndInv == /\ TypeOK /\ RowInv /\ HandlerInv /\ CallInv
          /\ SeenInv /\ CatalogInv /\ FollowedInv /\ SteadyInv

-----------------------------------------------------------------------------
\* A packet's kind and room.
LEMMA Packet ==
  ASSUME NEW n \in Nodes
  PROVE  KindOf[n] \in Kinds /\ RoomOf[n] \in Rooms /\ n # Public /\ n # NoNode
  BY GroupsControlConstants

\* The row after an admission.
LEMMA AdmittedShape ==
  ASSUME ctl \in Controls, NEW h \in Handlers, at[h].node \in Nodes
  PROVE  /\ Admitted(h) \in Controls
         /\ Admitted(h).gen = ctl.gen /\ Admitted(h).session = ctl.session
         /\ Admitted(h).catalog = ctl.catalog /\ Admitted(h).rev > ctl.rev
         /\ Admitted(h).stale = (ctl.stale \/ KindOf[at[h].node] # "message")
         /\ \A j \in Rooms :
              /\ Admitted(h).rooms[j].gen = ctl.rooms[j].gen /\ Admitted(h).rooms[j].meta = ctl.rooms[j].meta
              /\ Admitted(h).rooms[j].on => ctl.rooms[j].on
  <1> DEFINE left == KindOf[at[h].node] = "left" /\ Authority(h).on
             k    == IF left THEN 2 ELSE 1
             j0   == RoomOf[at[h].node]
             b    == ctl.stale \/ KindOf[at[h].node] # "message"
             o    == ctl.rooms[j0].on /\ ~ left
             r    == [ctl.rooms[j0] EXCEPT !.on = o]
             rs   == [ctl.rooms EXCEPT ![j0] = r]
  <1>1. j0 \in Rooms BY Packet
  <1>2. k \in Nat /\ k > 0 OBVIOUS
  <1>3. b \in BOOLEAN BY DEF Controls
  <1>4. ctl.rooms \in [Rooms -> RoomStates] /\ ctl.rooms[j0] \in RoomStates BY <1>1 DEF Controls
  <1>5. o \in BOOLEAN BY <1>4 DEF RoomStates
  <1>6. Admitted(h) = [ctl EXCEPT !.rev = ctl.rev + k, !.stale = b, !.rooms[j0].on = o]
    BY DEF Admitted
  <1>7. o => ctl.rooms[j0].on OBVIOUS
  <1> HIDE DEF k, b, o, j0
  <1>8. /\ r \in RoomStates /\ r.gen = ctl.rooms[j0].gen /\ r.meta = ctl.rooms[j0].meta
        /\ r.on = o
    BY <1>4, <1>5 DEF RoomStates
  <1>9. Admitted(h) = [ctl EXCEPT !.rev = ctl.rev + k, !.stale = b, !.rooms = rs]
    BY <1>6, <1>4, <1>1 DEF Controls
  <1> HIDE DEF r
  <1>10. rs \in [Rooms -> RoomStates] /\ \A j \in Rooms : rs[j] = IF j = j0 THEN r ELSE ctl.rooms[j]
    BY <1>8, <1>4, <1>1
  <1> HIDE DEF rs
  <1>11. /\ Admitted(h) = [gen |-> ctl.gen, rev |-> ctl.rev + k, session |-> ctl.session, rooms |-> rs,
                           stale |-> b, catalog |-> ctl.catalog]
    BY <1>9 DEF Controls
  <1>12. ctl.rev \in Nat /\ ctl.rev + k \in Nat /\ ctl.rev + k > ctl.rev
    BY <1>2 DEF Controls
  <1>13. Admitted(h) \in Controls
    BY <1>11, <1>12, <1>10, <1>3 DEF Controls
  <1>14. Admitted(h).stale = b /\ Admitted(h).rooms = rs /\ Admitted(h).rev = ctl.rev + k
    BY <1>11
  <1>15. \A j \in Rooms : /\ rs[j].gen = ctl.rooms[j].gen /\ rs[j].meta = ctl.rooms[j].meta
                          /\ rs[j].on => ctl.rooms[j].on
    BY <1>10, <1>8, <1>7
  <1> QED BY <1>11, <1>12, <1>13, <1>14, <1>15 DEF b

\* A compare-and-set that succeeds finds the row that was read.
LEMMA FencedIsRow ==
  ASSUME NEW h \in Handlers, HandlerInv, at[h].bind # NoRow, Fenced(at[h].bind)
  PROVE  at[h].bind = ctl
  BY DEF Fenced, HandlerInv, HandlerOK, Version

LEMMA SameIsRow ==
  ASSUME NEW c \in Calls, CallInv, SameRow(c)
  PROVE  call[c].bind = ctl /\ ctl # NoRow
  BY DEF SameRow, CallInv, CallOK, Version

\* The row, and what else a commit of an admission leaves.
LEMMA CommitShape ==
  ASSUME TypeOK, HandlerInv, NEW h \in Handlers, at[h].pc \in {"fence", "invalidate"},
         Admissible(h), Commit(h)
  PROVE  /\ ctl # NoRow /\ ctl \in Controls /\ ctl' \in Controls /\ ctl' # NoRow
         /\ ctl'.gen = ctl.gen /\ ctl'.session = ctl.session
         /\ ctl'.catalog = ctl.catalog /\ ctl'.rev > ctl.rev
         /\ ~ ctl'.stale => ~ ctl.stale /\ at[h].pc = "fence" /\ KindOf[at[h].node] = "message"
         /\ \A j \in Rooms :
              /\ ctl'.rooms[j].gen = ctl.rooms[j].gen /\ ctl'.rooms[j].meta = ctl.rooms[j].meta
              /\ ctl'.rooms[j].on => ctl.rooms[j].on
         /\ keys' = keys /\ snaps' = snaps
         /\ at[h].pc = "fence" => at[h].bind = ctl
         /\ rows' = IF at[h].pc = "fence" /\ Authority(h).on THEN rows \cup {Event(h)} ELSE rows
  <1>1. ctl # NoRow
    BY DEF Admissible, Fenced
  <1>2. ctl \in Controls
    BY <1>1 DEF TypeOK
  <1>3. keys' = keys /\ snaps' = snaps
        /\ rows' = IF at[h].pc = "fence" /\ Authority(h).on THEN rows \cup {Event(h)} ELSE rows
    BY DEF Commit
  <1>4. CASE at[h].pc = "fence"
    <2>1. at[h].bind # NoRow /\ at[h].node \in Nodes
      BY <1>4 DEF HandlerInv, HandlerOK
    <2>2. at[h].bind = ctl
      BY <1>4, <2>1, FencedIsRow DEF Admissible
    <2>3. ctl' = Admitted(h)
      BY <1>4 DEF Commit
    <2>4. /\ Admitted(h) \in Controls
          /\ Admitted(h).gen = ctl.gen /\ Admitted(h).session = ctl.session
          /\ Admitted(h).catalog = ctl.catalog /\ Admitted(h).rev > ctl.rev
          /\ Admitted(h).stale = (ctl.stale \/ KindOf[at[h].node] # "message")
          /\ \A j \in Rooms :
               /\ Admitted(h).rooms[j].gen = ctl.rooms[j].gen /\ Admitted(h).rooms[j].meta = ctl.rooms[j].meta
               /\ Admitted(h).rooms[j].on => ctl.rooms[j].on
      BY <1>2, <2>1, AdmittedShape
    <2>5. ctl' # NoRow
      BY <2>3, <2>4, GroupsControlStart
    <2>6. ~ ctl'.stale => ~ ctl.stale /\ KindOf[at[h].node] = "message"
      BY <2>3, <2>4
    <2> QED BY <1>1, <1>2, <1>3, <1>4, <2>2, <2>3, <2>4, <2>5, <2>6
  <1>5. CASE at[h].pc = "invalidate"
    <2>1. ctl' = [ctl EXCEPT !.rev = ctl.rev + 1, !.stale = TRUE]
      BY <1>5 DEF Commit
    <2>2. ctl' = [gen |-> ctl.gen, rev |-> ctl.rev + 1, session |-> ctl.session, rooms |-> ctl.rooms,
                  stale |-> TRUE, catalog |-> ctl.catalog]
      BY <2>1, <1>2 DEF Controls
    <2>3. ctl' \in Controls /\ ctl'.rev > ctl.rev
      BY <2>2, <1>2 DEF Controls
    <2> QED BY <1>1, <1>2, <1>3, <1>5, <2>2, <2>3, GroupsControlStart
  <1> QED BY <1>4, <1>5

\* The three ways a request changes the row: a binding of its own generation,
\* the catalog it fetched, the authority over a room.
Rebinds(c) ==
  /\ call[c].op = "bootstrap" /\ ctl' \in Controls
  /\ ctl # NoRow => ctl'.rev > ctl.rev /\ ctl'.gen > ctl.gen
  /\ ctl'.session = call[c].session /\ ctl'.stale /\ \A j \in Rooms : ~ ctl'.rooms[j].on
  /\ snaps' = snaps
Lists(c) ==
  /\ call[c].op = "catalog" /\ ctl \in Controls /\ ctl' \in Controls /\ SameRow(c)
  /\ ctl'.gen = ctl.gen /\ ctl'.session = ctl.session /\ ctl'.rev > ctl.rev
  /\ ctl'.rooms = ctl.rooms /\ ctl'.catalog = call[c].seen
  /\ snaps' = snaps
Grants(c) ==
  LET d == call[c] IN
  /\ d.op = "room" /\ ctl \in Controls /\ ctl' \in Controls /\ SameRow(c)
  /\ ctl'.gen = ctl.gen /\ ctl'.session = ctl.session /\ ctl'.rev > ctl.rev
  /\ ctl'.stale = ctl.stale /\ ctl'.catalog = ctl.catalog
  /\ d.session = ctl.session /\ d.jid \in Rooms /\ d.room.gen \in RoomGens /\ Ordered(d, ctl)
  /\ \A j \in Rooms : ctl'.rooms[j] = IF j = d.jid THEN d.room ELSE ctl.rooms[j]
  /\ snaps' = IF d.room.on THEN snaps \cup {Snapshot(c)} ELSE snaps

LEMMA WritesShape ==
  ASSUME TypeOK, CallInv, NEW c \in Calls, call[c].pc = "write", Writes(c)
  PROVE  (ctl' = ctl /\ snaps' = snaps) \/ (ctl' # NoRow /\ (Rebinds(c) \/ Lists(c) \/ Grants(c)))
  <1> DEFINE d == call[c]
  <1>0. /\ d.gen \in Generations /\ d.session \in Nat /\ d.seen \in SUBSET Changes
        /\ d.room \in RoomStates /\ d.bind \in Controls \cup {NoRow}
    <2>1. d.gen \in Generations /\ d.session \in 1 .. session
      BY DEF CallInv, CallOK
    <2> QED BY <2>1 DEF TypeOK
  <1>1. CASE d.op = "bootstrap"
    <2>1. Bootstraps(c) BY <1>1 DEF Writes
    <2>2. CASE d.bind # NoRow /\ d.bind.gen = d.gen
      BY <2>1, <2>2 DEF Bootstraps
    <2>3. CASE ~ (d.bind # NoRow /\ d.bind.gen = d.gen)
      <3> DEFINE v  == IF d.bind = NoRow THEN 0 ELSE d.bind.rev + 1
                 rs == [j \in Rooms |-> Unknown]
      <3>1. ctl' = [gen |-> d.gen, rev |-> v, session |-> d.session, rooms |-> rs,
                    stale |-> TRUE, catalog |-> {}] /\ snaps' = snaps
        BY <2>1, <2>3 DEF Bootstraps
      <3>2. v \in Nat
        BY <1>0 DEF Controls
      <3>3. rs \in [Rooms -> RoomStates] /\ \A j \in Rooms : ~ rs[j].on
        BY DEF RoomStates, Unknown
      <3>4. ctl # NoRow => d.bind # NoRow /\ SameRow(c) /\ d.bind = ctl
        <4>1. ctl # NoRow => d.bind # NoRow /\ SameRow(c)
          BY <2>1, <2>3 DEF Bootstraps
        <4> QED BY <4>1, SameIsRow
      <3>5. ctl # NoRow => v > ctl.rev /\ d.gen > ctl.gen
        <4> SUFFICES ASSUME ctl # NoRow PROVE v > ctl.rev /\ d.gen > ctl.gen
          OBVIOUS
        <4>1. d.bind = ctl /\ ctl \in Controls /\ ctl.rev \in Nat /\ v = ctl.rev + 1
          BY <3>4 DEF TypeOK, Controls
        <4>2. ctl.gen <= d.gen /\ ctl.gen # d.gen
          BY <3>4, <4>1, <2>3, <1>1 DEF CallInv, CallOK
        <4>3. ctl.gen \in Nat /\ d.gen \in Nat
          BY <4>1, <1>0, GroupsControlConstants DEF Controls, Generations
        <4> QED BY <4>1, <4>2, <4>3
      <3> HIDE DEF v, rs
      <3>6. ctl' \in Controls
        BY <3>1, <3>2, <3>3, <1>0 DEF Controls
      <3>7. Rebinds(c)
        BY <3>1, <3>3, <3>5, <3>6, <1>1 DEF Rebinds
      <3> QED BY <3>6, <3>7, GroupsControlStart
    <2> QED BY <2>2, <2>3
  <1>2. CASE d.op = "catalog"
    <2>1. Catalogs(c) BY <1>2 DEF Writes
    <2>2. ctl \in Controls /\ SameRow(c)
      BY <2>1 DEF Catalogs, SameRow, TypeOK
    <2>3. ctl' = [gen |-> ctl.gen, rev |-> ctl.rev + 1, session |-> ctl.session, rooms |-> ctl.rooms,
                  stale |-> FALSE, catalog |-> d.seen] /\ snaps' = snaps
      BY <2>1, <2>2 DEF Catalogs, Controls
    <2>4. ctl' \in Controls /\ ctl'.rev > ctl.rev
      BY <2>2, <2>3, <1>0 DEF Controls
    <2>5. Lists(c)
      BY <2>2, <2>3, <2>4, <1>2 DEF Lists
    <2> QED BY <2>4, <2>5, GroupsControlStart
  <1>3. CASE d.op = "room"
    <2>1. Authorizes(c) BY <1>3 DEF Writes
    <2>2. ctl \in Controls /\ SameRow(c) /\ d.bind = ctl
      BY <2>1, SameIsRow DEF Authorizes, SameRow, TypeOK
    <2>3. d.jid \in Rooms /\ d.room.gen \in RoomGens /\ ctl.session = d.session /\ Ordered(d, ctl)
      BY <1>3, <2>2 DEF CallInv, CallOK
    <2> DEFINE rs == [ctl.rooms EXCEPT ![d.jid] = d.room]
    <2>4. ctl' = [ctl EXCEPT !.rev = ctl.rev + 1, !.rooms = rs]
          /\ snaps' = IF d.room.on THEN snaps \cup {Snapshot(c)} ELSE snaps
      BY <2>1, <2>2 DEF Authorizes
    <2>5. rs \in [Rooms -> RoomStates] /\ \A j \in Rooms : rs[j] = IF j = d.jid THEN d.room ELSE ctl.rooms[j]
      BY <2>2, <2>3, <1>0 DEF Controls
    <2> HIDE DEF rs
    <2>6. ctl' = [gen |-> ctl.gen, rev |-> ctl.rev + 1, session |-> ctl.session, rooms |-> rs,
                  stale |-> ctl.stale, catalog |-> ctl.catalog]
      BY <2>2, <2>4 DEF Controls
    <2>7. ctl' \in Controls /\ ctl'.rev > ctl.rev
      BY <2>2, <2>5, <2>6 DEF Controls
    <2>8. Grants(c)
      BY <2>2, <2>3, <2>4, <2>5, <2>6, <2>7, <1>3 DEF Grants
    <2> QED BY <2>7, <2>8, GroupsControlStart
  <1> QED BY <1>1, <1>2, <1>3 DEF Writes

-----------------------------------------------------------------------------
\* The row stays, or moves to another revision.
Moves ==
  ctl' = ctl \/ (ctl' # NoRow /\ ctl' \in Controls /\ (ctl # NoRow => ctl'.rev > ctl.rev))

\* Who may move the row.
LEMMA RowWriters ==
  ASSUME Next
  PROVE  \/ UNCHANGED ctl
         \/ \E h \in Handlers : at[h].pc \in {"fence", "invalidate"} /\ Admissible(h) /\ Commit(h)
         \/ \E c \in Calls : call[c].pc = "write" /\ Writes(c)
  <1>1. ASSUME NEW h \in Handlers, Handle(h) \/ HandlerFails(h)
        PROVE  UNCHANGED ctl \/ (at[h].pc \in {"fence", "invalidate"} /\ Admissible(h) /\ Commit(h))
    BY <1>1 DEF Handle, Bind, Admit, Owned, WriteKeys, Ack, HandlerFails, UsedUp, stored
  <1>2. ASSUME NEW c \in Calls, Serve(c)
        PROVE  UNCHANGED ctl \/ (call[c].pc = "write" /\ Writes(c))
    BY <1>2 DEF Serve, ReadBinding, Fetch, ReadRow, Write
  <1>3. CASE \/ \E n \in Nodes : Send(n) \/ \E h \in Handlers : Deliver(h, n)
             \/ \E h \in Handlers : Publish(h)
             \/ \E c \in Calls : Request(c)
             \/ Disconnect \/ Reconnect \/ Crash \/ Pair
    BY <1>3 DEF Send, Deliver, Publish, Request, Disconnect, Reconnect, Crash, Pair, stored
  <1> QED BY <1>1, <1>2, <1>3 DEF Next

LEMMA RowMoves ==
  ASSUME TypeOK, HandlerInv, CallInv, Next
  PROVE  Moves
  <1>1. ASSUME NEW h \in Handlers, at[h].pc \in {"fence", "invalidate"}, Admissible(h), Commit(h)
        PROVE  Moves
    BY <1>1, CommitShape DEF Moves
  <1>2. ASSUME NEW c \in Calls, call[c].pc = "write", Writes(c)
        PROVE  Moves
    BY <1>2, WritesShape DEF Moves, Rebinds, Lists, Grants
  <1> QED BY <1>1, <1>2, RowWriters DEF Moves

\* A version of the row is one of the next row.
LEMMA VersionKept ==
  ASSUME TypeOK, Moves, NEW b \in Controls \cup {NoRow}, Version(b)
  PROVE  b # NoRow => /\ ctl' # NoRow /\ b.rev <= ctl'.rev
                      /\ b.rev = ctl'.rev => b = ctl'
  <1> SUFFICES ASSUME b # NoRow, ctl' # ctl
               PROVE  ctl' # NoRow /\ b.rev <= ctl'.rev /\ b.rev # ctl'.rev
    BY DEF Version
  <1>1. ctl # NoRow /\ b.rev <= ctl.rev
    BY DEF Version
  <1>2. ctl' # NoRow /\ ctl'.rev > ctl.rev
    BY <1>1 DEF Moves
  <1>3. b.rev \in Nat /\ ctl.rev \in Nat /\ ctl'.rev \in Nat
    BY <1>1 DEF Moves, TypeOK, Controls
  <1> QED BY <1>1, <1>2, <1>3

\* What each step does to the session, to the packets and to what was stored.
LEMMA Grows ==
  ASSUME TypeOK, Next
  PROVE  /\ session' = session \/ (session' = session + 1 /\ session < MaxSession)
         /\ \A n \in Nodes : wire[n] # "unsent" => wire'[n] # "unsent"
         /\ rows \subseteq rows' /\ snaps \subseteq snaps' /\ keys \subseteq keys'
  <1>1. ASSUME NEW n \in Nodes, Send(n) PROVE wire' = [wire EXCEPT ![n] = "open"]
    BY <1>1 DEF Send
  <1>2. ASSUME NEW h \in Handlers, Handle(h) \/ HandlerFails(h)
        PROVE  /\ session' = session /\ (wire' = wire \/ wire' = [wire EXCEPT ![at[h].node] = "acked"])
               /\ rows \subseteq rows' /\ snaps \subseteq snaps' /\ keys \subseteq keys'
    BY <1>2 DEF Handle, Bind, Admit, Owned, WriteKeys, Ack, HandlerFails, Suspend, UsedUp, Commit,
                stored, socket
  <1>3. ASSUME NEW c \in Calls, Request(c) \/ Serve(c)
        PROVE  session' = session /\ wire' = wire /\ rows' = rows /\ snaps \subseteq snaps' /\ keys' = keys
    BY <1>3 DEF Request, Serve, ReadBinding, Fetch, ReadRow, Write, Control, Writes, Bootstraps, Catalogs,
                Authorizes, socket
  <1>4. CASE \/ \E n \in Nodes : Send(n) \/ \E h \in Handlers : Deliver(h, n)
             \/ \E h \in Handlers : Publish(h)
             \/ Disconnect \/ Reconnect \/ Crash \/ Pair
    BY <1>4 DEF Send, Deliver, Publish, Disconnect, Reconnect, Crash, Pair, stored, socket, TypeOK
  <1> QED BY <1>2, <1>3, <1>4 DEF Next, TypeOK

-----------------------------------------------------------------------------
\* Types.
HandlerRec == [pc : {"idle", "bind", "fence", "invalidate", "owns", "keys", "ack"},
               node : Nodes \cup {Public, NoNode}, mine : BOOLEAN, session : Nat,
               bind : Controls \cup {NoRow}]
CallRec    == [pc : {"new", "read", "write", "bind", "fetch", "done"},
               op : {"none", "bootstrap", "catalog", "room"}, gen : {0} \cup Generations,
               session : Nat, room : RoomStates, jid : Rooms \cup {NoNode},
               bind : Controls \cup {NoRow}, seen : SUBSET Changes]

LEMMA Records ==
  /\ Idle \in HandlerRec /\ Fresh \in CallRec /\ [Fresh EXCEPT !.pc = "done"] \in CallRec
  /\ \A q \in Requests : q.room \in RoomStates /\ q.jid \in Rooms \cup {NoNode} /\ q.gen \in Generations
  /\ \A q \in Granted : q.room.gen \in RoomGens /\ q.room.meta \in Metas
  <1>1. Unknown \in RoomStates
    BY DEF Unknown, RoomStates
  <1>2. Idle \in HandlerRec
    BY DEF Idle, HandlerRec
  <1>3. Fresh \in CallRec /\ [Fresh EXCEPT !.pc = "done"] \in CallRec
    BY <1>1 DEF Fresh, CallRec
  <1>4. ASSUME NEW q \in Requests
        PROVE  q.room \in RoomStates /\ q.jid \in Rooms \cup {NoNode} /\ q.gen \in Generations
    <2>1. q.room \in [gen : Nat, on : BOOLEAN, meta : Nat]
      BY GroupsControlConstants
    <2>2. q.room.gen \in {0} \cup RoomGens /\ q.room.meta \in {0} \cup Metas
      BY GroupsControlConstants DEF RoomGens, Metas, Granted
    <2> QED BY <2>1, <2>2, GroupsControlConstants DEF RoomStates, Generations
  <1>5. \A q \in Granted : q.room.gen \in RoomGens /\ q.room.meta \in Metas
    BY DEF RoomGens, Metas
  <1> QED BY <1>2, <1>3, <1>4, <1>5

LEMMA AtTyped ==
  ASSUME TypeOK, Next
  PROVE  at' \in [Handlers -> HandlerRec]
  <1>0. at \in [Handlers -> HandlerRec] /\ Idle \in HandlerRec
    BY Records DEF TypeOK, HandlerRec
  <1>1. ASSUME NEW n \in Nodes, NEW h \in Handlers, Deliver(h, n) PROVE at' \in [Handlers -> HandlerRec]
    <2> DEFINE r == [pc |-> IF <<session, n>> \in keys THEN "ack" ELSE "bind",
                     node |-> n, mine |-> TRUE, session |-> session, bind |-> NoRow]
    <2>1. r \in HandlerRec
      BY DEF HandlerRec, TypeOK
    <2>2. at' = [at EXCEPT ![h] = r]
      BY <1>1 DEF Deliver
    <2> QED BY <1>0, <2>1, <2>2
  <1>2. ASSUME NEW h \in Handlers, Publish(h) PROVE at' \in [Handlers -> HandlerRec]
    <2> DEFINE r == [pc |-> "bind", node |-> Public, mine |-> FALSE, session |-> session, bind |-> NoRow]
    <2>1. r \in HandlerRec
      BY DEF HandlerRec, TypeOK
    <2>2. at' = [at EXCEPT ![h] = r]
      BY <1>2 DEF Publish
    <2> QED BY <1>0, <2>1, <2>2
  <1>3. ASSUME NEW h \in Handlers, Bind(h) PROVE at' \in [Handlers -> HandlerRec]
    <2> DEFINE st == Stage(at[h].node, BindingFor(at[h].session))
               b  == IF st = "owns" THEN NoRow ELSE BindingFor(at[h].session)
    <2>1. at' = [at EXCEPT ![h].pc = st, ![h].bind = b]
      BY <1>3 DEF Bind
    <2>2. st \in {"owns", "invalidate", "fence"}
      BY DEF Stage
    <2>3. b \in Controls \cup {NoRow}
      BY DEF BindingFor, TypeOK
    <2> HIDE DEF st, b
    <2> DEFINE r == [at[h] EXCEPT !.pc = st]
    <2>4. r \in HandlerRec
      BY <1>0, <2>2 DEF HandlerRec
    <2>5. at' = [at EXCEPT ![h] = [r EXCEPT !.bind = b]]
      BY <1>0, <2>1
    <2> HIDE DEF r
    <2>6. [r EXCEPT !.bind = b] \in HandlerRec
      BY <2>3, <2>4 DEF HandlerRec
    <2> QED BY <1>0, <2>5, <2>6
  <1>4. ASSUME NEW h \in Handlers, Admit(h) PROVE at' \in [Handlers -> HandlerRec]
    BY <1>0, <1>4 DEF Admit, Suspend, Leave, HandlerRec
  <1>5. ASSUME NEW h \in Handlers, Owned(h) \/ WriteKeys(h) \/ Ack(h) PROVE at' \in [Handlers -> HandlerRec]
    <2>1. CASE at' = [at EXCEPT ![h] = Idle]
      BY <1>0, <2>1
    <2>2. CASE at' = [at EXCEPT ![h].pc = "keys"] \/ at' = [at EXCEPT ![h].pc = "ack"]
      BY <1>0, <2>2 DEF HandlerRec
    <2> QED BY <1>5, <2>1, <2>2 DEF Owned, WriteKeys, Ack, GoTo, Leave
  <1>6. ASSUME NEW h \in Handlers, HandlerFails(h) PROVE at' \in [Handlers -> HandlerRec]
    BY <1>0, <1>6 DEF HandlerFails, Suspend, Leave
  <1>7. CASE Replaced
    BY <1>0, <1>7 DEF Replaced, HandlerRec
  <1>8. CASE Crash
    BY <1>0, <1>8 DEF Crash
  <1>9. ASSUME NEW c \in Calls, Request(c) \/ Serve(c) PROVE at' = at
    BY <1>9 DEF Request, Serve, ReadBinding, Fetch, ReadRow, Write, Control
  <1>10. CASE (\E n \in Nodes : Send(n)) \/ Disconnect
    BY <1>0, <1>10 DEF Send, Disconnect
  <1> QED BY <1>0, <1>1, <1>2, <1>3, <1>4, <1>5, <1>6, <1>7, <1>8, <1>9, <1>10
          DEF Next, Handle, Reconnect, Pair

LEMMA CallTyped ==
  ASSUME TypeOK, CallInv, Next
  PROVE  call' \in [Calls -> CallRec]
  <1>0. call \in [Calls -> CallRec] /\ Fresh \in CallRec /\ [Fresh EXCEPT !.pc = "done"] \in CallRec
    BY Records DEF TypeOK, CallRec
  <1>1. ASSUME NEW c \in Calls, Request(c) PROVE call' \in [Calls -> CallRec]
    <2> DEFINE R(q) == [pc |-> IF q.op = "bootstrap" THEN "read" ELSE "bind", op |-> q.op, gen |-> q.gen,
                        session |-> session, room |-> q.room, jid |-> q.jid, bind |-> NoRow, seen |-> {}]
    <2>1. PICK q \in Requests : call' = [call EXCEPT ![c] = R(q)]
      BY <1>1 DEF Request, CallWith
    <2>2. R(q) \in CallRec
      <3>1. q.room \in RoomStates /\ q.jid \in Rooms \cup {NoNode} /\ q.gen \in Generations
        BY Records
      <3>2. session \in Nat
        BY DEF TypeOK
      <3>3. q.op \in {"bootstrap", "catalog", "room"}
        BY GroupsControlConstants
      <3> QED BY <3>1, <3>2, <3>3 DEF CallRec
    <2> HIDE DEF R
    <2> QED BY <1>0, <2>1, <2>2
  <1>2. ASSUME NEW c \in Calls, ReadBinding(c) PROVE call' \in [Calls -> CallRec]
    <2> DEFINE b == BindingFor(call[c].session)
               d == [call[c] EXCEPT !.bind = b]
    <2>1. b \in Controls \cup {NoRow}
      BY DEF BindingFor, TypeOK
    <2> HIDE DEF b
    <2>2. d \in CallRec /\ [d EXCEPT !.pc = "fetch"] \in CallRec /\ [d EXCEPT !.pc = "read"] \in CallRec
      <3>1. d \in CallRec
        BY <1>0, <2>1 DEF CallRec
      <3> HIDE DEF d
      <3> QED BY <3>1 DEF CallRec
    <2>3. \/ Done(c) \/ CallWith(c, [d EXCEPT !.pc = "fetch"])
          \/ CallWith(c, [d EXCEPT !.pc = IF d.room.on THEN "fetch" ELSE "read"])
      BY <1>2 DEF ReadBinding, b
    <2>4. [d EXCEPT !.pc = IF d.room.on THEN "fetch" ELSE "read"] \in CallRec
      <3>1. CASE d.room.on BY <3>1, <2>2
      <3>2. CASE ~ d.room.on BY <3>2, <2>2
      <3> QED BY <3>1, <3>2
    <2> HIDE DEF d
    <2> QED BY <1>0, <2>2, <2>3, <2>4 DEF Done, CallWith
  <1>3. ASSUME NEW c \in Calls, Fetch(c) PROVE call' \in [Calls -> CallRec]
    <2> DEFINE sn == IF call[c].op = "room" THEN {n \in Happened : RoomOf[n] = call[c].jid} ELSE Happened
               p  == IF call[c].op = "room" THEN "read" ELSE "write"
    <2>1. sn \in SUBSET Changes /\ p \in {"read", "write"}
      BY DEF Happened
    <2>2. Done(c) \/ CallWith(c, [call[c] EXCEPT !.seen = sn, !.pc = p])
      BY <1>3 DEF Fetch
    <2> HIDE DEF sn, p
    <2>3. [call[c] EXCEPT !.seen = sn, !.pc = p] \in CallRec
      BY <1>0, <2>1 DEF CallRec
    <2> QED BY <1>0, <2>2, <2>3 DEF Done, CallWith
  <1>4. ASSUME NEW c \in Calls, ReadRow(c) PROVE call' \in [Calls -> CallRec]
    <2>1. Done(c) \/ CallWith(c, [call[c] EXCEPT !.pc = "write", !.bind = ctl])
      BY <1>4 DEF ReadRow
    <2>2. [call[c] EXCEPT !.pc = "write", !.bind = ctl] \in CallRec
      BY <1>0 DEF CallRec, TypeOK
    <2> QED BY <1>0, <2>1, <2>2 DEF Done, CallWith
  <1>5. ASSUME NEW c \in Calls, Write(c) PROVE call' \in [Calls -> CallRec]
    BY <1>0, <1>5 DEF Write, Done, CallWith
  <1>6. CASE Crash
    BY <1>0, <1>6 DEF Crash
  <1>7. ASSUME NEW h \in Handlers, Handle(h) \/ HandlerFails(h) PROVE call' = call
    BY <1>7 DEF Handle, Bind, Admit, Owned, WriteKeys, Ack, HandlerFails
  <1>8. CASE \/ \E n \in Nodes : Send(n) \/ \E h \in Handlers : Deliver(h, n)
             \/ \E h \in Handlers : Publish(h)
             \/ Disconnect \/ Reconnect \/ Pair
    BY <1>0, <1>8 DEF Send, Deliver, Publish, Disconnect, Reconnect, Pair
  <1> QED BY <1>0, <1>1, <1>2, <1>3, <1>4, <1>5, <1>6, <1>7, <1>8 DEF Next, Serve

LEMMA InitTyped == Init => TypeOK
  <1> SUFFICES ASSUME Init PROVE TypeOK
    OBVIOUS
  <1>1. ctl \in Controls \cup {NoRow}
    BY GroupsControlStart DEF Init
  <1>2. at \in [Handlers -> HandlerRec] /\ call \in [Calls -> CallRec]
    BY Records DEF Init
  <1>3. session \in 1 .. MaxSession
    BY GroupsControlConstants DEF Init
  <1> QED BY <1>1, <1>2, <1>3 DEF Init, TypeOK, HandlerRec, CallRec

LEMMA SessionBound ==
  ASSUME TypeOK, NEW s \in 1 .. session
  PROVE  s \in 1 .. MaxSession
  BY GroupsControlConstants DEF TypeOK

LEMMA TypeStep ==
  ASSUME TypeOK, RowInv, HandlerInv, CallInv, [Next]_vars
  PROVE  TypeOK'
  <1>1. CASE UNCHANGED vars
    BY <1>1 DEF vars, stored, socket, TypeOK
  <1>2. CASE Next
    <2>1. ctl' \in Controls \cup {NoRow}
      BY <1>2, RowMoves DEF Moves, TypeOK
    <2>2. at' \in [Handlers -> HandlerRec] /\ call' \in [Calls -> CallRec]
      BY <1>2, AtTyped, CallTyped
    <2>3. session' \in 1 .. MaxSession
      BY <1>2, Grows, GroupsControlConstants DEF TypeOK
    <2>4. steady' \subseteq Nodes
      BY <1>2 DEF Next, History
    <2>5. up' \in BOOLEAN /\ faults' \in Nat
      <3>1. ASSUME NEW h \in Handlers, Handle(h) \/ HandlerFails(h) PROVE up' \in BOOLEAN /\ faults' \in Nat
        <4>1. up' = up \/ up' = (up /\ ~ Owns(h))
          BY <3>1 DEF Handle, Bind, Admit, Owned, WriteKeys, Ack, HandlerFails, Suspend, socket
        <4>2. faults' = faults \/ faults' = faults + 1
          BY <3>1 DEF Handle, Bind, Admit, Owned, WriteKeys, Ack, HandlerFails, Fault
        <4>3. (up /\ ~ Owns(h)) \in BOOLEAN
          OBVIOUS
        <4>4. faults + 1 \in Nat
          BY DEF TypeOK
        <4> QED BY <4>1, <4>2, <4>3, <4>4, Zenon DEF TypeOK
      <3>2. ASSUME NEW c \in Calls, Request(c) \/ Serve(c) PROVE up' = up /\ faults' = faults
        BY <3>2 DEF Request, Serve, ReadBinding, Fetch, ReadRow, Write, Control, socket
      <3>3. CASE \/ \E n \in Nodes : Send(n) \/ \E h \in Handlers : Deliver(h, n)
                 \/ \E h \in Handlers : Publish(h)
                 \/ Disconnect \/ Reconnect \/ Crash \/ Pair
        <4>1. up' \in {up, TRUE, FALSE} /\ (faults' = faults \/ faults' = faults + 1)
          BY <3>3 DEF Send, Deliver, Publish, Disconnect, Reconnect, Crash, Pair, socket, Fault
        <4>2. faults + 1 \in Nat
          BY DEF TypeOK
        <4> QED BY <4>1, <4>2 DEF TypeOK
      <3> QED BY <1>2, <3>1, <3>2, <3>3 DEF Next, TypeOK
    <2>6. wire' \in [Nodes -> {"unsent", "open", "acked"}]
      <3>1. wire' = wire \/ \E n : wire' = [wire EXCEPT ![n] = "open"] \/ wire' = [wire EXCEPT ![n] = "acked"]
        <4>1. ASSUME NEW h \in Handlers, Handle(h) \/ HandlerFails(h)
              PROVE  wire' = wire \/ wire' = [wire EXCEPT ![at[h].node] = "acked"]
          BY <4>1 DEF Handle, Bind, Admit, Owned, WriteKeys, Ack, HandlerFails
        <4>2. ASSUME NEW c \in Calls, Request(c) \/ Serve(c) PROVE wire' = wire
          BY <4>2 DEF Request, Serve, ReadBinding, Fetch, ReadRow, Write, Control
        <4>3. CASE \/ \E n \in Nodes : Send(n) \/ \E h \in Handlers : Deliver(h, n)
                   \/ \E h \in Handlers : Publish(h)
                   \/ Disconnect \/ Reconnect \/ Crash \/ Pair
          BY <4>3 DEF Send, Deliver, Publish, Disconnect, Reconnect, Crash, Pair
        <4> QED BY <1>2, <4>1, <4>2, <4>3 DEF Next
      <3> QED BY <3>1 DEF TypeOK
    <2>7. keys' \subseteq (1 .. MaxSession) \X Nodes
      <3>1. ASSUME NEW h \in Handlers, at[h].pc = "keys"
            PROVE  <<at[h].session, at[h].node>> \in (1 .. MaxSession) \X Nodes
        BY <3>1, SessionBound DEF HandlerInv, HandlerOK
      <3>2. keys' = keys \/ \E h \in Handlers : at[h].pc = "keys" /\ keys' = keys \cup {<<at[h].session, at[h].node>>}
        <4>1. ASSUME NEW h \in Handlers, Handle(h) \/ HandlerFails(h)
              PROVE  keys' = keys \/ (at[h].pc = "keys" /\ keys' = keys \cup {<<at[h].session, at[h].node>>})
          BY <4>1 DEF Handle, Bind, Admit, Owned, WriteKeys, Ack, HandlerFails, UsedUp, Commit, stored
        <4>2. ASSUME NEW c \in Calls, Request(c) \/ Serve(c) PROVE keys' = keys
          BY <4>2 DEF Request, Serve, ReadBinding, Fetch, ReadRow, Write, Control
        <4>3. CASE \/ \E n \in Nodes : Send(n) \/ \E h \in Handlers : Deliver(h, n)
                   \/ \E h \in Handlers : Publish(h)
                   \/ Disconnect \/ Reconnect \/ Crash \/ Pair
          BY <4>3 DEF Send, Deliver, Publish, Disconnect, Reconnect, Crash, Pair, stored
        <4> QED BY <1>2, <4>1, <4>2, <4>3 DEF Next
      <3> QED BY <3>1, <3>2 DEF TypeOK
    <2>8. rows' \subseteq [gen : Generations, session : 1 .. MaxSession, node : Nodes, room_gen : RoomGens]
      <3> USE <1>2
      <3>1. ASSUME NEW h \in Handlers, at[h].pc \in {"fence", "invalidate"}, Admissible(h), Commit(h)
            PROVE  rows' \subseteq [gen : Generations, session : 1 .. MaxSession, node : Nodes, room_gen : RoomGens]
        <4>1. CASE at[h].pc = "fence" /\ Authority(h).on
          <5>1. at[h].bind = ctl /\ ctl \in Controls /\ ctl # NoRow /\ rows' = rows \cup {Event(h)}
            BY <3>1, <4>1, CommitShape
          <5>2. at[h].node \in Nodes /\ at[h].session \in 1 .. MaxSession
            BY <4>1, SessionBound DEF HandlerInv, HandlerOK
          <5>3. Authority(h).gen \in RoomGens
            BY <4>1, <5>1, <5>2, Packet DEF RowInv, Authority
          <5>4. Event(h) \in [gen : Generations, session : 1 .. MaxSession, node : Nodes, room_gen : RoomGens]
            BY <5>1, <5>2, <5>3 DEF Event, Controls
          <5> QED BY <5>1, <5>4 DEF TypeOK
        <4>2. CASE ~ (at[h].pc = "fence" /\ Authority(h).on)
          BY <3>1, <4>2, CommitShape DEF TypeOK
        <4> QED BY <4>1, <4>2
      <3>2. \/ rows' = rows
            \/ \E h \in Handlers : at[h].pc \in {"fence", "invalidate"} /\ Admissible(h) /\ Commit(h)
        <4>1. ASSUME NEW h \in Handlers, Handle(h) \/ HandlerFails(h)
              PROVE  rows' = rows \/ (at[h].pc \in {"fence", "invalidate"} /\ Admissible(h) /\ Commit(h))
          BY <4>1 DEF Handle, Bind, Admit, Owned, WriteKeys, Ack, HandlerFails, UsedUp, stored
        <4>2. ASSUME NEW c \in Calls, Request(c) \/ Serve(c) PROVE rows' = rows
          BY <4>2 DEF Request, Serve, ReadBinding, Fetch, ReadRow, Write, Control
        <4>3. CASE \/ \E n \in Nodes : Send(n) \/ \E h \in Handlers : Deliver(h, n)
                   \/ \E h \in Handlers : Publish(h)
                   \/ Disconnect \/ Reconnect \/ Crash \/ Pair
          BY <4>3 DEF Send, Deliver, Publish, Disconnect, Reconnect, Crash, Pair, stored
        <4> QED BY <4>1, <4>2, <4>3 DEF Next
      <3> QED BY <3>1, <3>2 DEF TypeOK
    <2>9. snaps' \subseteq [gen : Generations, session : 1 .. MaxSession, jid : Rooms,
                            room_gen : RoomGens, meta : Metas, seen : SUBSET Changes]
      <3> USE <1>2
      <3>1. ASSUME NEW c \in Calls, call[c].pc = "write", Grants(c)
            PROVE  Snapshot(c) \in [gen : Generations, session : 1 .. MaxSession, jid : Rooms,
                                    room_gen : RoomGens, meta : Metas, seen : SUBSET Changes]
        <4>1. call[c].bind = ctl /\ ctl \in Controls
          BY <3>1, SameIsRow DEF Grants
        <4>2. /\ call[c].session \in 1 .. MaxSession /\ call[c].jid \in Rooms /\ call[c].room.gen \in RoomGens
              /\ call[c].room.meta \in Metas
          BY <3>1, SessionBound DEF CallInv, CallOK, Grants
        <4>3. call[c].seen \in SUBSET Changes
          BY DEF TypeOK
        <4> QED BY <4>1, <4>2, <4>3 DEF Snapshot, Controls
      <3>2. snaps' = snaps \/ \E c \in Calls : call[c].pc = "write" /\ Grants(c)
        <4>1. ASSUME NEW h \in Handlers, Handle(h) \/ HandlerFails(h) PROVE snaps' = snaps
          BY <4>1 DEF Handle, Bind, Admit, Owned, WriteKeys, Ack, HandlerFails, UsedUp, Commit, stored
        <4>2. ASSUME NEW c \in Calls, Request(c) \/ Serve(c)
              PROVE  snaps' = snaps \/ (call[c].pc = "write" /\ Writes(c))
          BY <4>2 DEF Request, Serve, ReadBinding, Fetch, ReadRow, Write
        <4>3. ASSUME NEW c \in Calls, call[c].pc = "write", Writes(c)
              PROVE  snaps' = snaps \/ Grants(c)
          BY <4>3, WritesShape DEF Rebinds, Lists
        <4>4. CASE \/ \E n \in Nodes : Send(n) \/ \E h \in Handlers : Deliver(h, n)
                   \/ \E h \in Handlers : Publish(h)
                   \/ Disconnect \/ Reconnect \/ Crash \/ Pair
          BY <4>4 DEF Send, Deliver, Publish, Disconnect, Reconnect, Crash, Pair, stored
        <4> QED BY <4>1, <4>2, <4>3, <4>4 DEF Next
      <3> QED BY <3>1, <3>2 DEF TypeOK, Grants
    <2> QED BY <2>1, <2>2, <2>3, <2>4, <2>5, <2>6, <2>7, <2>8, <2>9 DEF TypeOK, HandlerRec, CallRec
  <1> QED BY <1>1, <1>2

-----------------------------------------------------------------------------
\* What the row, the handlers and the requests hold.
LEMMA KeyWriters ==
  ASSUME Next
  PROVE  keys' = keys \/ \E h \in Handlers : at[h].pc = "keys" /\ keys' = keys \cup {<<at[h].session, at[h].node>>}
  <1>1. ASSUME NEW h \in Handlers, Handle(h) \/ HandlerFails(h)
        PROVE  keys' = keys \/ (at[h].pc = "keys" /\ keys' = keys \cup {<<at[h].session, at[h].node>>})
    BY <1>1 DEF Handle, Bind, Admit, Owned, WriteKeys, Ack, HandlerFails, UsedUp, Commit, stored
  <1>2. ASSUME NEW c \in Calls, Request(c) \/ Serve(c) PROVE keys' = keys
    BY <1>2 DEF Request, Serve, ReadBinding, Fetch, ReadRow, Write, Control
  <1>3. CASE \/ \E n \in Nodes : Send(n) \/ \E h \in Handlers : Deliver(h, n)
             \/ \E h \in Handlers : Publish(h)
             \/ Disconnect \/ Reconnect \/ Crash \/ Pair
    BY <1>3 DEF Send, Deliver, Publish, Disconnect, Reconnect, Crash, Pair, stored
  <1> QED BY <1>1, <1>2, <1>3 DEF Next

LEMMA RowStep ==
  ASSUME TypeOK, RowInv, HandlerInv, CallInv, Next
  PROVE  RowInv'
  <1>0. session \in Nat /\ session' \in Nat /\ session <= session' /\ (ctl # NoRow => ctl.session \in Nat)
    BY Grows, GroupsControlConstants DEF TypeOK, Controls
  <1>1. ASSUME NEW k \in keys' PROVE KindOf[k[2]] = "message" /\ wire'[k[2]] # "unsent"
    <2>1. \A n \in Nodes : wire[n] # "unsent" => wire'[n] # "unsent"
      BY Grows
    <2>2. CASE k \in keys
      <3>1. k[2] \in Nodes /\ KindOf[k[2]] = "message" /\ wire[k[2]] # "unsent"
        BY <2>2 DEF RowInv, TypeOK
      <3> QED BY <2>1, <3>1
    <2>3. CASE k \notin keys
      <3>1. PICK h \in Handlers : at[h].pc = "keys" /\ k = <<at[h].session, at[h].node>>
        BY <1>1, <2>3, KeyWriters
      <3>2. at[h].node \in Nodes /\ KindOf[at[h].node] = "message" /\ wire[at[h].node] # "unsent"
        BY <3>1 DEF HandlerInv, HandlerOK
      <3> QED BY <2>1, <3>1, <3>2
    <2> QED BY <2>2, <2>3
  <1>2. CASE UNCHANGED ctl
    BY <1>0, <1>1, <1>2 DEF RowInv
  <1>3. ASSUME NEW h \in Handlers, at[h].pc \in {"fence", "invalidate"}, Admissible(h), Commit(h)
        PROVE  ctl'.session <= session' /\ \A j \in Rooms : ctl'.rooms[j].on => ctl'.rooms[j].gen \in RoomGens
    BY <1>0, <1>3, CommitShape DEF RowInv
  <1>4. ASSUME NEW c \in Calls, call[c].pc = "write", Writes(c), ctl' # ctl
        PROVE  ctl'.session <= session' /\ \A j \in Rooms : ctl'.rooms[j].on => ctl'.rooms[j].gen \in RoomGens
    <2>1. CASE Rebinds(c)
      <3>1. call[c].session \in Nat /\ call[c].session <= session
        BY <1>0, <1>4 DEF CallInv, CallOK, TypeOK
      <3> QED BY <1>0, <2>1, <3>1 DEF Rebinds
    <2>2. CASE Lists(c)
      BY <1>0, <2>2 DEF Lists, SameRow, RowInv
    <2>3. CASE Grants(c)
      BY <1>0, <2>3 DEF Grants, SameRow, RowInv
    <2> QED BY <1>4, <2>1, <2>2, <2>3, WritesShape
  <1> QED BY <1>1, <1>2, <1>3, <1>4, RowWriters DEF RowInv

\* A handler that does nothing but maybe lose its socket keeps what it holds.
LEMMA HandlerKept ==
  ASSUME TypeOK, HandlerInv, CallInv, Next, NEW h \in Handlers,
         at'[h] = at[h] \/ at'[h] = [at[h] EXCEPT !.mine = FALSE],
         at'[h].mine => session' = session
  PROVE  HandlerOK(h)'
  <1>0. at[h] \in HandlerRec /\ HandlerOK(h)
    BY DEF TypeOK, HandlerRec, HandlerInv
  <1>1. /\ at'[h].bind = at[h].bind /\ at'[h].session = at[h].session /\ at'[h].node = at[h].node
        /\ at'[h].pc = at[h].pc
        /\ at'[h].mine => at[h].mine
    BY <1>0 DEF HandlerRec
  <1>2. Version(at[h].bind)'
    <2>1. at[h].bind \in Controls \cup {NoRow} /\ Version(at[h].bind)
      BY <1>0 DEF HandlerRec, HandlerOK
    <2>2. Moves BY RowMoves
    <2> QED BY <1>1, <2>1, <2>2, VersionKept DEF Version
  <1>3. session \in Nat /\ session' \in Nat /\ session <= session'
        /\ \A n \in Nodes : wire[n] # "unsent" => wire'[n] # "unsent"
    BY Grows, GroupsControlConstants DEF TypeOK
  <1>4. at[h].pc # "idle" => at[h].session \in 1 .. session'
    BY <1>0, <1>3 DEF HandlerOK
  <1>5. /\ at[h].bind # NoRow => at[h].bind.session = at[h].session
        /\ at[h].mine => at[h].session = session /\ at[h].node \in Nodes
        /\ at[h].pc # "idle" => at[h].node \in Nodes \cup {Public}
        /\ at[h].node \in Nodes => wire[at[h].node] # "unsent"
    BY <1>0 DEF HandlerOK
  <1>6. at'[h].mine => at[h].session = session' /\ at[h].node \in Nodes
    BY <1>1, <1>5
  <1>7. at[h].node \in Nodes => wire'[at[h].node] # "unsent"
    BY <1>3, <1>5
  <1>8. /\ at[h].pc = "fence" => at[h].bind # NoRow /\ at[h].node \in Nodes /\ KindOf[at[h].node] # "bare"
        /\ at[h].pc = "invalidate" => at[h].bind # NoRow /\ (at[h].node = Public \/ KindOf[at[h].node] = "bare")
        /\ at[h].pc \in {"keys", "ack"} => at[h].node \in Nodes
        /\ at[h].pc = "keys" => KindOf[at[h].node] = "message"
    BY <1>0 DEF HandlerOK
  <1> QED BY <1>1, <1>2, <1>4, <1>5, <1>6, <1>7, <1>8, Zenon DEF HandlerOK

LEMMA HandlerIdle ==
  ASSUME NEW h \in Handlers, at'[h] = Idle
  PROVE  HandlerOK(h)'
  BY GroupsControlConstants DEF HandlerOK, Idle, Version

LEMMA HandlerStep ==
  ASSUME TypeOK, RowInv, HandlerInv, CallInv, Next
  PROVE  HandlerInv'
  <1> SUFFICES ASSUME NEW g \in Handlers
               PROVE  HandlerOK(g)'
    BY DEF HandlerInv
  <1>0. at \in [Handlers -> HandlerRec] /\ at[g] \in HandlerRec /\ HandlerOK(g)
    BY DEF TypeOK, HandlerRec, HandlerInv
  <1>1. CASE at' = at /\ session' = session
    BY <1>1, HandlerKept
  <1>2. CASE Replaced
    <2>1. at'[g] = [at[g] EXCEPT !.mine = FALSE] /\ ~ at'[g].mine
      BY <1>0, <1>2 DEF Replaced, HandlerRec
    <2> QED BY <2>1, HandlerKept
  <1>3. ASSUME NEW n \in Nodes, NEW h \in Handlers, Deliver(h, n)
        PROVE  HandlerOK(g)'
    <2>1. CASE g # h
      BY <1>0, <1>3, <2>1, HandlerKept DEF Deliver, socket
    <2>2. CASE g = h
      <3> DEFINE p == IF <<session, n>> \in keys THEN "ack" ELSE "bind"
      <3>1. at'[g] = [pc |-> p, node |-> n, mine |-> TRUE, session |-> session, bind |-> NoRow]
            /\ session' = session /\ wire' = wire /\ wire[n] = "open"
        BY <1>0, <1>3, <2>2 DEF Deliver, socket
      <3>2. p \in {"ack", "bind"}
        OBVIOUS
      <3> HIDE DEF p
      <3>3. session \in 1 .. session
        BY DEF TypeOK
      <3> QED BY <3>1, <3>2, <3>3 DEF HandlerOK, Version
    <2> QED BY <2>1, <2>2
  <1>4. ASSUME NEW h \in Handlers, Publish(h)
        PROVE  HandlerOK(g)'
    <2>1. CASE g # h
      BY <1>0, <1>4, <2>1, HandlerKept DEF Publish, socket
    <2>2. CASE g = h
      <3>1. at'[g] = [pc |-> "bind", node |-> Public, mine |-> FALSE, session |-> session, bind |-> NoRow]
            /\ session' = session
        BY <1>0, <1>4, <2>2 DEF Publish, socket
      <3>2. session \in 1 .. session
        BY DEF TypeOK
      <3> QED BY <3>1, <3>2, GroupsControlConstants DEF HandlerOK, Version
    <2> QED BY <2>1, <2>2
  <1>5. ASSUME NEW h \in Handlers, Bind(h)
        PROVE  HandlerOK(g)'
    <2>1. CASE g # h
      BY <1>0, <1>5, <2>1, HandlerKept DEF Bind, socket
    <2>2. CASE g = h
      <3> DEFINE b  == BindingFor(at[g].session)
                 st == Stage(at[g].node, b)
                 k  == IF st = "owns" THEN NoRow ELSE b
      <3>1. at' = [at EXCEPT ![g].pc = st, ![g].bind = k] /\ ctl' = ctl /\ session' = session /\ wire' = wire
            /\ at[g].pc = "bind"
        BY <1>5, <2>2 DEF Bind, socket, stored
      <3>2. st \in {"owns", "invalidate", "fence"}
        BY DEF Stage
      <3>3. k = NoRow \/ (k = ctl /\ ctl # NoRow /\ ctl.session = at[g].session)
        BY DEF BindingFor
      <3>4. st # "owns" => k # NoRow
        BY DEF Stage
      <3>5. at[g].node \in Nodes \cup {Public} /\ at[g].session \in 1 .. session
        BY <1>0, <3>1 DEF HandlerOK
      <3>6. /\ st = "fence" => at[g].node \in Nodes /\ KindOf[at[g].node] # "bare"
            /\ st = "invalidate" => at[g].node = Public \/ KindOf[at[g].node] = "bare"
        BY <3>5 DEF Stage
      <3>7. ctl # NoRow => ctl.rev <= ctl.rev
        BY DEF TypeOK, Controls
      <3> HIDE DEF b, st, k
      <3>8. /\ at'[g].pc = st /\ at'[g].bind = k /\ at'[g].node = at[g].node
            /\ at'[g].mine = at[g].mine /\ at'[g].session = at[g].session
        BY <1>0, <3>1 DEF HandlerRec
      <3> QED BY <1>0, <3>1, <3>2, <3>3, <3>4, <3>5, <3>6, <3>7, <3>8 DEF HandlerOK, Version
    <2> QED BY <2>1, <2>2
  <1>6. ASSUME NEW h \in Handlers, Admit(h)
        PROVE  HandlerOK(g)'
    <2>1. session' = session /\ wire' = wire
          /\ (at' = [at EXCEPT ![h].pc = "owns", ![h].bind = NoRow] \/ at' = [at EXCEPT ![h] = Idle])
      BY <1>6 DEF Admit, Suspend, Leave, socket
    <2>2. CASE g # h
      BY <1>0, <2>1, <2>2, HandlerKept
    <2>3. CASE at'[g] = Idle
      BY <2>3, HandlerIdle
    <2>4. CASE g = h /\ at' = [at EXCEPT ![h].pc = "owns", ![h].bind = NoRow]
      <3>1. /\ at'[g].pc = "owns" /\ at'[g].bind = NoRow /\ at'[g].node = at[g].node
            /\ at'[g].mine = at[g].mine /\ at'[g].session = at[g].session
        BY <1>0, <2>4 DEF HandlerRec
      <3>2. at[g].pc # "idle"
        BY <1>6, <2>4 DEF Admit
      <3> QED BY <1>0, <2>1, <3>1, <3>2 DEF HandlerOK, Version
    <2> QED BY <1>0, <2>1, <2>2, <2>3, <2>4
  <1>7. ASSUME NEW h \in Handlers, Owned(h) \/ WriteKeys(h) \/ Ack(h)
        PROVE  HandlerOK(g)'
    <2>1. session' = session
      BY <1>7 DEF Owned, WriteKeys, Ack, socket
    <2>2. \/ at' = [at EXCEPT ![h] = Idle]
          \/ /\ at' = [at EXCEPT ![h].pc = "keys"] /\ at[h].pc # "idle" /\ at[h].node # Public
             /\ KindOf[at[h].node] = "message" /\ wire' = wire
          \/ at' = [at EXCEPT ![h].pc = "ack"] /\ at[h].pc # "idle" /\ at[h].node # Public /\ wire' = wire
      BY <1>7, GroupsControlConstants DEF Owned, WriteKeys, Ack, GoTo, Leave, HandlerInv, HandlerOK
    <2>3. CASE g # h
      BY <1>0, <2>1, <2>2, <2>3, HandlerKept
    <2>4. CASE at'[g] = Idle
      BY <2>4, HandlerIdle
    <2>5. ASSUME g = h, NEW p \in {"keys", "ack"}, at' = [at EXCEPT ![h].pc = p], at[h].pc # "idle",
                 at[h].node # Public, p = "keys" => KindOf[at[h].node] = "message", wire' = wire
          PROVE  HandlerOK(g)'
      <3>1. /\ at'[g].pc = p /\ at'[g].bind = at[g].bind /\ at'[g].node = at[g].node
            /\ at'[g].mine = at[g].mine /\ at'[g].session = at[g].session
        BY <1>0, <2>5 DEF HandlerRec
      <3>2. Version(at[g].bind)'
        <4>1. at[g].bind \in Controls \cup {NoRow} /\ Version(at[g].bind)
          BY <1>0 DEF HandlerRec, HandlerOK
        <4>2. Moves BY RowMoves
        <4> QED BY <3>1, <4>1, <4>2, VersionKept DEF Version
      <3> QED BY <1>0, <2>1, <2>5, <3>1, <3>2 DEF HandlerOK
    <2> QED BY <1>0, <2>2, <2>3, <2>4, <2>5
  <1>8. ASSUME NEW h \in Handlers, HandlerFails(h)
        PROVE  HandlerOK(g)'
    <2>1. session' = session /\ at' = [at EXCEPT ![h] = Idle]
      BY <1>8 DEF HandlerFails, Suspend, Leave
    <2>2. CASE g # h
      BY <1>0, <2>1, <2>2, HandlerKept
    <2> QED BY <1>0, <2>1, <2>2, HandlerIdle
  <1>9. CASE Crash
    BY <1>9, HandlerIdle DEF Crash
  <1>10. ASSUME NEW c \in Calls, Request(c) \/ Serve(c) PROVE at' = at /\ session' = session
    BY <1>10 DEF Request, Serve, ReadBinding, Fetch, ReadRow, Write, Control, socket
  <1>11. CASE (\E n \in Nodes : Send(n)) \/ Disconnect
    BY <1>11, <1>1 DEF Send, Disconnect, socket
  <1> QED BY <1>1, <1>2, <1>3, <1>4, <1>5, <1>6, <1>7, <1>8, <1>9, <1>10, <1>11
          DEF Next, Handle, Reconnect, Pair

LEMMA VersionStays ==
  ASSUME TypeOK, HandlerInv, CallInv, Next, NEW c \in Calls, call'[c].bind = call[c].bind
  PROVE  Version(call[c].bind)'
  <1>1. call[c].bind \in Controls \cup {NoRow} /\ Version(call[c].bind)
    BY DEF TypeOK, CallInv, CallOK
  <1>2. Moves BY RowMoves
  <1> QED BY <1>1, <1>2, VersionKept DEF Version

LEMMA CallKept ==
  ASSUME TypeOK, HandlerInv, CallInv, Next, NEW c \in Calls, call'[c] = call[c]
  PROVE  CallOK(c)'
  <1>1. CallOK(c) BY DEF CallInv
  <1>2. Version(call[c].bind)' BY VersionStays
  <1>3. session \in Nat /\ session' \in Nat /\ session <= session'
    BY Grows, GroupsControlConstants DEF TypeOK
  <1>4. call[c].session \in 1 .. session => call[c].session \in 1 .. session'
    BY <1>3
  <1> QED BY <1>1, <1>2, <1>4 DEF CallOK, Ordered

LEMMA CallDone ==
  ASSUME NEW c \in Calls, call'[c] = Fresh \/ call'[c] = [Fresh EXCEPT !.pc = "done"]
  PROVE  CallOK(c)'
  <1>1. call'[c].pc \in {"new", "done"} /\ call'[c].bind = NoRow
    BY DEF Fresh
  <1> QED BY <1>1 DEF CallOK, Version

LEMMA CallStep ==
  ASSUME TypeOK, RowInv, HandlerInv, CallInv, Next
  PROVE  CallInv'
  <1> SUFFICES ASSUME NEW e \in Calls
               PROVE  CallOK(e)'
    BY DEF CallInv
  <1>0. call \in [Calls -> CallRec] /\ call[e] \in CallRec /\ CallOK(e)
    BY DEF TypeOK, CallRec, CallInv
  <1>1. CASE call' = call
    BY <1>1, CallKept
  <1>2. ASSUME NEW c \in Calls, Request(c) PROVE CallOK(e)'
    <2> DEFINE R(q) == [pc |-> IF q.op = "bootstrap" THEN "read" ELSE "bind", op |-> q.op, gen |-> q.gen,
                        session |-> session, room |-> q.room, jid |-> q.jid, bind |-> NoRow, seen |-> {}]
    <2>1. PICK q \in Requests : call' = [call EXCEPT ![c] = R(q)]
      BY <1>2 DEF Request, CallWith
    <2>2. session' = session
      BY <1>2 DEF Request, Control, socket
    <2>3. CASE e # c
      BY <1>0, <2>1, <2>3, CallKept
    <2>4. CASE e = c
      <3>1. call'[e] = R(q)
        BY <1>0, <2>1, <2>4
      <3>2. /\ call'[e].pc \in {"read", "bind"} /\ (q.op = "room" => call'[e].pc = "bind")
            /\ call'[e].op = q.op /\ call'[e].gen = q.gen
            /\ call'[e].session = session /\ call'[e].room = q.room /\ call'[e].jid = q.jid
            /\ call'[e].bind = NoRow
        BY <3>1
      <3>3. /\ q.gen \in Generations /\ q.op # "none" /\ session \in 1 .. session
            /\ q.op = "room" => q.jid \in Rooms /\ q.room.gen \in RoomGens /\ q.room.meta \in Metas
        BY Records, GroupsControlConstants DEF TypeOK, Granted
      <3> HIDE DEF R
      <3> QED BY <2>2, <3>2, <3>3 DEF CallOK, Version
    <2> QED BY <2>3, <2>4
  <1>3. ASSUME NEW c \in Calls, ReadBinding(c) PROVE CallOK(e)'
    <2> DEFINE b == BindingFor(call[c].session)
               d == [call[c] EXCEPT !.bind = b]
    <2>0. call[c].pc = "bind" /\ session' = session /\ ctl' = ctl
      BY <1>3 DEF ReadBinding, Control, socket
    <2>1. \/ Done(c)
          \/ /\ b # NoRow /\ call[c].op \in {"catalog", "room"}
             /\ \E p \in {"fetch", "read"} :
                  (p = "read" => call[c].op = "room") /\ call' = [call EXCEPT ![c] = [d EXCEPT !.pc = p]]
      <3>1. d.op = call[c].op /\ d.room = call[c].room
        BY <1>0 DEF TypeOK
      <3> HIDE DEF d
      <3> QED BY <1>3, <3>1 DEF ReadBinding, CallWith, d
    <2>2. CASE e # c
      BY <1>0, <2>1, <2>2, CallKept DEF Done, CallWith
    <2>3. CASE Done(c) /\ e = c
      BY <1>0, <2>3, CallDone DEF Done, CallWith
    <2>4. ASSUME e = c, b # NoRow, call[c].op \in {"catalog", "room"}, NEW p \in {"fetch", "read"},
                 p = "read" => call[c].op = "room", call' = [call EXCEPT ![c] = [d EXCEPT !.pc = p]]
          PROVE  CallOK(e)'
      <3>1. b = ctl /\ ctl # NoRow /\ ctl.session = call[c].session
        BY <2>4 DEF BindingFor
      <3> HIDE DEF b
      <3>2. /\ call'[e].pc = p /\ call'[e].op = call[e].op /\ call'[e].gen = call[e].gen
            /\ call'[e].session = call[e].session /\ call'[e].room = call[e].room /\ call'[e].jid = call[e].jid
            /\ call'[e].bind = b
        BY <1>0, <2>4 DEF CallRec
      <3>3. Version(call[e].bind)'
        <4>1. ctl.rev <= ctl.rev
          BY <3>1 DEF TypeOK, Controls
        <4> QED BY <2>0, <3>1, <3>2, <4>1 DEF Version
      <3> HIDE DEF d
      <3> QED BY <1>0, <2>0, <2>4, <3>1, <3>2, <3>3 DEF CallOK
    <2> QED BY <2>1, <2>2, <2>3, <2>4
  <1>4. ASSUME NEW c \in Calls, Fetch(c) PROVE CallOK(e)'
    <2> DEFINE sn == IF call[c].op = "room" THEN {n \in Happened : RoomOf[n] = call[c].jid} ELSE Happened
               p  == IF call[c].op = "room" THEN "read" ELSE "write"
    <2>0. call[c].pc = "fetch" /\ session' = session /\ ctl' = ctl
      BY <1>4 DEF Fetch, Control, socket
    <2>1. Done(c) \/ call' = [call EXCEPT ![c] = [call[c] EXCEPT !.seen = sn, !.pc = p]]
      BY <1>4 DEF Fetch, CallWith
    <2>p. /\ p \in {"read", "write"} /\ (p = "read" => call[c].op = "room")
          /\ (p = "write" => call[c].op # "room")
      OBVIOUS
    <2> HIDE DEF sn, p
    <2>2. CASE e # c
      BY <1>0, <2>1, <2>2, CallKept DEF Done, CallWith
    <2>3. CASE Done(c) /\ e = c
      BY <1>0, <2>3, CallDone DEF Done, CallWith
    <2>4. CASE e = c /\ call' = [call EXCEPT ![c] = [call[c] EXCEPT !.seen = sn, !.pc = p]]
      <3>2. /\ call'[e].pc = p /\ call'[e].op = call[e].op /\ call'[e].gen = call[e].gen
            /\ call'[e].session = call[e].session /\ call'[e].room = call[e].room /\ call'[e].jid = call[e].jid
            /\ call'[e].bind = call[e].bind
        BY <1>0, <2>4 DEF CallRec
      <3>3. Version(call[e].bind)'
        BY <3>2, VersionStays
      <3> QED BY <1>0, <2>0, <2>p, <2>4, <3>2, <3>3 DEF CallOK
    <2> QED BY <2>1, <2>2, <2>3, <2>4
  <1>5. ASSUME NEW c \in Calls, ReadRow(c) PROVE CallOK(e)'
    <2>0. call[c].pc = "read" /\ session' = session /\ ctl' = ctl
      BY <1>5 DEF ReadRow, Control, socket
    <2>1. \/ Done(c)
          \/ /\ (call[c].op = "bootstrap" /\ BootstrapAllowed(c)) \/ (call[c].op = "room" /\ RoomAllowed(c))
             /\ call' = [call EXCEPT ![c] = [call[c] EXCEPT !.pc = "write", !.bind = ctl]]
      BY <1>5 DEF ReadRow, CallWith
    <2>2. CASE e # c
      BY <1>0, <2>1, <2>2, CallKept DEF Done, CallWith
    <2>3. CASE Done(c) /\ e = c
      BY <1>0, <2>3, CallDone DEF Done, CallWith
    <2>4. CASE /\ e = c
               /\ (call[c].op = "bootstrap" /\ BootstrapAllowed(c)) \/ (call[c].op = "room" /\ RoomAllowed(c))
               /\ call' = [call EXCEPT ![c] = [call[c] EXCEPT !.pc = "write", !.bind = ctl]]
      <3>2. /\ call'[e].pc = "write" /\ call'[e].op = call[e].op /\ call'[e].gen = call[e].gen
            /\ call'[e].session = call[e].session /\ call'[e].room = call[e].room /\ call'[e].jid = call[e].jid
            /\ call'[e].bind = ctl
        BY <1>0, <2>4 DEF CallRec
      <3>3. Version(call[e].bind)'
        <4>1. ctl # NoRow => ctl.rev <= ctl.rev
          BY DEF TypeOK, Controls
        <4> QED BY <2>0, <3>2, <4>1 DEF Version
      <3>4. call[e].op = "bootstrap" /\ ctl # NoRow => ctl.gen <= call[e].gen
        <4>1. ctl # NoRow => ctl.gen \in Nat
          BY GroupsControlConstants DEF TypeOK, Controls, Generations
        <4>2. call[e].gen \in Nat
          BY <1>0, <2>0, <2>4, GroupsControlConstants DEF CallOK, Generations
        <4> QED BY <2>4, <4>1, <4>2 DEF BootstrapAllowed
      <3>5. call[e].op = "room" => /\ ctl # NoRow /\ ctl.session = call[e].session
                                   /\ Ordered(call[e], ctl)
        BY <2>4 DEF RoomAllowed, Ordered
      <3> QED BY <1>0, <2>0, <2>4, <3>2, <3>3, <3>4, <3>5 DEF CallOK, Ordered
    <2> QED BY <2>1, <2>2, <2>3, <2>4
  <1>6. ASSUME NEW c \in Calls, Write(c) PROVE CallOK(e)'
    <2>1. CASE e # c
      BY <1>0, <1>6, <2>1, CallKept DEF Write, Done, CallWith
    <2>2. CASE e = c
      BY <1>0, <1>6, <2>2, CallDone DEF Write, Done, CallWith
    <2> QED BY <2>1, <2>2
  <1>7. CASE Crash
    BY <1>7, CallDone DEF Crash
  <1>8. ASSUME NEW h \in Handlers, Handle(h) \/ HandlerFails(h) PROVE call' = call
    BY <1>8 DEF Handle, Bind, Admit, Owned, WriteKeys, Ack, HandlerFails
  <1>9. CASE \/ \E n \in Nodes : Send(n) \/ \E h \in Handlers : Deliver(h, n)
             \/ \E h \in Handlers : Publish(h)
             \/ Disconnect \/ Reconnect \/ Pair
    BY <1>1, <1>9 DEF Send, Deliver, Publish, Disconnect, Reconnect, Pair
  <1> QED BY <1>1, <1>2, <1>3, <1>4, <1>5, <1>6, <1>7, <1>8, <1>9 DEF Next, Serve

-----------------------------------------------------------------------------
\* How a packet passes its admission.

\* A request writes and changes nothing of a packet.
LEMMA Writers ==
  ASSUME Next
  PROVE  \/ UNCHANGED ctl
         \/ \E h \in Handlers :
              /\ at[h].pc \in {"fence", "invalidate"} /\ Admissible(h) /\ Commit(h)
              /\ session' = session
         \/ \E c \in Calls :
              /\ call[c].pc = "write" /\ Writes(c) /\ at' = at /\ wire' = wire
              /\ session' = session /\ rows' = rows
  <1>1. ASSUME NEW h \in Handlers, Handle(h) \/ HandlerFails(h)
        PROVE  \/ UNCHANGED ctl
               \/ at[h].pc \in {"fence", "invalidate"} /\ Admissible(h) /\ Commit(h) /\ session' = session
    BY <1>1 DEF Handle, Bind, Admit, Owned, WriteKeys, Ack, HandlerFails, UsedUp, Suspend, stored, socket
  <1>2. ASSUME NEW c \in Calls, Serve(c)
        PROVE  \/ UNCHANGED ctl
               \/ /\ call[c].pc = "write" /\ Writes(c) /\ at' = at /\ wire' = wire
                  /\ session' = session /\ rows' = rows
    BY <1>2 DEF Serve, ReadBinding, Fetch, ReadRow, Write, Control, socket
  <1>3. CASE \/ \E n \in Nodes : Send(n) \/ \E h \in Handlers : Deliver(h, n)
             \/ \E h \in Handlers : Publish(h)
             \/ \E c \in Calls : Request(c)
             \/ Disconnect \/ Reconnect \/ Crash \/ Pair
    BY <1>3 DEF Send, Deliver, Publish, Request, Disconnect, Reconnect, Crash, Pair, stored
  <1> QED BY <1>1, <1>2, <1>3 DEF Next

LEMMA Answers ==
  ASSUME TypeOK, HandlerInv, Next, NEW n \in Nodes
  PROVE  \/ wire'[n] = wire[n]
         \/ wire[n] = "unsent" /\ wire'[n] = "open" /\ at' = at /\ keys' = keys /\ session' = session
         \/ /\ wire[n] # "unsent" /\ wire'[n] = "acked" /\ session' = session
            /\ \E h \in Handlers : at[h].pc = "ack" /\ at[h].mine /\ at[h].node = n /\ at[h].session = session
  <1>1. ASSUME NEW m \in Nodes, Send(m)
        PROVE  wire'[n] = wire[n] \/ (wire[n] = "unsent" /\ wire'[n] = "open" /\ at' = at /\ keys' = keys /\ session' = session)
    BY <1>1 DEF Send, TypeOK, stored, socket
  <1>2. ASSUME NEW h \in Handlers, Ack(h)
        PROVE  \/ wire'[n] = wire[n]
               \/ /\ wire[n] # "unsent" /\ wire'[n] = "acked" /\ session' = session
                  /\ at[h].pc = "ack" /\ at[h].mine /\ at[h].node = n /\ at[h].session = session
    BY <1>2 DEF Ack, Owns, TypeOK, socket, HandlerInv, HandlerOK
  <1>3. ASSUME NEW h \in Handlers, Bind(h) \/ Admit(h) \/ Owned(h) \/ WriteKeys(h) \/ HandlerFails(h)
        PROVE  wire' = wire
    BY <1>3 DEF Bind, Admit, Owned, WriteKeys, HandlerFails
  <1>4. ASSUME NEW c \in Calls, Request(c) \/ Serve(c) PROVE wire' = wire
    BY <1>4 DEF Request, Serve, ReadBinding, Fetch, ReadRow, Write, Control
  <1>5. CASE \/ \E m \in Nodes, h \in Handlers : Deliver(h, m)
             \/ \E h \in Handlers : Publish(h)
             \/ Disconnect \/ Reconnect \/ Crash \/ Pair
    BY <1>5 DEF Deliver, Publish, Disconnect, Reconnect, Crash, Pair
  <1> QED BY <1>1, <1>2, <1>3, <1>4, <1>5 DEF Next, Handle

\* A handler gets past its admission by the fence, because its keys were used up
\* before, or because there was nothing to admit.
LEMMA Arrivals ==
  ASSUME TypeOK, HandlerInv, Next, NEW g \in Handlers, at'[g].pc \in {"owns", "keys", "ack"}
  PROVE  \/ /\ at[g].pc \in {"owns", "keys", "ack"} /\ at[g].node = at'[g].node
            /\ at[g].session = at'[g].session /\ (at'[g].mine => at[g].mine)
            /\ at'[g].pc \in {"owns", "ack"} /\ at[g].pc = "keys" => KindOf[at[g].node] = "message"
         \/ at'[g].session = session /\ <<session, at'[g].node>> \in keys
         \/ /\ Bind(g) /\ Stage(at[g].node, BindingFor(at[g].session)) = "owns"
            /\ at[g].node = at'[g].node /\ at[g].session = at'[g].session /\ at[g].mine = at'[g].mine
         \/ /\ at[g].pc \in {"fence", "invalidate"} /\ Admissible(g) /\ Commit(g)
            /\ at[g].node = at'[g].node /\ at[g].session = at'[g].session /\ at[g].mine = at'[g].mine
  <1> DEFINE Stays == /\ at[g].pc \in {"owns", "keys", "ack"} /\ at[g].node = at'[g].node
                      /\ at[g].session = at'[g].session /\ (at'[g].mine => at[g].mine)
                      /\ at'[g].pc \in {"owns", "ack"} /\ at[g].pc = "keys" => KindOf[at[g].node] = "message"
  <1>0. at \in [Handlers -> HandlerRec] /\ at[g] \in HandlerRec
        /\ (at[g].pc = "keys" => KindOf[at[g].node] = "message")
    BY DEF TypeOK, HandlerRec, HandlerInv, HandlerOK
  <1>1. CASE at'[g] = at[g]
    BY <1>0, <1>1
  <1>2. CASE Replaced
    <2>1. at'[g] = [at[g] EXCEPT !.mine = FALSE]
      BY <1>2 DEF Replaced
    <2> QED BY <1>0, <2>1 DEF HandlerRec
  <1>3. CASE at'[g] = Idle
    BY <1>3 DEF Idle
  <1>4. ASSUME NEW n \in Nodes, Deliver(g, n)
        PROVE  at'[g].session = session /\ <<session, at'[g].node>> \in keys
    <2> DEFINE p == IF <<session, n>> \in keys THEN "ack" ELSE "bind"
    <2>1. at'[g] = [pc |-> p, node |-> n, mine |-> TRUE, session |-> session, bind |-> NoRow]
      BY <1>0, <1>4 DEF Deliver
    <2>2. at'[g].pc = p /\ at'[g].node = n /\ at'[g].session = session
      BY <2>1
    <2> QED BY <2>2
  <1>5. CASE Publish(g)
    <2>1. at'[g] = [pc |-> "bind", node |-> Public, mine |-> FALSE, session |-> session, bind |-> NoRow]
      BY <1>0, <1>5 DEF Publish
    <2> QED BY <2>1
  <1>6. CASE Bind(g)
    <2> DEFINE b  == BindingFor(at[g].session)
               st == Stage(at[g].node, b)
               k  == IF st = "owns" THEN NoRow ELSE b
    <2>1. at' = [at EXCEPT ![g].pc = st, ![g].bind = k]
      BY <1>6 DEF Bind
    <2>2. st \in {"owns", "invalidate", "fence"}
      BY DEF Stage
    <2> HIDE DEF b, st, k
    <2>3. /\ at'[g].pc = st /\ at'[g].node = at[g].node
          /\ at'[g].mine = at[g].mine /\ at'[g].session = at[g].session
      BY <1>0, <2>1 DEF HandlerRec
    <2>4. st = "owns"
      BY <2>2, <2>3
    <2> QED BY <1>6, <2>3, <2>4 DEF st, b
  <1>7. CASE Admit(g)
    <2>1. CASE Admissible(g)
      <3>1. Commit(g) /\ at' = [at EXCEPT ![g].pc = "owns", ![g].bind = NoRow] /\ at[g].pc \in {"fence", "invalidate"}
        BY <1>7, <2>1 DEF Admit
      <3>2. /\ at'[g].node = at[g].node
            /\ at'[g].mine = at[g].mine /\ at'[g].session = at[g].session
        BY <1>0, <3>1 DEF HandlerRec
      <3> QED BY <2>1, <3>1, <3>2
    <2>2. CASE ~ Admissible(g)
      BY <1>0, <1>3, <1>7, <2>2 DEF Admit, Suspend, Leave
    <2> QED BY <2>1, <2>2
  <1>8. CASE Owned(g) \/ WriteKeys(g) \/ Ack(g)
    <2>1. \/ at' = [at EXCEPT ![g] = Idle]
          \/ /\ at' = [at EXCEPT ![g].pc = "keys"] \/ at' = [at EXCEPT ![g].pc = "ack"]
             /\ at[g].pc \in {"owns", "keys"}
      BY <1>8 DEF Owned, WriteKeys, Ack, GoTo, Leave
    <2>2. CASE at' = [at EXCEPT ![g] = Idle]
      BY <1>0, <1>3, <2>2
    <2>3. CASE /\ at' = [at EXCEPT ![g].pc = "keys"] \/ at' = [at EXCEPT ![g].pc = "ack"]
               /\ at[g].pc \in {"owns", "keys"}
      <3>1. at'[g].node = at[g].node /\ at'[g].mine = at[g].mine /\ at'[g].session = at[g].session
        BY <1>0, <2>3 DEF HandlerRec
      <3> QED BY <1>0, <2>3, <3>1
    <2> QED BY <2>1, <2>2, <2>3
  <1>9. CASE HandlerFails(g)
    BY <1>0, <1>3, <1>9 DEF HandlerFails, Suspend, Leave
  <1>10. ASSUME NEW h \in Handlers, h # g,
                Handle(h) \/ HandlerFails(h) \/ Publish(h) \/ \E n \in Nodes : Deliver(h, n)
         PROVE  at'[g] = at[g]
    BY <1>0, <1>10 DEF Handle, Bind, Admit, Owned, WriteKeys, Ack, HandlerFails, Publish, Deliver, Suspend,
                       Leave, GoTo
  <1>11. ASSUME NEW c \in Calls, Request(c) \/ Serve(c) PROVE at' = at
    BY <1>11 DEF Request, Serve, ReadBinding, Fetch, ReadRow, Write, Control
  <1>12. CASE (\E n \in Nodes : Send(n)) \/ Disconnect
    BY <1>12, <1>1 DEF Send, Disconnect
  <1>13. CASE Crash
    BY <1>3, <1>13 DEF Crash
  <1> QED BY <1>1, <1>2, <1>4, <1>5, <1>6, <1>7, <1>8, <1>9, <1>10, <1>11, <1>12, <1>13
          DEF Next, Handle, Reconnect, Pair

\* What Stage lets through without asking the database again is no change of a
\* group of the row, nor a message of an enabled room.
LEMMA LetThrough ==
  ASSUME NEW n \in Nodes, NEW b, Stage(n, b) = "owns", b # NoRow
  PROVE  KindOf[n] = "message" /\ ~ b.rooms[RoomOf[n]].on
  BY Packet DEF Stage

\* A change of a group that passes was admitted in this step, or found no
\* binding of its session.
LEMMA Newcomer ==
  ASSUME TypeOK, RowInv, HandlerInv, Next, NEW n \in Changes, n \in Passed', n \notin Passed, session' = session
  PROVE  \/ ~ Bound /\ ctl' = ctl
         \/ \E h \in Handlers : /\ at[h].pc \in {"fence", "invalidate"} /\ Admissible(h) /\ Commit(h)
                                /\ at[h].node = n /\ at[h].session = session
  <1>0. n \in Nodes /\ KindOf[n] # "message"
    BY DEF Changes
  <1>1. ~ (wire'[n] = "acked" /\ wire[n] # "acked")
    <2> SUFFICES ASSUME wire'[n] = "acked", wire[n] # "acked" PROVE FALSE
      OBVIOUS
    <2>1. PICK h \in Handlers : at[h].pc = "ack" /\ at[h].mine /\ at[h].node = n
      BY <1>0, Answers
    <2> QED BY <1>0, <2>1 DEF Passed
  <1>2. PICK g \in Handlers : at'[g].mine /\ at'[g].pc \in {"owns", "ack"} /\ at'[g].node = n
    BY <1>0, <1>1 DEF Passed, Acked
  <1>3. ~ (/\ at[g].pc \in {"owns", "keys", "ack"} /\ at[g].node = at'[g].node
           /\ (at'[g].mine => at[g].mine)
           /\ at'[g].pc \in {"owns", "ack"} /\ at[g].pc = "keys" => KindOf[at[g].node] = "message")
    BY <1>0, <1>2 DEF Passed
  <1>4. ~ (<<session, n>> \in keys)
    BY <1>0 DEF RowInv
  <1>5. CASE /\ Bind(g) /\ Stage(at[g].node, BindingFor(at[g].session)) = "owns"
             /\ at[g].node = at'[g].node /\ at[g].session = at'[g].session /\ at[g].mine = at'[g].mine
    <2>1. at[g].session = session /\ ctl' = ctl
      BY <1>2, <1>5 DEF HandlerInv, HandlerOK, Bind, stored
    <2>2. BindingFor(session) = NoRow
      BY <1>0, <1>2, <1>5, <2>1, LetThrough
    <2> QED BY <2>1, <2>2 DEF BindingFor, Bound
  <1>6. CASE /\ at[g].pc \in {"fence", "invalidate"} /\ Admissible(g) /\ Commit(g)
             /\ at[g].node = at'[g].node /\ at[g].session = at'[g].session /\ at[g].mine = at'[g].mine
    BY <1>2, <1>6 DEF HandlerInv, HandlerOK
  <1> QED BY <1>2, <1>3, <1>4, <1>5, <1>6, Arrivals

\* What passes the fence of an enabled room is told.
LEMMA CommitTells ==
  ASSUME TypeOK, HandlerInv, NEW h \in Handlers, at[h].pc \in {"fence", "invalidate"},
         Admissible(h), Commit(h), at[h].session = session, session' = session,
         at[h].node \in Nodes, KindOf[at[h].node] # "bare", ctl.rooms[RoomOf[at[h].node]].on
  PROVE  at[h].node \in Told'
  <1>1. at[h].pc = "fence"
    BY GroupsControlConstants DEF HandlerInv, HandlerOK
  <1>2. at[h].bind = ctl /\ ctl'.gen = ctl.gen
    BY <1>1, CommitShape
  <1>3. rows' = rows \cup {Event(h)}
    BY <1>1, <1>2, CommitShape DEF Authority
  <1>4. Event(h).node = at[h].node /\ Event(h).gen = ctl'.gen /\ Event(h).session = session'
    BY <1>2 DEF Event
  <1> QED BY <1>3, <1>4 DEF Told

\* As long as the row stays or moves within its binding, what is bound stays
\* bound, and what was told stays told.
LEMMA StillBound ==
  ASSUME TypeOK, RowInv, Next, Bound', ctl # NoRow, ctl'.session = ctl.session
  PROVE  session' = session /\ Bound
  <1>1. session' = session \/ session' = session + 1
    BY Grows
  <1>2. ctl'.session = session' /\ ctl.session <= session /\ session \in Nat /\ ctl.session \in Nat
    BY GroupsControlConstants DEF Bound, RowInv, TypeOK, Controls
  <1> QED BY <1>1, <1>2 DEF Bound

LEMMA StillTold ==
  ASSUME TypeOK, Next, ctl'.gen = ctl.gen, session' = session
  PROVE  Told \subseteq Told'
  BY Grows DEF Told

LEMMA PassedSent ==
  ASSUME TypeOK, HandlerInv, NEW n \in Passed, n \in Nodes
  PROVE  wire[n] # "unsent"
  BY DEF Passed, Acked, HandlerInv, HandlerOK

-----------------------------------------------------------------------------
\* The catalog, the fetches and the authority of the rooms.
LEMMA CatalogStep ==
  ASSUME TypeOK, RowInv, HandlerInv, CallInv, SeenInv, CatalogInv, Next
  PROVE  CatalogInv'
  <1> SUFFICES ASSUME Bound', ~ ctl'.stale, NEW n \in Changes, n \in Passed'
               PROVE  n \in ctl'.catalog
    BY DEF CatalogInv, Changes
  <1>1. CASE UNCHANGED ctl
    <2>1. session' = session /\ Bound /\ ctl # NoRow
      BY <1>1, StillBound DEF Bound
    <2>2. \A h \in Handlers : at[h].pc \in {"fence", "invalidate"} /\ Admissible(h) /\ Commit(h) => FALSE
      <3> SUFFICES ASSUME NEW h \in Handlers, at[h].pc \in {"fence", "invalidate"}, Admissible(h), Commit(h)
                   PROVE  FALSE
        OBVIOUS
      <3>1. ctl'.rev > ctl.rev /\ ctl.rev \in Nat
        BY <2>1, CommitShape DEF TypeOK, Controls
      <3> QED BY <1>1, <3>1
    <2>3. n \in Passed
      BY <2>1, <2>2, Newcomer
    <2> QED BY <1>1, <2>1, <2>3 DEF CatalogInv
  <1>2. ASSUME NEW h \in Handlers, at[h].pc \in {"fence", "invalidate"}, Admissible(h), Commit(h)
        PROVE  n \in ctl'.catalog
    <2>1. /\ ctl # NoRow /\ ctl'.session = ctl.session /\ ctl'.catalog = ctl.catalog /\ ~ ctl.stale
          /\ ctl' # ctl
      BY <1>2, CommitShape DEF Controls
    <2>2. session' = session /\ Bound
      BY <2>1, StillBound
    <2>3. n \in Passed
      <3> SUFFICES ASSUME n \notin Passed PROVE FALSE
        OBVIOUS
      <3>1. PICK g \in Handlers : /\ at[g].pc \in {"fence", "invalidate"} /\ Admissible(g) /\ Commit(g)
                                  /\ at[g].node = n
        BY <2>2, Newcomer
      <3>2. KindOf[n] = "message"
        BY <3>1, CommitShape
      <3> QED BY <3>2 DEF Changes
    <2> QED BY <2>1, <2>2, <2>3 DEF CatalogInv
  <1>3. ASSUME NEW c \in Calls, call[c].pc = "write", Writes(c), at' = at, wire' = wire, session' = session,
               ctl' # ctl
        PROVE  n \in ctl'.catalog
    <2>1. n \in Passed
      BY <1>3 DEF Passed, Acked
    <2>2. CASE Rebinds(c)
      BY <2>2 DEF Rebinds
    <2>3. CASE Lists(c)
      <3>1. Bound /\ SameRow(c)
        BY <1>3, <2>3 DEF Bound, Lists, SameRow
      <3> QED BY <1>3, <2>1, <2>3, <3>1 DEF SeenInv, SeenBy, Lists
    <2>4. CASE Grants(c)
      <3>1. Bound /\ ~ ctl.stale /\ ctl'.catalog = ctl.catalog
        BY <1>3, <2>4 DEF Bound, Grants, SameRow
      <3> QED BY <2>1, <3>1 DEF CatalogInv
    <2> QED BY <1>3, <2>2, <2>3, <2>4, WritesShape
  <1> QED BY <1>1, <1>2, <1>3, Writers

LEMMA FollowedStep ==
  ASSUME TypeOK, RowInv, HandlerInv, CallInv, SeenInv, FollowedInv, Next
  PROVE  FollowedInv'
  <1> SUFFICES ASSUME Bound', NEW j \in Rooms, ctl'.rooms[j].on
               PROVE  Followed(j)'
    BY DEF FollowedInv
  <1>1. ASSUME session' = session, Bound, ctl.rooms[j].on, ctl'.gen = ctl.gen,
               ctl'.rooms[j].gen = ctl.rooms[j].gen, ctl'.rooms[j].meta = ctl.rooms[j].meta,
               NEW n \in InRoom(j), n \in Passed', n \notin Passed,
               \A h \in Handlers : at[h].pc \in {"fence", "invalidate"} /\ Admissible(h) /\ Commit(h) => ctl' # ctl
        PROVE  n \in Told'
    <2>1. n \in Changes /\ n \in Nodes /\ KindOf[n] # "bare" /\ RoomOf[n] = j
      BY DEF InRoom, Changes
    <2>2. PICK h \in Handlers : /\ at[h].pc \in {"fence", "invalidate"} /\ Admissible(h) /\ Commit(h)
                                /\ at[h].node = n /\ at[h].session = session
      BY <1>1, <2>1, Newcomer
    <2> QED BY <1>1, <2>1, <2>2, CommitTells
  <1>2. ASSUME session' = session, Bound, ctl.rooms[j].on, ctl'.gen = ctl.gen,
               ctl'.rooms[j].gen = ctl.rooms[j].gen, ctl'.rooms[j].meta = ctl.rooms[j].meta
        PROVE  Followed(j)'
    <2>1. \A h \in Handlers : at[h].pc \in {"fence", "invalidate"} /\ Admissible(h) /\ Commit(h) => ctl' # ctl
      <3> SUFFICES ASSUME NEW h \in Handlers, at[h].pc \in {"fence", "invalidate"}, Admissible(h), Commit(h)
                   PROVE  ctl' # ctl
        OBVIOUS
      <3>1. ctl'.rev > ctl.rev /\ ctl.rev \in Nat
        BY <1>2, CommitShape DEF TypeOK, Controls, Bound
      <3> QED BY <3>1
    <2>2. PICK s \in snaps :
            /\ s.jid = j /\ s.gen = ctl.gen /\ s.session = session
            /\ s.room_gen = ctl.rooms[j].gen /\ s.meta = ctl.rooms[j].meta
            /\ InRoom(j) \cap Passed \subseteq s.seen \cup Told
      BY <1>2 DEF FollowedInv, Followed
    <2>3. InRoom(j) \cap Passed' \subseteq s.seen \cup Told'
      BY <1>1, <1>2, <2>1, <2>2, StillTold
    <2>4. s \in snaps'
      BY Grows
    <2>5. InRoom(j)' = InRoom(j)
      BY DEF InRoom, Changes
    <2> QED BY <1>2, <2>2, <2>3, <2>4, <2>5 DEF Followed
  <1>3. CASE UNCHANGED ctl
    BY <1>2, <1>3, StillBound DEF Bound
  <1>4. ASSUME NEW h \in Handlers, at[h].pc \in {"fence", "invalidate"}, Admissible(h), Commit(h)
        PROVE  Followed(j)'
    BY <1>2, <1>4, CommitShape, StillBound
  <1>5. ASSUME NEW c \in Calls, call[c].pc = "write", Writes(c), at' = at, wire' = wire, session' = session,
               rows' = rows, ctl' # ctl
        PROVE  Followed(j)'
    <2>1. CASE Rebinds(c)
      BY <2>1 DEF Rebinds
    <2>2. CASE Lists(c)
      BY <1>2, <1>5, <2>2, StillBound DEF Lists, SameRow
    <2>3. CASE Grants(c)
      <3> DEFINE d == call[c]
      <3>0. ctl # NoRow /\ Bound /\ SameRow(c) /\ d.bind = ctl
        BY <1>5, <2>3, SameIsRow DEF Grants, SameRow, Bound
      <3>1. CASE j # d.jid
        BY <1>2, <1>5, <2>3, <3>0, <3>1 DEF Grants
      <3>2. CASE j = d.jid
        <4>1. d.room.on /\ ctl'.rooms[j] = d.room /\ Snapshot(c) \in snaps' /\ ctl'.gen = ctl.gen /\ ctl'.session = ctl.session
              /\ d.session = ctl.session
          BY <2>3, <3>2 DEF Grants
        <4>2. InRoom(j) \cap Passed \subseteq d.seen
          BY <1>5, <2>3, <3>0, <3>2, <4>1 DEF SeenInv, SeenBy, Grants
        <4>3. Passed' = Passed
          BY <1>5 DEF Passed, Acked
        <4>4. /\ Snapshot(c).jid = j /\ Snapshot(c).gen = ctl'.gen /\ Snapshot(c).session = session'
              /\ Snapshot(c).room_gen = ctl'.rooms[j].gen /\ Snapshot(c).meta = ctl'.rooms[j].meta
              /\ Snapshot(c).seen = d.seen
          BY <1>5, <3>0, <3>2, <4>1 DEF Snapshot, Bound
        <4>5. InRoom(j)' = InRoom(j)
          BY DEF InRoom, Changes
        <4> QED BY <4>1, <4>2, <4>3, <4>4, <4>5 DEF Followed
      <3> QED BY <3>1, <3>2
    <2> QED BY <1>5, <2>1, <2>2, <2>3, WritesShape
  <1> QED BY <1>3, <1>4, <1>5, Writers

\* A compare-and-set that may still succeed is about a row that did not move.
LEMMA SameStays ==
  ASSUME TypeOK, RowInv, HandlerInv, CallInv, Next, NEW c \in Calls,
         SameRow(c)', call'[c].bind = call[c].bind
  PROVE  ctl' = ctl /\ SameRow(c)
  <1>1. call[c].bind # NoRow /\ ctl'.rev = call[c].bind.rev
    BY DEF SameRow
  <1>2. ctl # NoRow /\ call[c].bind.rev <= ctl.rev /\ call[c].bind \in Controls
    BY <1>1 DEF CallInv, CallOK, Version, TypeOK
  <1>3. ctl' = ctl
    <2> SUFFICES ASSUME ctl' # ctl PROVE FALSE
      OBVIOUS
    <2>1. ctl'.rev > ctl.rev /\ ctl.rev \in Nat /\ ctl'.rev \in Nat
      BY <1>2, RowMoves DEF Moves, TypeOK, Controls
    <2> QED BY <1>1, <1>2, <2>1
  <1> QED BY <1>1, <1>2, <1>3 DEF SameRow

\* Nothing passes unseen while a compare-and-set may still succeed.
LEMMA NobodyNew ==
  ASSUME TypeOK, RowInv, HandlerInv, CallInv, Next, UNCHANGED ctl, Bound'
  PROVE  Bound /\ Changes \cap Passed' \subseteq Passed
  <1>1. session' = session /\ Bound /\ ctl # NoRow
    BY StillBound DEF Bound
  <1>2. \A h \in Handlers : at[h].pc \in {"fence", "invalidate"} /\ Admissible(h) /\ Commit(h) => FALSE
    <2> SUFFICES ASSUME NEW h \in Handlers, at[h].pc \in {"fence", "invalidate"}, Admissible(h), Commit(h)
                 PROVE  FALSE
      OBVIOUS
    <2>1. ctl'.rev > ctl.rev /\ ctl.rev \in Nat
      BY <1>1, CommitShape DEF TypeOK, Controls
    <2> QED BY <2>1
  <1> QED BY <1>1, <1>2, Newcomer

LEMMA SeenStep ==
  ASSUME TypeOK, RowInv, HandlerInv, CallInv, SeenInv, Next
  PROVE  SeenInv'
  <1> SUFFICES ASSUME NEW e \in Calls, SameRow(e)', Bound'
               PROVE  SeenBy(e)'
    BY DEF SeenInv, SeenBy
  <1>0. call \in [Calls -> CallRec] /\ call[e] \in CallRec /\ CallOK(e) /\ SeenBy(e)
    BY DEF TypeOK, CallRec, CallInv, SeenInv
  <1>i. \A j : InRoom(j)' = InRoom(j) /\ InRoom(j) \subseteq Changes
    BY DEF InRoom, Changes
  <1>1. CASE call'[e] = call[e]
    <2>1. UNCHANGED ctl /\ SameRow(e)
      BY <1>1, SameStays
    <2>2. Bound /\ Changes \cap Passed' \subseteq Passed
      BY <2>1, NobodyNew
    <2> QED BY <1>0, <1>i, <1>1, <2>1, <2>2 DEF SeenBy
  <1>2. CASE call'[e].pc \in {"new", "done", "bind", "fetch"}
    BY <1>2 DEF SeenBy
  <1>3. ASSUME NEW c \in Calls, Request(c) PROVE SeenBy(e)'
    <2> DEFINE R(q) == [pc |-> IF q.op = "bootstrap" THEN "read" ELSE "bind", op |-> q.op, gen |-> q.gen,
                        session |-> session, room |-> q.room, jid |-> q.jid, bind |-> NoRow, seen |-> {}]
    <2>1. PICK q \in Requests : call' = [call EXCEPT ![c] = R(q)]
      BY <1>3 DEF Request, CallWith
    <2>2. CASE e # c
      BY <1>0, <1>1, <2>1, <2>2
    <2>3. CASE e = c
      <3>1. call'[e] = R(q)
        BY <1>0, <2>1, <2>3
      <3>2. call'[e].bind = NoRow
        BY <3>1
      <3> QED BY <3>2 DEF SameRow
    <2> QED BY <2>2, <2>3
  <1>4. ASSUME NEW c \in Calls, ReadBinding(c) PROVE SeenBy(e)'
    <2> DEFINE b == BindingFor(call[c].session)
               d == [call[c] EXCEPT !.bind = b]
    <2>1. \/ Done(c)
          \/ call' = [call EXCEPT ![c] = [d EXCEPT !.pc = "fetch"]]
          \/ call[c].op = "room" /\ ~ call[c].room.on /\ call' = [call EXCEPT ![c] = [d EXCEPT !.pc = "read"]]
      <3>1. d.op = call[c].op /\ d.room = call[c].room
        BY <1>0 DEF TypeOK
      <3> HIDE DEF d
      <3> QED BY <1>4, <3>1 DEF ReadBinding, CallWith, d
    <2> HIDE DEF b
    <2>2. CASE e # c
      BY <1>0, <1>1, <2>1, <2>2 DEF Done, CallWith
    <2>3. CASE e = c /\ Done(c)
      <3>1. call'[e].pc = "done"
        BY <1>0, <2>3 DEF Done, CallWith, Fresh
      <3> QED BY <1>2, <3>1
    <2>4. CASE e = c /\ call' = [call EXCEPT ![c] = [d EXCEPT !.pc = "fetch"]]
      <3>1. call'[e].pc = "fetch"
        BY <1>0, <2>4 DEF CallRec
      <3> QED BY <1>2, <3>1
    <2>5. CASE /\ e = c /\ call[c].op = "room" /\ ~ call[c].room.on
               /\ call' = [call EXCEPT ![c] = [d EXCEPT !.pc = "read"]]
      <3>1. call'[e].op = "room" /\ ~ call'[e].room.on
        BY <1>0, <2>5 DEF CallRec
      <3> QED BY <3>1 DEF SeenBy
    <2> QED BY <2>1, <2>2, <2>3, <2>4, <2>5
  <1>5. ASSUME NEW c \in Calls, Fetch(c) PROVE SeenBy(e)'
    <2> DEFINE sn == IF call[c].op = "room" THEN {n \in Happened : RoomOf[n] = call[c].jid} ELSE Happened
               p  == IF call[c].op = "room" THEN "read" ELSE "write"
    <2>1. Done(c) \/ call' = [call EXCEPT ![c] = [call[c] EXCEPT !.seen = sn, !.pc = p]]
      BY <1>5 DEF Fetch, CallWith
    <2>2. CASE e # c
      BY <1>0, <1>1, <2>1, <2>2 DEF Done, CallWith
    <2>3. CASE e = c /\ Done(c)
      <3>1. call'[e].pc = "done"
        BY <1>0, <2>3 DEF Done, CallWith, Fresh
      <3> QED BY <1>2, <3>1
    <2>4. CASE e = c /\ call' = [call EXCEPT ![c] = [call[c] EXCEPT !.seen = sn, !.pc = p]]
      <3>1. /\ call[e].op = "room" => sn = {n \in Happened : RoomOf[n] = call[e].jid}
            /\ call[e].op # "room" => sn = Happened
        BY <2>4
      <3> HIDE DEF sn, p
      <3>2. call'[e].op = call[e].op /\ call'[e].jid = call[e].jid /\ call'[e].seen = sn
        BY <1>0, <2>4 DEF CallRec
      <3>3. Passed' = Passed
        BY <1>5 DEF Fetch, Control, Passed, Acked
      <3>4. Changes \cap Passed \subseteq Happened
        BY PassedSent DEF Happened, Changes
      <3>5. InRoom(call[e].jid) \cap Passed \subseteq {n \in Happened : RoomOf[n] = call[e].jid}
        BY <3>4 DEF InRoom
      <3> QED BY <1>i, <3>1, <3>2, <3>3, <3>4, <3>5 DEF SeenBy
    <2> QED BY <2>1, <2>2, <2>3, <2>4
  <1>6. ASSUME NEW c \in Calls, ReadRow(c) PROVE SeenBy(e)'
    <2>1. \/ Done(c)
          \/ /\ call[c].op = "bootstrap" \/ (call[c].op = "room" /\ RoomAllowed(c))
             /\ call' = [call EXCEPT ![c] = [call[c] EXCEPT !.pc = "write", !.bind = ctl]]
      BY <1>6 DEF ReadRow, CallWith
    <2>2. CASE e # c
      BY <1>0, <1>1, <2>1, <2>2 DEF Done, CallWith
    <2>3. CASE e = c /\ Done(c)
      <3>1. call'[e].pc = "done"
        BY <1>0, <2>3 DEF Done, CallWith, Fresh
      <3> QED BY <1>2, <3>1
    <2>4. CASE /\ e = c
               /\ call[c].op = "bootstrap" \/ (call[c].op = "room" /\ RoomAllowed(c))
               /\ call' = [call EXCEPT ![c] = [call[c] EXCEPT !.pc = "write", !.bind = ctl]]
      <3>1. /\ call'[e].pc = "write" /\ call'[e].op = call[e].op /\ call'[e].jid = call[e].jid
            /\ call'[e].seen = call[e].seen /\ call'[e].room = call[e].room
        BY <1>0, <2>4 DEF CallRec
      <3>2. CASE call[e].op = "bootstrap"
        BY <3>1, <3>2 DEF SeenBy
      <3>3. CASE call[e].op = "room" /\ ~ call[e].room.on
        BY <3>1, <3>3 DEF SeenBy
      <3>4. CASE call[e].op = "room" /\ call[e].room.on
        <4>1. ctl # NoRow /\ ctl.rev = call[e].bind.rev /\ call[e].pc = "read" /\ call[e].bind # NoRow
          BY <1>0, <1>6, <2>4, <3>4 DEF RoomAllowed, ReadRow, CallOK
        <4>2. Passed' = Passed /\ Bound
          BY <1>6 DEF ReadRow, Control, Passed, Acked, Bound, socket
        <4>3. InRoom(call[e].jid) \cap Passed \subseteq call[e].seen
          BY <1>0, <3>4, <4>1, <4>2 DEF SeenBy, SameRow
        <4> QED BY <1>i, <3>1, <3>4, <4>2, <4>3 DEF SeenBy
      <3> QED BY <2>4, <3>2, <3>3, <3>4
    <2> QED BY <2>1, <2>2, <2>3, <2>4
  <1>7. ASSUME NEW c \in Calls, Write(c) PROVE SeenBy(e)'
    <2>1. CASE e # c
      BY <1>0, <1>1, <1>7, <2>1 DEF Write, Done, CallWith
    <2>2. CASE e = c
      <3>1. call'[e].pc = "done"
        BY <1>0, <1>7, <2>2 DEF Write, Done, CallWith, Fresh
      <3> QED BY <1>2, <3>1
    <2> QED BY <2>1, <2>2
  <1>8. CASE Crash
    <2>1. call'[e].pc \in {"new", "done"}
      BY <1>8 DEF Crash, Fresh
    <2> QED BY <1>2, <2>1
  <1>9. ASSUME NEW h \in Handlers, Handle(h) \/ HandlerFails(h) PROVE call' = call
    BY <1>9 DEF Handle, Bind, Admit, Owned, WriteKeys, Ack, HandlerFails
  <1>10. CASE \/ \E n \in Nodes : Send(n) \/ \E h \in Handlers : Deliver(h, n)
              \/ \E h \in Handlers : Publish(h)
              \/ Disconnect \/ Reconnect \/ Pair
    BY <1>1, <1>10 DEF Send, Deliver, Publish, Disconnect, Reconnect, Pair
  <1> QED BY <1>1, <1>3, <1>4, <1>5, <1>6, <1>7, <1>8, <1>9, <1>10 DEF Next, Serve

-----------------------------------------------------------------------------
\* Packets of rooms that stay enabled.
LEMMA StillEnabled ==
  ASSUME TypeOK, RowInv, HandlerInv, CallInv, Next, NEW n \in Nodes, Enabled(n), Enabled(n)'
  PROVE  session' = session /\ Told \subseteq Told'
  <1>0. /\ ctl # NoRow /\ ctl.session = session /\ ctl' # NoRow /\ ctl'.session = session'
        /\ ctl'.rooms[RoomOf[n]].on /\ RoomOf[n] \in Rooms
    BY Packet DEF Enabled
  <1>1. CASE ctl'.session = ctl.session /\ ctl'.gen = ctl.gen
    BY <1>0, <1>1, StillTold
  <1>2. CASE UNCHANGED ctl
    BY <1>1, <1>2
  <1>3. ASSUME NEW h \in Handlers, at[h].pc \in {"fence", "invalidate"}, Admissible(h), Commit(h)
        PROVE  ctl'.session = ctl.session /\ ctl'.gen = ctl.gen
    BY <1>3, CommitShape
  <1>4. ASSUME NEW c \in Calls, call[c].pc = "write", Writes(c), ctl' # ctl
        PROVE  ctl'.session = ctl.session /\ ctl'.gen = ctl.gen
    <2>1. ~ Rebinds(c)
      BY <1>0 DEF Rebinds
    <2> QED BY <1>4, <2>1, WritesShape DEF Lists, Grants
  <1> QED BY <1>1, <1>2, <1>3, <1>4, Writers

\* Whoever gets a packet of an enabled room beyond its admission has told it.
LEMMA BeyondTold ==
  ASSUME TypeOK, RowInv, HandlerInv, CallInv, SteadyInv, Next,
         NEW n \in steady, Enabled(n)', Beyond(n)'
  PROVE  n \in Told'
  <1>0. n \in Nodes /\ Enabled(n) /\ (Beyond(n) => n \in Told)
    BY DEF SteadyInv, TypeOK
  <1>1. session' = session /\ Told \subseteq Told'
    BY <1>0, StillEnabled
  <1>2. /\ ctl # NoRow /\ ctl.session = session /\ ctl.rooms[RoomOf[n]].on /\ KindOf[n] # "bare"
    BY <1>0 DEF Enabled
  <1>3. CASE Beyond(n)
    BY <1>0, <1>1, <1>3
  <1>4. CASE wire'[n] = "acked" /\ ~ Beyond(n)
    <2>1. wire[n] # "acked"
      BY <1>4 DEF Beyond
    <2>2. PICK h \in Handlers : at[h].pc = "ack" /\ at[h].node = n /\ at[h].session = session
      BY <1>0, <1>4, <2>1, Answers
    <2> QED BY <1>4, <2>2 DEF Beyond
  <1>5. CASE <<session, n>> \in keys' /\ ~ Beyond(n)
    <2>1. <<session, n>> \notin keys
      BY <1>5 DEF Beyond
    <2>2. PICK h \in Handlers : at[h].pc = "keys" /\ <<session, n>> = <<at[h].session, at[h].node>>
      BY <1>5, <2>1, KeyWriters
    <2> QED BY <1>5, <2>2 DEF Beyond
  <1>6. ASSUME NEW g \in Handlers, at'[g].node = n, at'[g].session = session, at'[g].pc \in {"owns", "keys", "ack"},
               ~ Beyond(n)
        PROVE  n \in Told'
    <2>1. ~ (at[g].pc \in {"owns", "keys", "ack"} /\ at[g].node = at'[g].node /\ at[g].session = at'[g].session)
      BY <1>6 DEF Beyond
    <2>2. <<session, n>> \notin keys
      BY <1>6 DEF Beyond
    <2>3. ~ (/\ Stage(at[g].node, BindingFor(at[g].session)) = "owns"
             /\ at[g].node = at'[g].node /\ at[g].session = at'[g].session)
      <3> SUFFICES ASSUME Stage(at[g].node, BindingFor(at[g].session)) = "owns",
                          at[g].node = n, at[g].session = session
                   PROVE  FALSE
        BY <1>6
      <3>1. BindingFor(at[g].session) = ctl
        BY <1>2 DEF BindingFor
      <3> QED BY <1>0, <1>2, <3>1, LetThrough
    <2>4. CASE /\ at[g].pc \in {"fence", "invalidate"} /\ Admissible(g) /\ Commit(g)
               /\ at[g].node = at'[g].node /\ at[g].session = at'[g].session
      BY <1>0, <1>1, <1>2, <1>6, <2>4, CommitTells
    <2> QED BY <1>6, <2>1, <2>2, <2>3, <2>4, Arrivals
  <1> QED BY <1>1, <1>3, <1>4, <1>5, <1>6 DEF Beyond

LEMMA SteadyStep ==
  ASSUME TypeOK, RowInv, HandlerInv, CallInv, SteadyInv, Next
  PROVE  SteadyInv'
  <1> SUFFICES ASSUME NEW n \in steady'
               PROVE  Enabled(n)' /\ wire'[n] # "unsent" /\ (Beyond(n)' => n \in Told')
    BY DEF SteadyInv
  <1>1. n \in Nodes /\ Enabled(n)' /\ (n \in steady \/ (wire[n] = "unsent" /\ wire'[n] # "unsent"))
    BY DEF Next, History
  <1>2. CASE n \in steady
    <2>1. wire'[n] # "unsent"
      BY <1>1, <1>2, Grows DEF SteadyInv
    <2> QED BY <1>1, <1>2, <2>1, BeyondTold
  <1>3. CASE wire[n] = "unsent" /\ wire'[n] # "unsent"
    <2>1. wire'[n] = "open" /\ at' = at /\ keys' = keys /\ session' = session
      BY <1>1, <1>3, Answers
    <2>2. <<session, n>> \notin keys
      BY <1>3 DEF RowInv
    <2>3. \A h \in Handlers : at[h].node # n
      BY <1>1, <1>3 DEF HandlerInv, HandlerOK
    <2>4. ~ Beyond(n)'
      BY <2>1, <2>2, <2>3 DEF Beyond
    <2> QED BY <1>1, <1>3, <2>4
  <1> QED BY <1>1, <1>2, <1>3

-----------------------------------------------------------------------------
LEMMA InitInd == Init => IndInv
  <1> SUFFICES ASSUME Init PROVE IndInv
    OBVIOUS
  <1>1. TypeOK
    BY InitTyped
  <1>2. /\ wire = [n \in Nodes |-> "unsent"] /\ keys = {} /\ steady = {} /\ session = 1
        /\ at = [h \in Handlers |-> Idle] /\ call = [c \in Calls |-> Fresh]
        /\ ctl # NoRow => ctl.session <= 1 /\ \A j \in Rooms : ~ ctl.rooms[j].on
    BY GroupsControlStart DEF Init
  <1>3. RowInv
    BY <1>2 DEF RowInv
  <1>4. HandlerInv
    BY <1>2, GroupsControlConstants DEF HandlerInv, HandlerOK, Idle, Version
  <1>5. \A c \in Calls : call[c].pc = "new" /\ call[c].bind = NoRow
    BY <1>2 DEF Fresh
  <1>6. CallInv
    BY <1>5 DEF CallInv, CallOK, Version
  <1>7. Passed = {}
    <2>1. \A h \in Handlers : at[h].pc = "idle"
      BY <1>2 DEF Idle
    <2> QED BY <1>2, <2>1 DEF Passed, Acked
  <1>8. SeenInv /\ CatalogInv /\ FollowedInv /\ SteadyInv
    BY <1>2, <1>5, <1>7 DEF SeenInv, SeenBy, CatalogInv, FollowedInv, Bound, SteadyInv
  <1> QED BY <1>1, <1>3, <1>4, <1>6, <1>8 DEF IndInv

LEMMA NextInd == IndInv /\ [Next]_vars => IndInv'
  <1> SUFFICES ASSUME IndInv, [Next]_vars PROVE IndInv'
    OBVIOUS
  <1>1. CASE UNCHANGED vars
    <2>1. /\ ctl' = ctl /\ keys' = keys /\ rows' = rows /\ snaps' = snaps /\ session' = session /\ up' = up
          /\ wire' = wire /\ at' = at /\ call' = call /\ faults' = faults /\ steady' = steady
      BY <1>1 DEF vars, stored, socket
    <2>2. TypeOK' /\ RowInv'
      BY <2>1 DEF IndInv, TypeOK, RowInv
    <2>3. HandlerInv'
      BY <2>1 DEF IndInv, HandlerInv, HandlerOK, Version
    <2>4. CallInv'
      BY <2>1 DEF IndInv, CallInv, CallOK, Version, Ordered
    <2>5. SeenInv' /\ CatalogInv'
      BY <2>1 DEF IndInv, SeenInv, SeenBy, SameRow, Bound, Passed, Acked, CatalogInv
    <2>6. FollowedInv'
      BY <2>1 DEF IndInv, FollowedInv, Followed, Told, Bound, Passed, Acked
    <2>7. SteadyInv'
      BY <2>1 DEF IndInv, SteadyInv, Enabled, Beyond, Told
    <2> QED BY <2>2, <2>3, <2>4, <2>5, <2>6, <2>7 DEF IndInv
  <1>2. CASE Next
    <2>1. /\ TypeOK /\ RowInv /\ HandlerInv /\ CallInv /\ SeenInv /\ CatalogInv /\ FollowedInv /\ SteadyInv
      BY DEF IndInv
    <2> QED BY <1>2, <2>1, TypeStep, RowStep, HandlerStep, CallStep, SeenStep, CatalogStep, FollowedStep, SteadyStep
            DEF IndInv
  <1> QED BY <1>1, <1>2

\* Along every behaviour all of it holds: the row against what was read of it, and
\* each stage of a handler or request against its packet (admit, control).
THEOREM SpecInd == Spec => []IndInv
  BY InitInd, NextInd, PTL DEF Spec

\* What WhatsApp is told of a packet, what the outbox tells the application and
\* what the binding says of the catalog stay together (ControlInv, and in it the
\* types of the state): no admission is acknowledged without its event, no stale
\* catalog is called current, no change is hidden from who follows a room.
THEOREM ControlStays == Spec => []ControlInv
  <1>1. IndInv => ControlInv
    <2> SUFFICES ASSUME IndInv PROVE ControlInv
      OBVIOUS
    <2>1. NoneLost
      <3> SUFFICES ASSUME NEW n \in steady, n \in Acked \/ <<session, n>> \in keys
                   PROVE  \E w \in rows : w.node = n /\ w.session = session /\ w.gen = ctl.gen
        BY DEF NoneLost
      <3>1. n \in Told
        BY DEF IndInv, SteadyInv, Beyond, Acked
      <3> QED BY <3>1 DEF Told
    <2>2. CatalogCurrent
      BY DEF IndInv, CatalogInv, CatalogCurrent, Passed
    <2>3. RoomFollowed
      <3> SUFFICES ASSUME Bound, NEW j \in Rooms, ctl.rooms[j].on
                   PROVE  \E s \in snaps :
                            /\ s.jid = j /\ s.gen = ctl.gen /\ s.session = session
                            /\ s.room_gen = ctl.rooms[j].gen /\ s.meta = ctl.rooms[j].meta
                            /\ InRoom(j) \cap Acked \subseteq s.seen \cup
                                 {w.node : w \in {r \in rows : r.gen = ctl.gen /\ r.session = session}}
        BY DEF RoomFollowed
      <3>1. Followed(j)
        BY DEF IndInv, FollowedInv
      <3> QED BY <3>1 DEF Followed, Passed, Told
    <2> QED BY <2>1, <2>2, <2>3 DEF IndInv, ControlInv
  <1> QED BY <1>1, SpecInd, PTL

\* An event of a room is written while the room is enabled in the binding and in
\* the generation the event names: no revocation slips in between the read that
\* authorized a packet and the transaction that records it.
THEOREM EventsAuthorized == Spec => RowsAuthorized
  <1> DEFINE A == \A w \in rows' \ rows :
                    /\ ctl # NoRow /\ ctl.gen = w.gen /\ ctl.session = w.session
                    /\ ctl.rooms[RoomOf[w.node]].on /\ ctl.rooms[RoomOf[w.node]].gen = w.room_gen
  <1>1. IndInv /\ [Next]_vars => [A]_vars
    <2> SUFFICES ASSUME IndInv, Next PROVE A
      BY DEF vars, stored
    <2> SUFFICES ASSUME NEW w \in rows' \ rows
                 PROVE  /\ ctl # NoRow /\ ctl.gen = w.gen /\ ctl.session = w.session
                        /\ ctl.rooms[RoomOf[w.node]].on /\ ctl.rooms[RoomOf[w.node]].gen = w.room_gen
      OBVIOUS
    <2>1. TypeOK /\ HandlerInv
      BY DEF IndInv
    <2>2. PICK h \in Handlers : at[h].pc \in {"fence", "invalidate"} /\ Admissible(h) /\ Commit(h)
      <3>1. ASSUME NEW h \in Handlers, Handle(h) \/ HandlerFails(h)
            PROVE  rows' = rows \/ (at[h].pc \in {"fence", "invalidate"} /\ Admissible(h) /\ Commit(h))
        BY <3>1 DEF Handle, Bind, Admit, Owned, WriteKeys, Ack, HandlerFails, UsedUp, stored
      <3>2. ASSUME NEW c \in Calls, Request(c) \/ Serve(c) PROVE rows' = rows
        BY <3>2 DEF Request, Serve, ReadBinding, Fetch, ReadRow, Write, Control
      <3>3. CASE \/ \E n \in Nodes : Send(n) \/ \E h \in Handlers : Deliver(h, n)
                 \/ \E h \in Handlers : Publish(h)
                 \/ Disconnect \/ Reconnect \/ Crash \/ Pair
        BY <3>3 DEF Send, Deliver, Publish, Disconnect, Reconnect, Crash, Pair, stored
      <3> QED BY <3>1, <3>2, <3>3 DEF Next
    <2>3. w = Event(h) /\ at[h].pc = "fence" /\ Authority(h).on /\ at[h].bind = ctl /\ ctl # NoRow
      BY <2>1, <2>2, CommitShape
    <2>4. at[h].session = ctl.session
      BY <2>1, <2>3 DEF HandlerInv, HandlerOK
    <2> QED BY <2>3, <2>4 DEF Event, Authority
  <1>2. Spec => [][A]_vars
    BY <1>1, SpecInd, PTL DEF Spec
  <1> QED BY <1>2 DEF RowsAuthorized

\* Within a binding generation the authority over a room only moves on, whichever
\* of the requests that raced for the row came first: none drops a room, and none
\* brings back what was disabled or replaced.
THEOREM AuthorityMovesOn == Spec => AuthorityForward
  <1> DEFINE A == ctl # NoRow =>
       \/ ctl'.gen > ctl.gen
       \/ /\ ctl'.gen = ctl.gen
          /\ \A j \in Rooms : LET old == ctl.rooms[j]  new == ctl'.rooms[j] IN
               \/ new.gen > old.gen
               \/ new.gen = old.gen /\ (new.on => old.on) /\ new.meta >= old.meta
  <1>1. IndInv /\ [Next]_vars => [A]_vars
    <2> SUFFICES ASSUME IndInv, Next, ctl # NoRow
                 PROVE  \/ ctl'.gen > ctl.gen
                        \/ /\ ctl'.gen = ctl.gen
                           /\ \A j \in Rooms :
                                \/ ctl'.rooms[j].gen > ctl.rooms[j].gen
                                \/ /\ ctl'.rooms[j].gen = ctl.rooms[j].gen
                                   /\ ctl'.rooms[j].on => ctl.rooms[j].on
                                   /\ ctl'.rooms[j].meta >= ctl.rooms[j].meta
      BY DEF vars, stored
    <2>0. TypeOK /\ HandlerInv /\ CallInv /\ ctl \in Controls
      BY DEF IndInv, TypeOK
    <2>1. ctl.gen \in Nat /\ \A j \in Rooms : ctl.rooms[j] \in RoomStates
      BY <2>0, GroupsControlConstants DEF Controls, Generations
    <2>2. \A r \in RoomStates : r.gen \in Nat /\ r.meta \in Nat
      BY GroupsControlConstants DEF RoomStates, RoomGens, Metas, Granted
    <2>3. CASE UNCHANGED ctl
      BY <2>1, <2>2, <2>3
    <2>4. ASSUME NEW h \in Handlers, at[h].pc \in {"fence", "invalidate"}, Admissible(h), Commit(h)
          PROVE  /\ ctl'.gen = ctl.gen
                 /\ \A j \in Rooms : /\ ctl'.rooms[j].gen = ctl.rooms[j].gen
                                     /\ ctl'.rooms[j].on => ctl.rooms[j].on
                                     /\ ctl'.rooms[j].meta >= ctl.rooms[j].meta
      BY <2>0, <2>1, <2>2, <2>4, CommitShape
    <2>5. ASSUME NEW c \in Calls, Rebinds(c) PROVE ctl'.gen > ctl.gen
      BY <2>5 DEF Rebinds
    <2>6. ASSUME NEW c \in Calls, Lists(c) PROVE ctl'.gen = ctl.gen /\ ctl'.rooms = ctl.rooms
      BY <2>6 DEF Lists
    <2>7. ASSUME NEW c \in Calls, Grants(c), NEW j \in Rooms
          PROVE  /\ ctl'.gen = ctl.gen
                 /\ \/ ctl'.rooms[j].gen > ctl.rooms[j].gen
                    \/ /\ ctl'.rooms[j].gen = ctl.rooms[j].gen
                       /\ ctl'.rooms[j].on => ctl.rooms[j].on
                       /\ ctl'.rooms[j].meta >= ctl.rooms[j].meta
      <3>1. ctl'.gen = ctl.gen /\ ctl'.rooms[j] = IF j = call[c].jid THEN call[c].room ELSE ctl.rooms[j]
        BY <2>7 DEF Grants
      <3>2. CASE j # call[c].jid
        BY <2>1, <2>2, <3>1, <3>2
      <3>3. CASE j = call[c].jid
        <4>1. /\ ctl.rooms[j].gen <= call[c].room.gen
              /\ ctl.rooms[j].gen = call[c].room.gen =>
                   ctl.rooms[j].on = call[c].room.on /\ ctl.rooms[j].meta <= call[c].room.meta
          BY <2>7, <3>3 DEF Grants, Ordered
        <4>2. call[c].room \in RoomStates
          BY <2>0 DEF TypeOK
        <4>3. /\ call[c].room.gen \in Nat /\ call[c].room.meta \in Nat
              /\ ctl.rooms[j].gen \in Nat /\ ctl.rooms[j].meta \in Nat
          BY <2>1, <2>2, <4>2
        <4> QED BY <3>1, <3>3, <4>1, <4>3
      <3> QED BY <3>2, <3>3
    <2>8. ASSUME NEW c \in Calls, call[c].pc = "write", Writes(c), ctl' # ctl
          PROVE  Rebinds(c) \/ Lists(c) \/ Grants(c)
      BY <2>0, <2>8, WritesShape
    <2>9. CASE \E c \in Calls : Lists(c)
      BY <2>1, <2>2, <2>6, <2>9
    <2>10. CASE \E c \in Calls : Grants(c)
      <3>1. PICK c \in Calls : Grants(c)
        BY <2>10
      <3>2. ctl'.gen = ctl.gen
        BY <3>1 DEF Grants
      <3> QED BY <2>7, <3>1, <3>2
    <2> QED BY <2>3, <2>4, <2>5, <2>8, <2>9, <2>10, Writers
  <1>2. Spec => [][A]_vars
    BY <1>1, SpecInd, PTL DEF Spec
  <1> QED BY <1>2 DEF AuthorityForward
=============================================================================
