---------------------------- MODULE MCGroupsControl ----------------------------
(***************************************************************************)
(* Small instances of the authority over groups for TLC.                   *)
(***************************************************************************)
EXTENDS GroupsControl, TLC

CONSTANTS m, n, h1, c1, c2, r1

\* A message and a notification that its sender left, of one room.
MessageAndLeft == [x \in Nodes |-> IF x = m THEN "message" ELSE "left"]
SameRoom       == [x \in Nodes |-> r1]

\* The binding a bootstrap left.
Bootstrapped == {[gen |-> 1, rev |-> 0, session |-> 1, rooms |-> [j \in Rooms |-> Unknown],
                  stale |-> TRUE, catalog |-> {}]}

Bootstrap(g)     == [op |-> "bootstrap", gen |-> g, jid |-> NoNode, room |-> Unknown]
Catalog(g)       == [op |-> "catalog", gen |-> g, jid |-> NoNode, room |-> Unknown]
Room(g, j, k, e) == [op |-> "room", gen |-> g, jid |-> j, room |-> [gen |-> k, on |-> e, meta |-> 1]]
\* The same authorization with newer metadata.
Refreshed(q)     == [q EXCEPT !.room.meta = 2]

\* A room is enabled, refreshed and disabled while packets arrive, its catalog is
\* asked for, and the account is bound anew after another pairing.
Mixed == {Catalog(1), Room(1, r1, 1, TRUE), Refreshed(Room(1, r1, 1, TRUE)), Room(1, r1, 2, FALSE),
          Bootstrap(2), Catalog(2), Room(2, r1, 1, TRUE)}

CallSymmetry == Permutations({c1, c2})
=============================================================================
