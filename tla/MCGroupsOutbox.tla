---------------------------- MODULE MCGroupsOutbox ----------------------------
(***************************************************************************)
(* Small instances of the groups outbox for TLC.                           *)
(***************************************************************************)
EXTENDS GroupsOutbox, TLC

CONSTANTS w1, w2, i1

OneEvent    == {1}
OneInstance == [e \in Events |-> i1]

\* 5 s doubled up to 5 min: what matters is that a delay is not zero.
ShortBackoff == [a \in 0 .. MaxAttempts |-> 1]
=============================================================================
