--------------------------- MODULE MCGroupsLifecycle ---------------------------
(***************************************************************************)
(* Small instances of the socket lifecycle for TLC.                        *)
(***************************************************************************)
EXTENDS GroupsLifecycle, TLC

CONSTANTS p1, t1, t2, t3
=============================================================================
