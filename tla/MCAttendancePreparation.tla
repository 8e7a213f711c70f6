------------------------ MODULE MCAttendancePreparation ------------------------
(***************************************************************************)
(* Small instances of the attendance preparation for TLC.                  *)
(***************************************************************************)
EXTENDS AttendancePreparation, TLC

CONSTANTS w1, w2, t1
=============================================================================
