---------------------------- MODULE MCCaptureContext ----------------------------
(***************************************************************************)
(* Small instances of the capture context for TLC.                         *)
(***************************************************************************)
EXTENDS CaptureContext, TLC

CONSTANTS s1, s2

SessionSymmetry == Permutations({s1, s2})
=============================================================================
