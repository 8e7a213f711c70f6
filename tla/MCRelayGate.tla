------------------------------ MODULE MCRelayGate ------------------------------
(***************************************************************************)
(* A small instance of the relay gate for TLC: one call, with the messages *)
(* semanticPurpose tells apart.                                            *)
(***************************************************************************)
EXTENDS RelayGate, TLC

CONSTANTS c1, s1, s2

SessionSymmetry == Permutations({s1, s2})

Text == [wraps |-> 0, kind |-> "content", body |-> 1]

\* Content, a change in one wrapper and in more than are looked through, and the
\* request to recover a placeholder.
MCMessages ==
  {Text, [Text EXCEPT !.kind = "change", !.wraps = 1], [Text EXCEPT !.kind = "change", !.wraps = 2],
   [Text EXCEPT !.kind = "resend"]}
=============================================================================
