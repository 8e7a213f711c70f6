------------------------- MODULE MCChatwootDispatch --------------------------
(* TLC instances of ChatwootDispatch. *)
EXTENDS ChatwootDispatch, TLC

CONSTANTS r1, r2, r3, d1, d2, b1, b2, b3

\* Two deliveries, two requests and one body of every kind.
TwoDeliveries == {d1, d2}
TwoRequests   == {r1, r2}
MixedBodies   == {b1, b2, b3}
MixedKind     == (b1 :> "message") @@ (b2 :> "history") @@ (b3 :> "invalid_history")
SignedOnce    == [d \in TwoDeliveries |-> {1}]
=============================================================================
