------------------------ MODULE MCFinancialDelivery -------------------------
(* TLC instances of FinancialDelivery. *)
EXTENDS FinancialDelivery, TLC

CONSTANTS c1, c2, c3, t1, t2, k1, s1, s2

\* One delivery, signed twice: for the first session, and again later for the
\* session that replaced it.
TwoCalls   == {c1, c2}
TwoTokens  == {t1, t2}
OneKey     == {k1}
SameKey    == [t \in TwoTokens |-> k1]
Deadlines  == (t1 :> 2) @@ (t2 :> 3)
TwoSessions == {s1, s2}
SignedFor  == (t1 :> s1) @@ (t2 :> s2)
AnyCall    == Permutations(TwoCalls)
=============================================================================
