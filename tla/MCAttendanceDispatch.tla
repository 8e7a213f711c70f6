------------------------ MODULE MCAttendanceDispatch -------------------------
(* TLC instances of AttendanceDispatch. *)
EXTENDS AttendanceDispatch, TLC

CONSTANTS r1, r2, r3, m1, m2, p1, p2, s1, s2

TwoRequests   == {r1, r2}
ThreeRequests == {r1, r2, r3}
NoReadback    == {}
OneReadback   == {r2}

\* A socket and its replacement, at one process or at another.
TwoProcs     == {p1, p2}
TwoAndOne    == (r1 :> p1) @@ (r2 :> p1) @@ (r3 :> p2)
Together     == (r1 :> p1) @@ (r2 :> p1)
HomeApart    == (s1 :> p1) @@ (s2 :> p2)
OneProc      == {p1}
TwoSockets   == {s1, s2}
HomeTogether == (s1 :> p1) @@ (s2 :> p1)

\* One material retried, or with another one that competes and is not for
\* physical dispatch.
OneMaterial  == {m1}
TwoMaterials == {m1, m2}
DeadlineNext == (m1 :> 1) @@ (m2 :> 1)
DeadlineOne  == (m1 :> 2)
Same         == (r1 :> m1) @@ (r2 :> m1)
Competing    == (r1 :> m1) @@ (r2 :> m1) @@ (r3 :> m2)
=============================================================================
