-------------------------- MODULE MCAttendanceOutbox --------------------------
(***************************************************************************)
(* Two small instances of the attendance outbox in one specification: one  *)
(* process that drains two instances, through a fault; and two processes   *)
(* at one event, where the lease of one passes to the other.  Which of the *)
(* processes run is chosen once; the others never start.                   *)
(***************************************************************************)
EXTENDS AttendanceOutbox

CONSTANTS p1, p2, e1, e2, i1, i2

VARIABLE crew   \* the processes that run

\* e1 belongs to one instance, the rest to the other.
TwoInstances == [e \in Events |-> IF e = e1 THEN i1 ELSE i2]

\* 5 s doubled up to 5 min: what matters is that a delay is not zero.
ShortBackoff == [a \in 0 .. MaxAttempts |-> 1]

CrewInit == Init /\ crew \in {{p1}, {p1, p2}}

\* Where all run, only e1 is recorded, only i1 is hinted at and nothing fails.
CrewNext ==
  /\ \/ Tick
     \/ Enqueue(e1)
     \/ \E e \in Events : Take(e)
     \/ \E p \in crew :
          \/ Progress(p) \/ Poll(p)
          \/ i1 \notin Hinted(p) /\ Wake(p, <<i1>>)
     \/ /\ crew # Procs
        /\ \/ \E i \in Instances : Rebind(i)
           \/ \E e \in Events : Enqueue(e)
           \/ \E p \in crew : WakeOutbox(p) \/ Fails(p) \/ ReplyLost(p) \/ Crash(p)
  /\ UNCHANGED crew

\* The fairness of FairSpec, for the processes that run.
CrewSpec ==
  /\ CrewInit /\ [][CrewNext]_<<vars, crew>> /\ WF_vars(Tick)
  /\ \A p \in Procs : WF_vars(p \in crew /\ Progress(p)) /\ WF_vars(p \in crew /\ Poll(p))
=============================================================================
