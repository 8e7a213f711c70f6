---------------------- MODULE AttendanceDispatch_proofs ----------------------
(***************************************************************************)
(* Proofs about AttendanceDispatch: its inductive invariant, the safety    *)
(* properties of the dispatch that follow from it, and that the row and    *)
(* its transactions implement ReleasePromise, for any number of requests,  *)
(* processes, sockets and materials and any deadlines; and, in the second  *)
(* part, about the preparation that hands the dispatch its rows.           *)
(***************************************************************************)
EXTENDS AttendanceDispatch, TLAPS

\* The initial states satisfy the invariant.
LEMMA InitIndInv == Init => IndInv
  <1> SUFFICES ASSUME Init PROVE IndInv
    OBVIOUS
  <1> USE DispatchConstants DEF Init
  <1>1. TypeOK
    BY DEF TypeOK, Rows, RowStates, Stages, Sending
  <1>2. RowSound
    BY DEF RowSound, Started
  <1>3. ASSUME NEW r \in Requests PROVE RequestSound(r) /\ AnswerSound(r)
    BY DEF RequestSound, AnswerSound, Working, Sending
  <1>4. ASSUME NEW q \in Requests, NEW r \in Requests PROVE PairSound(q, r)
    BY DEF PairSound
  <1> QED BY <1>1, <1>2, <1>3, <1>4 DEF IndInv

\* The states that are written onto a started row.
RowMarks == {"dispatch_started", "transport_returned", "outcome_unknown"}

\* The marks that the start and the return leave on a row keep its type.
LEMMA RowMarked ==
  ASSUME NEW rw \in Rows, NEW st \in RowStates
  PROVE  /\ [rw EXCEPT !.state = st, !.revision = @ + 1] \in Rows
         /\ [rw EXCEPT !.revision = @ + 1, !.state = st] \in Rows
  <1>1. rw.revision + 1 \in Nat
    BY DEF Rows
  <1>2. ASSUME NEW n \in Nat
        PROVE  /\ [rw EXCEPT !.state = st, !.revision = n] \in Rows
               /\ [rw EXCEPT !.revision = n, !.state = st] \in Rows
    BY DEF Rows
  <1> QED BY <1>1, <1>2, Zenon

\* Every step keeps the types.
LEMMA StepType ==
  ASSUME IndInv, [Next]_vars
  PROVE  TypeOK'
  <1> USE DispatchConstants DEF IndInv, TypeOK, Rows, RowStates, Stages, Sending,
        database, sockets, request
  <1>1. ASSUME NEW r \in Requests, Receive(r) PROVE TypeOK'
    BY <1>1 DEF Receive, GoTo
  <1>2. ASSUME NEW r \in Requests, ConsumeRead(r) PROVE TypeOK'
    BY <1>2 DEF ConsumeRead, Replay, Observed, Answer, GoTo
  <1>3. ASSUME NEW r \in Requests, NEW heard \in BOOLEAN, ConsumeWrite(r, heard)
       PROVE  TypeOK'
    BY <1>3 DEF ConsumeWrite, Replay, Observed, Answer, GoTo
  <1>4. ASSUME NEW r \in Requests, DispatchRead(r) PROVE TypeOK'
    BY <1>4 DEF DispatchRead, Answer, GoTo
  <1>5. ASSUME NEW r \in Requests, ExpiryReadback(r) PROVE TypeOK'
    BY <1>5 DEF ExpiryReadback, Answer, GoTo, Clock
  <1>6. ASSUME NEW r \in Requests, Content(r) PROVE TypeOK'
    BY <1>6 DEF Content, GoTo
  <1>7. ASSUME NEW r \in Requests, ReleasedGrantCapability(r) PROVE TypeOK'
    <2>1. client[At[r]] \in Sockets \cup {NoSocket}
      OBVIOUS
    <2>2. /\ pc' \in [Requests -> Stages]
          /\ sender' \in [Requests -> Sockets \cup {NoSocket}]
      <3>1. /\ pc \in [Requests -> Stages] /\ {"sending", "context", "failed"} \subseteq Stages
            /\ sender \in [Requests -> Sockets \cup {NoSocket}]
        OBVIOUS
      <3> HIDE DEF IndInv, TypeOK, Rows, RowStates, Stages, Sending
      <3> QED BY <1>7, <2>1, <3>1 DEF ReleasedGrantCapability, GoTo
    <2> HIDE DEF Rows, RowStates, Stages, Sending
    <2> QED BY <1>7, <2>2 DEF ReleasedGrantCapability, GoTo
  <1>8. ASSUME NEW r \in Requests, AssertNode(r) PROVE TypeOK'
    <2>1. client[At[r]] \in Sockets \cup {NoSocket}
      OBVIOUS
    <2>2. /\ pc' \in [Requests -> Stages]
          /\ own' \in [Requests -> Sockets \cup {NoSocket}]
      <3>1. /\ pc \in [Requests -> Stages] /\ {"sending", "context", "failed"} \subseteq Stages
            /\ own \in [Requests -> Sockets \cup {NoSocket}]
        OBVIOUS
      <3> HIDE DEF IndInv, TypeOK, Rows, RowStates, Stages, Sending
      <3> QED BY <1>8, <2>1, <3>1 DEF AssertNode, GoTo
    <2>3. contextRevision' \in [Sockets -> Nat] /\ revision' \in [Requests -> Nat]
      <3>1. contextRevision \in [Sockets -> Nat] /\ revision \in [Requests -> Nat]
        OBVIOUS
      <3> HIDE DEF IndInv, TypeOK, Rows, RowStates, Stages, Sending
      <3>2. CASE client[At[r]] = NoSocket
        BY <1>8, <3>1, <3>2 DEF AssertNode
      <3>3. CASE client[At[r]] \in Sockets
        <4>1. PICK n \in Nat : n = contextRevision[client[At[r]]] + 1
          BY <3>1, <3>3
        <4>2. client[At[r]] # NoSocket
          BY <3>3
        <4> QED BY <1>8, <3>1, <4>1, <4>2 DEF AssertNode
      <3> QED BY <2>1, <3>2, <3>3
    <2> HIDE DEF Rows, RowStates, Stages, Sending
    <2> QED BY <1>8, <2>2, <2>3 DEF AssertNode, GoTo
  <1>9. ASSUME NEW r \in Requests, ContextReply(r) PROVE TypeOK'
    BY <1>9 DEF ContextReply, GoTo
  <1>10. ASSUME NEW r \in Requests, LockSocket(r) PROVE TypeOK'
    BY <1>10 DEF LockSocket, GoTo
  <1>11. ASSUME NEW r \in Requests, LockRow(r) PROVE TypeOK'
    BY <1>11 DEF LockRow, GoTo, ReleaseLocks
  <1>12. ASSUME NEW r \in Requests, StartUpdate(r) PROVE TypeOK'
    BY <1>12 DEF StartUpdate, GoTo, ReleaseLocks
  <1>13. ASSUME NEW r \in Requests, NEW heard \in BOOLEAN, StartCommit(r, heard)
       PROVE  TypeOK'
    <2>1. row \in Rows /\ RowMarks \subseteq RowStates
      BY DEF RowMarks
    <2>2. row' \in Rows
      <3> HIDE DEF IndInv, TypeOK, Rows, RowStates
      <3> QED BY <1>13, <2>1, RowMarked DEF StartCommit, RowMarks
    <2> QED
      BY <1>13, <2>2 DEF StartCommit, GoTo, ReleaseLocks
  <1>14. ASSUME NEW r \in Requests, CaptureContextCurrent(r) PROVE TypeOK'
    BY <1>14 DEF CaptureContextCurrent, GoTo
  <1>15. ASSUME NEW r \in Requests, WriteWire(r) PROVE TypeOK'
    BY <1>15 DEF WriteWire, GoTo
  <1>16. ASSUME NEW r \in Requests, NoteRead(r) PROVE TypeOK'
    BY <1>16 DEF NoteRead, GoTo, Answer
  <1>17. ASSUME NEW r \in Requests, NEW heard \in BOOLEAN, NoteWrite(r, heard)
       PROVE  TypeOK'
    <2>1. row \in Rows /\ RowMarks \subseteq RowStates
      BY DEF RowMarks
    <2>2. row' \in Rows
      <3> HIDE DEF IndInv, TypeOK, Rows, RowStates
      <3> QED BY <1>17, <2>1, RowMarked DEF NoteWrite, RowMarks
    <2> QED
      BY <1>17, <2>2 DEF NoteWrite, GoTo, Answer
  <1>18. ASSUME NEW r \in Requests, Done(r) PROVE TypeOK'
    BY <1>18 DEF Done, Answer
  <1>19. ASSUME NEW r \in Requests, Fails(r) PROVE TypeOK'
    BY <1>19 DEF Fails, GoTo, Answer, ReleaseLocks
  <1>20. ASSUME NEW r \in Requests, Crash(r) PROVE TypeOK'
    BY <1>20 DEF Crash, GoTo, ReleaseLocks
  <1>21. ASSUME Tick PROVE TypeOK'
    BY <1>21 DEF Tick
  <1>22. ASSUME NEW p \in Procs, Publish(p) PROVE TypeOK'
    BY <1>22 DEF Publish
  <1>23. ASSUME NEW p \in Procs, Stop(p) PROVE TypeOK'
    BY <1>23 DEF Stop
  <1>24. ASSUME NEW p \in Procs, NEW s \in Sockets, Register(p, s) PROVE TypeOK'
    BY <1>24 DEF Register
  <1>25. ASSUME NEW s \in Sockets, RefreshContext(s) PROVE TypeOK'
    BY <1>25 DEF RefreshContext
  <1>26. CASE UNCHANGED vars
    BY <1>26 DEF vars, request
  <1> QED
    BY <1>1, <1>2, <1>3, <1>4, <1>5, <1>6, <1>7, <1>8, <1>9, <1>10, <1>11, <1>12,
       <1>13, <1>14, <1>15, <1>16, <1>17, <1>18, <1>19, <1>20, <1>21,
       <1>22, <1>23, <1>24, <1>25, <1>26
    DEF Next, Surroundings, Progress, Disturb

\* Every step keeps the row sound.
LEMMA StepRow ==
  ASSUME IndInv, [Next]_vars
  PROVE  RowSound'
  <1> USE DispatchConstants DEF IndInv, TypeOK, Rows, RowStates, RowSound, RequestSound,
        Started, Working, Sending, database, sockets, request
  <1>1. ASSUME NEW r \in Requests, Receive(r) PROVE RowSound'
    BY <1>1 DEF Receive, GoTo
  <1>2. ASSUME NEW r \in Requests, ConsumeRead(r) PROVE RowSound'
    BY <1>2 DEF ConsumeRead, Replay, Observed, Answer, GoTo
  <1>3. ASSUME NEW r \in Requests, NEW heard \in BOOLEAN, ConsumeWrite(r, heard)
       PROVE  RowSound'
    BY <1>3 DEF ConsumeWrite, Replay, Observed, Answer, GoTo
  <1>4. ASSUME NEW r \in Requests, DispatchRead(r) PROVE RowSound'
    BY <1>4 DEF DispatchRead, Answer, GoTo
  <1>5. ASSUME NEW r \in Requests, ExpiryReadback(r) PROVE RowSound'
    BY <1>5 DEF ExpiryReadback, Answer, GoTo, Clock
  <1>6. ASSUME NEW r \in Requests, Content(r) PROVE RowSound'
    BY <1>6 DEF Content, GoTo
  <1>7. ASSUME NEW r \in Requests, ReleasedGrantCapability(r) PROVE RowSound'
    BY <1>7 DEF ReleasedGrantCapability, GoTo
  <1>8. ASSUME NEW r \in Requests, AssertNode(r) PROVE RowSound'
    BY <1>8 DEF AssertNode, GoTo
  <1>9. ASSUME NEW r \in Requests, ContextReply(r) PROVE RowSound'
    BY <1>9 DEF ContextReply, GoTo
  <1>10. ASSUME NEW r \in Requests, LockSocket(r) PROVE RowSound'
    BY <1>10 DEF LockSocket, GoTo
  <1>11. ASSUME NEW r \in Requests, LockRow(r) PROVE RowSound'
    BY <1>11 DEF LockRow, GoTo, ReleaseLocks
  <1>12. ASSUME NEW r \in Requests, StartUpdate(r) PROVE RowSound'
    BY <1>12 DEF StartUpdate, GoTo, ReleaseLocks
  <1>13. ASSUME NEW r \in Requests, NEW heard \in BOOLEAN, StartCommit(r, heard)
       PROVE  RowSound'
    BY <1>13 DEF StartCommit, GoTo, ReleaseLocks
  <1>14. ASSUME NEW r \in Requests, CaptureContextCurrent(r) PROVE RowSound'
    BY <1>14 DEF CaptureContextCurrent, GoTo
  <1>15. ASSUME NEW r \in Requests, WriteWire(r) PROVE RowSound'
    BY <1>15 DEF WriteWire, GoTo
  <1>16. ASSUME NEW r \in Requests, NoteRead(r) PROVE RowSound'
    BY <1>16 DEF NoteRead, GoTo, Answer
  <1>17. ASSUME NEW r \in Requests, NEW heard \in BOOLEAN, NoteWrite(r, heard)
       PROVE  RowSound'
    BY <1>17 DEF NoteWrite, GoTo, Answer
  <1>18. ASSUME NEW r \in Requests, Done(r) PROVE RowSound'
    BY <1>18 DEF Done, Answer
  <1>19. ASSUME NEW r \in Requests, Fails(r) PROVE RowSound'
    BY <1>19 DEF Fails, GoTo, Answer, ReleaseLocks
  <1>20. ASSUME NEW r \in Requests, Crash(r) PROVE RowSound'
    BY <1>20 DEF Crash, GoTo, ReleaseLocks
  <1>21. ASSUME Tick PROVE RowSound'
    BY <1>21 DEF Tick
  <1>22. ASSUME NEW p \in Procs, Publish(p) PROVE RowSound'
    BY <1>22 DEF Publish
  <1>23. ASSUME NEW p \in Procs, Stop(p) PROVE RowSound'
    BY <1>23 DEF Stop
  <1>24. ASSUME NEW p \in Procs, NEW s \in Sockets, Register(p, s) PROVE RowSound'
    BY <1>24 DEF Register
  <1>25. ASSUME NEW s \in Sockets, RefreshContext(s) PROVE RowSound'
    BY <1>25 DEF RefreshContext
  <1>26. CASE UNCHANGED vars
    BY <1>26 DEF vars, request
  <1> QED
    BY <1>1, <1>2, <1>3, <1>4, <1>5, <1>6, <1>7, <1>8, <1>9, <1>10, <1>11, <1>12,
       <1>13, <1>14, <1>15, <1>16, <1>17, <1>18, <1>19, <1>20, <1>21,
       <1>22, <1>23, <1>24, <1>25, <1>26
    DEF Next, Surroundings, Progress, Disturb

\* Every step keeps what a request's stage says, its own and the others'.
LEMMA StepRequest ==
  ASSUME IndInv, [Next]_vars, NEW q \in Requests
  PROVE  RequestSound(q)'
  <1> USE DispatchConstants DEF IndInv, TypeOK, Rows, RowStates, RowSound, RequestSound,
        Started, Working, Sending, Stages, WaitsFor, UnderWay, database, sockets,
        request
  <1>1. ASSUME NEW r \in Requests, Receive(r) PROVE RequestSound(q)'
    BY <1>1 DEF Receive, GoTo
  <1>2. ASSUME NEW r \in Requests, ConsumeRead(r) PROVE RequestSound(q)'
    BY <1>2 DEF ConsumeRead, Replay, Observed, Answer, GoTo
  <1>3. ASSUME NEW r \in Requests, NEW heard \in BOOLEAN, ConsumeWrite(r, heard)
       PROVE  RequestSound(q)'
    BY <1>3 DEF ConsumeWrite, Replay, Observed, Answer, GoTo
  <1>4. ASSUME NEW r \in Requests, DispatchRead(r) PROVE RequestSound(q)'
    BY <1>4 DEF DispatchRead, Answer, GoTo
  <1>5. ASSUME NEW r \in Requests, ExpiryReadback(r) PROVE RequestSound(q)'
    BY <1>5 DEF ExpiryReadback, Answer, GoTo, Clock
  <1>6. ASSUME NEW r \in Requests, Content(r) PROVE RequestSound(q)'
    BY <1>6 DEF Content, GoTo
  <1>7. ASSUME NEW r \in Requests, ReleasedGrantCapability(r) PROVE RequestSound(q)'
    BY <1>7 DEF ReleasedGrantCapability, GoTo
  <1>8. ASSUME NEW r \in Requests, AssertNode(r) PROVE RequestSound(q)'
    BY <1>8 DEF AssertNode, GoTo
  <1>9. ASSUME NEW r \in Requests, ContextReply(r) PROVE RequestSound(q)'
    BY <1>9 DEF ContextReply, GoTo
  <1>10. ASSUME NEW r \in Requests, LockSocket(r) PROVE RequestSound(q)'
    BY <1>10 DEF LockSocket, GoTo
  <1>11. ASSUME NEW r \in Requests, LockRow(r) PROVE RequestSound(q)'
    BY <1>11 DEF LockRow, GoTo, ReleaseLocks
  <1>12. ASSUME NEW r \in Requests, StartUpdate(r) PROVE RequestSound(q)'
    BY <1>12 DEF StartUpdate, GoTo, ReleaseLocks
  <1>13. ASSUME NEW r \in Requests, NEW heard \in BOOLEAN, StartCommit(r, heard)
       PROVE  RequestSound(q)'
    BY <1>13 DEF StartCommit, GoTo, ReleaseLocks
  <1>14. ASSUME NEW r \in Requests, CaptureContextCurrent(r) PROVE RequestSound(q)'
    BY <1>14 DEF CaptureContextCurrent, GoTo
  <1>15. ASSUME NEW r \in Requests, WriteWire(r) PROVE RequestSound(q)'
    BY <1>15 DEF WriteWire, GoTo, PairSound
  <1>16. ASSUME NEW r \in Requests, NoteRead(r) PROVE RequestSound(q)'
    BY <1>16 DEF NoteRead, GoTo, Answer
  <1>17. ASSUME NEW r \in Requests, NEW heard \in BOOLEAN, NoteWrite(r, heard)
       PROVE  RequestSound(q)'
    BY <1>17 DEF NoteWrite, GoTo, Answer
  <1>18. ASSUME NEW r \in Requests, Done(r) PROVE RequestSound(q)'
    BY <1>18 DEF Done, Answer
  <1>19. ASSUME NEW r \in Requests, Fails(r) PROVE RequestSound(q)'
    BY <1>19 DEF Fails, GoTo, Answer, ReleaseLocks
  <1>20. ASSUME NEW r \in Requests, Crash(r) PROVE RequestSound(q)'
    BY <1>20 DEF Crash, GoTo, ReleaseLocks
  <1>21. ASSUME Tick PROVE RequestSound(q)'
    BY <1>21 DEF Tick
  <1>22. ASSUME NEW p \in Procs, Publish(p) PROVE RequestSound(q)'
    BY <1>22 DEF Publish
  <1>23. ASSUME NEW p \in Procs, Stop(p) PROVE RequestSound(q)'
    BY <1>23 DEF Stop
  <1>24. ASSUME NEW p \in Procs, NEW s \in Sockets, Register(p, s) PROVE RequestSound(q)'
    BY <1>24 DEF Register
  <1>25. ASSUME NEW s \in Sockets, RefreshContext(s) PROVE RequestSound(q)'
    BY <1>25 DEF RefreshContext
  <1>26. CASE UNCHANGED vars
    BY <1>26 DEF vars, request
  <1> QED
    BY <1>1, <1>2, <1>3, <1>4, <1>5, <1>6, <1>7, <1>8, <1>9, <1>10, <1>11, <1>12,
       <1>13, <1>14, <1>15, <1>16, <1>17, <1>18, <1>19, <1>20, <1>21,
       <1>22, <1>23, <1>24, <1>25, <1>26
    DEF Next, Surroundings, Progress, Disturb

\* Every answer once given stays true.
LEMMA StepAnswer ==
  ASSUME IndInv, [Next]_vars, NEW q \in Requests
  PROVE  AnswerSound(q)'
  <1> USE DispatchConstants DEF IndInv, TypeOK, Rows, RowStates, RowSound, RequestSound,
        AnswerSound, PairSound, Started, Working, Sending, database, sockets,
        request
  <1>1. ASSUME NEW r \in Requests, Receive(r) PROVE AnswerSound(q)'
    BY <1>1 DEF Receive, GoTo
  <1>2. ASSUME NEW r \in Requests, ConsumeRead(r) PROVE AnswerSound(q)'
    BY <1>2 DEF ConsumeRead, Replay, Observed, Answer, GoTo
  <1>3. ASSUME NEW r \in Requests, NEW heard \in BOOLEAN, ConsumeWrite(r, heard)
       PROVE  AnswerSound(q)'
    BY <1>3 DEF ConsumeWrite, Replay, Observed, Answer, GoTo
  <1>4. ASSUME NEW r \in Requests, DispatchRead(r) PROVE AnswerSound(q)'
    BY <1>4 DEF DispatchRead, Answer, GoTo
  <1>5. ASSUME NEW r \in Requests, ExpiryReadback(r) PROVE AnswerSound(q)'
    BY <1>5 DEF ExpiryReadback, Answer, GoTo, Clock
  <1>6. ASSUME NEW r \in Requests, Content(r) PROVE AnswerSound(q)'
    BY <1>6 DEF Content, GoTo
  <1>7. ASSUME NEW r \in Requests, ReleasedGrantCapability(r) PROVE AnswerSound(q)'
    BY <1>7 DEF ReleasedGrantCapability, GoTo
  <1>8. ASSUME NEW r \in Requests, AssertNode(r) PROVE AnswerSound(q)'
    BY <1>8 DEF AssertNode, GoTo
  <1>9. ASSUME NEW r \in Requests, ContextReply(r) PROVE AnswerSound(q)'
    BY <1>9 DEF ContextReply, GoTo
  <1>10. ASSUME NEW r \in Requests, LockSocket(r) PROVE AnswerSound(q)'
    BY <1>10 DEF LockSocket, GoTo
  <1>11. ASSUME NEW r \in Requests, LockRow(r) PROVE AnswerSound(q)'
    BY <1>11 DEF LockRow, GoTo, ReleaseLocks
  <1>12. ASSUME NEW r \in Requests, StartUpdate(r) PROVE AnswerSound(q)'
    BY <1>12 DEF StartUpdate, GoTo, ReleaseLocks
  <1>13. ASSUME NEW r \in Requests, NEW heard \in BOOLEAN, StartCommit(r, heard)
       PROVE  AnswerSound(q)'
    BY <1>13 DEF StartCommit, GoTo, ReleaseLocks
  <1>14. ASSUME NEW r \in Requests, CaptureContextCurrent(r) PROVE AnswerSound(q)'
    BY <1>14 DEF CaptureContextCurrent, GoTo
  <1>15. ASSUME NEW r \in Requests, WriteWire(r) PROVE AnswerSound(q)'
    BY <1>15 DEF WriteWire, GoTo
  <1>16. ASSUME NEW r \in Requests, NoteRead(r) PROVE AnswerSound(q)'
    BY <1>16 DEF NoteRead, GoTo, Answer
  <1>17. ASSUME NEW r \in Requests, NEW heard \in BOOLEAN, NoteWrite(r, heard)
       PROVE  AnswerSound(q)'
    BY <1>17 DEF NoteWrite, GoTo, Answer
  <1>18. ASSUME NEW r \in Requests, Done(r) PROVE AnswerSound(q)'
    BY <1>18 DEF Done, Answer
  <1>19. ASSUME NEW r \in Requests, Fails(r) PROVE AnswerSound(q)'
    BY <1>19 DEF Fails, GoTo, Answer, ReleaseLocks
  <1>20. ASSUME NEW r \in Requests, Crash(r) PROVE AnswerSound(q)'
    BY <1>20 DEF Crash, GoTo, ReleaseLocks
  <1>21. ASSUME Tick PROVE AnswerSound(q)'
    BY <1>21 DEF Tick
  <1>22. ASSUME NEW p \in Procs, Publish(p) PROVE AnswerSound(q)'
    BY <1>22 DEF Publish
  <1>23. ASSUME NEW p \in Procs, Stop(p) PROVE AnswerSound(q)'
    BY <1>23 DEF Stop
  <1>24. ASSUME NEW p \in Procs, NEW s \in Sockets, Register(p, s) PROVE AnswerSound(q)'
    BY <1>24 DEF Register
  <1>25. ASSUME NEW s \in Sockets, RefreshContext(s) PROVE AnswerSound(q)'
    BY <1>25 DEF RefreshContext
  <1>26. CASE UNCHANGED vars
    BY <1>26 DEF vars, request
  <1> QED
    BY <1>1, <1>2, <1>3, <1>4, <1>5, <1>6, <1>7, <1>8, <1>9, <1>10, <1>11, <1>12,
       <1>13, <1>14, <1>15, <1>16, <1>17, <1>18, <1>19, <1>20, <1>21,
       <1>22, <1>23, <1>24, <1>25, <1>26
    DEF Next, Surroundings, Progress, Disturb

\* No second request comes to send, and none starts once one was told of the
\* expiry.
LEMMA StepPair ==
  ASSUME IndInv, [Next]_vars, NEW q \in Requests, NEW z \in Requests
  PROVE  PairSound(q, z)'
  <1> USE DispatchConstants DEF IndInv, TypeOK, Rows, RowStates, RowSound, RequestSound,
        AnswerSound, PairSound, Started, Working, Sending, database, sockets,
        request
  <1>1. ASSUME NEW r \in Requests, Receive(r) PROVE PairSound(q, z)'
    BY <1>1 DEF Receive, GoTo
  <1>2. ASSUME NEW r \in Requests, ConsumeRead(r) PROVE PairSound(q, z)'
    BY <1>2 DEF ConsumeRead, Replay, Observed, Answer, GoTo
  <1>3. ASSUME NEW r \in Requests, NEW heard \in BOOLEAN, ConsumeWrite(r, heard)
       PROVE  PairSound(q, z)'
    BY <1>3 DEF ConsumeWrite, Replay, Observed, Answer, GoTo
  <1>4. ASSUME NEW r \in Requests, DispatchRead(r) PROVE PairSound(q, z)'
    BY <1>4 DEF DispatchRead, Answer, GoTo
  <1>5. ASSUME NEW r \in Requests, ExpiryReadback(r) PROVE PairSound(q, z)'
    BY <1>5 DEF ExpiryReadback, Answer, GoTo, Clock, WaitsFor
  <1>6. ASSUME NEW r \in Requests, Content(r) PROVE PairSound(q, z)'
    BY <1>6 DEF Content, GoTo
  <1>7. ASSUME NEW r \in Requests, ReleasedGrantCapability(r) PROVE PairSound(q, z)'
    BY <1>7 DEF ReleasedGrantCapability, GoTo
  <1>8. ASSUME NEW r \in Requests, AssertNode(r) PROVE PairSound(q, z)'
    BY <1>8 DEF AssertNode, GoTo
  <1>9. ASSUME NEW r \in Requests, ContextReply(r) PROVE PairSound(q, z)'
    BY <1>9 DEF ContextReply, GoTo
  <1>10. ASSUME NEW r \in Requests, LockSocket(r) PROVE PairSound(q, z)'
    BY <1>10 DEF LockSocket, GoTo
  <1>11. ASSUME NEW r \in Requests, LockRow(r) PROVE PairSound(q, z)'
    BY <1>11 DEF LockRow, GoTo, ReleaseLocks
  <1>12. ASSUME NEW r \in Requests, StartUpdate(r) PROVE PairSound(q, z)'
    BY <1>12 DEF StartUpdate, GoTo, ReleaseLocks
  <1>13. ASSUME NEW r \in Requests, NEW heard \in BOOLEAN, StartCommit(r, heard)
       PROVE  PairSound(q, z)'
    BY <1>13 DEF StartCommit, GoTo, ReleaseLocks
  <1>14. ASSUME NEW r \in Requests, CaptureContextCurrent(r) PROVE PairSound(q, z)'
    BY <1>14 DEF CaptureContextCurrent, GoTo
  <1>15. ASSUME NEW r \in Requests, WriteWire(r) PROVE PairSound(q, z)'
    BY <1>15 DEF WriteWire, GoTo
  <1>16. ASSUME NEW r \in Requests, NoteRead(r) PROVE PairSound(q, z)'
    BY <1>16 DEF NoteRead, GoTo, Answer
  <1>17. ASSUME NEW r \in Requests, NEW heard \in BOOLEAN, NoteWrite(r, heard)
       PROVE  PairSound(q, z)'
    BY <1>17 DEF NoteWrite, GoTo, Answer
  <1>18. ASSUME NEW r \in Requests, Done(r) PROVE PairSound(q, z)'
    BY <1>18 DEF Done, Answer
  <1>19. ASSUME NEW r \in Requests, Fails(r) PROVE PairSound(q, z)'
    BY <1>19 DEF Fails, GoTo, Answer, ReleaseLocks
  <1>20. ASSUME NEW r \in Requests, Crash(r) PROVE PairSound(q, z)'
    BY <1>20 DEF Crash, GoTo, ReleaseLocks
  <1>21. ASSUME Tick PROVE PairSound(q, z)'
    BY <1>21 DEF Tick
  <1>22. ASSUME NEW p \in Procs, Publish(p) PROVE PairSound(q, z)'
    BY <1>22 DEF Publish
  <1>23. ASSUME NEW p \in Procs, Stop(p) PROVE PairSound(q, z)'
    BY <1>23 DEF Stop
  <1>24. ASSUME NEW p \in Procs, NEW s \in Sockets, Register(p, s) PROVE PairSound(q, z)'
    BY <1>24 DEF Register
  <1>25. ASSUME NEW s \in Sockets, RefreshContext(s) PROVE PairSound(q, z)'
    BY <1>25 DEF RefreshContext
  <1>26. CASE UNCHANGED vars
    BY <1>26 DEF vars, request
  <1> QED
    BY <1>1, <1>2, <1>3, <1>4, <1>5, <1>6, <1>7, <1>8, <1>9, <1>10, <1>11, <1>12,
       <1>13, <1>14, <1>15, <1>16, <1>17, <1>18, <1>19, <1>20, <1>21,
       <1>22, <1>23, <1>24, <1>25, <1>26
    DEF Next, Surroundings, Progress, Disturb

\* The inductive invariant: what the row, the locks, every request's stage and
\* every answer say of each other holds in every reachable state.
THEOREM SpecIndInv == Spec => []IndInv
  <1>1. IndInv /\ [Next]_vars => IndInv'
    BY StepType, StepRow, StepRequest, StepAnswer, StepPair DEF IndInv
  <1> QED BY <1>1, InitIndInv, PTL DEF Spec

\* The type invariant, for every value of the constants.
THEOREM SpecTypeOK == Spec => []TypeOK
  <1>1. IndInv => TypeOK
    BY DEF IndInv
  <1> QED BY <1>1, SpecIndInv, PTL

\* However many requests, retries and processes serve a preparation, its
\* message is written at most once.
THEOREM SpecAtMostOnce == Spec => []AtMostOnce
  <1>1. IndInv => AtMostOnce
    BY DEF IndInv, RowSound, AtMostOnce
  <1> QED BY <1>1, SpecIndInv, PTL

\* Nothing starts once the APP has been told of the expiry.
THEOREM SpecExpiredNeverStarts == Spec => []ExpiredNeverStarts
  <1>1. IndInv => ExpiredNeverStarts
    BY DEF IndInv, AnswerSound, ExpiredNeverStarts
  <1> QED BY <1>1, SpecIndInv, PTL

\* A written message is crash-evident and was released for dispatch.
THEOREM SpecWriteIsEvident == Spec => []WriteIsEvident
  <1>1. IndInv => WriteIsEvident
    BY DEF IndInv, RowSound, WriteIsEvident
  <1> QED BY <1>1, SpecIndInv, PTL

\* A successful return on the row stands for a written message.
THEOREM SpecReturnIsEvidence == Spec => []ReturnIsEvidence
  <1>1. IndInv => ReturnIsEvidence
    BY DEF IndInv, RowSound, ReturnIsEvidence
  <1> QED BY <1>1, SpecIndInv, PTL

\* Whoever is told of a consumption is told of its own material's.
THEOREM SpecToldOfOwnMaterial == Spec => []ToldOfOwnMaterial
  <1>1. IndInv => ToldOfOwnMaterial
    BY DEF IndInv, AnswerSound, ToldOfOwnMaterial
  <1> QED BY <1>1, SpecIndInv, PTL

\* The invariant leaves no cycle of waiting requests: who holds the row has
\* all it needs, and who holds only the Instance row finds the row free, since
\* whoever holds the row holds both.
LEMMA NobodyWaitsTwice == IndInv => NoDeadlock
  <1> SUFFICES ASSUME IndInv PROVE NoDeadlock
    OBVIOUS
  <1>1. /\ lockRow \in Requests \cup {NoRequest}
        /\ lockInstance \in Requests \cup {NoRequest}
        /\ \A r \in Requests :
             /\ lockInstance = r <=> pc[r] \in {"locking", "starting", "committing"}
             /\ lockRow = r <=> pc[r] \in {"starting", "committing"}
    BY DEF IndInv, TypeOK, RequestSound
  <1>2. ASSUME NEW q \in {lockRow, lockInstance} \ {NoRequest} PROVE UnderWay(q)
    BY <1>1, <1>2 DEF UnderWay
  <1>3. lockRow # NoRequest => WaitsFor(lockRow) = NoRequest
    BY <1>1 DEF WaitsFor
  <1>4. ASSUME lockInstance # NoRequest PROVE WaitsFor(lockInstance) = NoRequest
    <2>1. CASE pc[lockInstance] = "locking"
      <3>1. lockRow \notin Requests
        BY <1>1, <2>1
      <3> QED BY <1>1, <2>1, <3>1 DEF WaitsFor
    <2>2. CASE pc[lockInstance] # "locking"
      BY <1>1, <1>4, <2>2 DEF WaitsFor
    <2> QED BY <2>1, <2>2
  <1>5. ASSUME NEW r \in Requests, WaitsFor(r) # NoRequest
        PROVE  WaitsFor(WaitsFor(r)) = NoRequest
    <2>1. WaitsFor(r) \in {lockRow, lockInstance}
      BY <1>5 DEF WaitsFor
    <2> QED BY <1>3, <1>4, <1>5, <2>1
  <1> QED BY <1>2, <1>5 DEF NoDeadlock

\* No number of requests can wait for one another for ever.
THEOREM SpecNoDeadlock == Spec => []NoDeadlock
  BY NobodyWaitsTwice, SpecIndInv, PTL

\* How far a request has come: its stages in the only order it can pass them.
Position(stage) ==
  CASE stage = "idle" -> 0        [] stage = "consuming" -> 1
    [] stage = "claiming" -> 2    [] stage = "consumed" -> 3
    [] stage = "expiry" -> 4      [] stage = "content" -> 5
    [] stage = "released" -> 6    [] stage = "sending" -> 7
    [] stage = "context" -> 8     [] stage = "fencing" -> 9
    [] stage = "locking" -> 10    [] stage = "starting" -> 11
    [] stage = "committing" -> 12 [] stage = "started" -> 13
    [] stage = "permitted" -> 14  [] stage = "sent" -> 15
    [] stage = "noting_ok" -> 16  [] stage = "failed" -> 17
    [] stage = "noting_error" -> 18 [] stage = "done" -> 19
    [] OTHER -> 20

Forward(r) == Position(pc'[r]) > Position(pc[r])

\* Whatever a request does itself, and whatever befalls it, takes it forward.
LEMMA OwnStepForward ==
  ASSUME TypeOK, NEW r \in Requests, Progress(r) \/ Disturb(r)
  PROVE  /\ Forward(r)
         /\ \A q \in Requests \ {r} : pc'[q] = pc[q]
  <1>0. pc \in [Requests -> Stages] /\ pc[r] \in Stages
    BY DEF TypeOK
  <1> USE <1>0 DEF Forward, Position
  <1>1. CASE Receive(r)
    BY <1>1 DEF Receive, GoTo
  <1>2. CASE ConsumeRead(r)
    BY <1>2 DEF ConsumeRead, Replay, Observed, GoTo, Answer
  <1>3. CASE \E heard \in BOOLEAN : ConsumeWrite(r, heard)
    BY <1>3 DEF ConsumeWrite, Replay, Observed, GoTo, Answer
  <1>4. CASE DispatchRead(r) \/ ExpiryReadback(r) \/ Content(r)
    BY <1>4 DEF DispatchRead, ExpiryReadback, Content, GoTo, Answer
  <1>5. CASE ReleasedGrantCapability(r) \/ AssertNode(r) \/ ContextReply(r)
    BY <1>5 DEF ReleasedGrantCapability, AssertNode, ContextReply, GoTo
  <1>6. CASE LockSocket(r) \/ LockRow(r) \/ StartUpdate(r)
    BY <1>6 DEF LockSocket, LockRow, StartUpdate, GoTo
  <1>7. CASE \E heard \in BOOLEAN : StartCommit(r, heard)
    BY <1>7 DEF StartCommit, GoTo
  <1>8. CASE CaptureContextCurrent(r) \/ WriteWire(r) \/ NoteRead(r)
    BY <1>8 DEF CaptureContextCurrent, WriteWire, NoteRead, GoTo, Answer
  <1>9. CASE \E heard \in BOOLEAN : NoteWrite(r, heard)
    BY <1>9 DEF NoteWrite, GoTo, Answer
  <1>10. CASE Done(r) \/ Crash(r)
    BY <1>10 DEF Done, Crash, UnderWay, GoTo, Answer, Stages, Sending
  <1>11. CASE Fails(r)
    BY <1>11 DEF Fails, UnderWay, Stages, Sending, GoTo, Answer
  <1> QED
    BY <1>1, <1>2, <1>3, <1>4, <1>5, <1>6, <1>7, <1>8, <1>9, <1>10, <1>11
    DEF Progress, Disturb

\* One step of the system, as every request sees it.
MovesForward ==
  \A r \in Requests :
    /\ Progress(r) \/ Disturb(r) => Forward(r)
    /\ pc'[r] # pc[r] => Forward(r)

\* No request ever repeats a stage, whatever fails and whoever interferes: it
\* is answered, or lost with its process, after at most 20 steps of its own.
\* With SpecNoDeadlock that is the part of its termination that needs no
\* fairness: only a database or an APP that never answers can hold it.
THEOREM SpecMovesForward == Spec => [][MovesForward]_vars
  <1>1. ASSUME IndInv, [Next]_vars, NEW r \in Requests
        PROVE  /\ Progress(r) \/ Disturb(r) => Forward(r)
               /\ pc'[r] # pc[r] => Forward(r)
    <2>1. TypeOK
      BY <1>1 DEF IndInv
    <2>2. Progress(r) \/ Disturb(r) => Forward(r)
      BY <2>1, OwnStepForward
    <2>3. CASE \E q \in Requests : Progress(q) \/ Disturb(q)
      BY <2>1, <2>2, <2>3, OwnStepForward
    <2>4. CASE Surroundings \/ UNCHANGED vars
      <3>1. pc' = pc
        BY <2>4 DEF Surroundings, Tick, Publish, Stop, Register, RefreshContext, vars
      <3> QED BY <2>2, <3>1
    <2> QED BY <1>1, <2>3, <2>4 DEF Next
  <1>2. IndInv /\ [Next]_vars => [MovesForward]_vars
    BY <1>1 DEF MovesForward
  <1> QED BY <1>2, SpecIndInv, PTL DEF Spec

-----------------------------------------------------------------------------
\* What a step does to the row: nothing, or one of the three guarded updates.
LEMMA RowSteps ==
  ASSUME IndInv, [Next]_vars
  PROVE  \/ row' = row
         \/ \E r \in Requests, heard \in BOOLEAN :
              ConsumeWrite(r, heard) /\ row.consumption = NoMaterial
         \/ \E r \in Requests, heard \in BOOLEAN : StartCommit(r, heard)
         \/ \E r \in Requests, heard \in BOOLEAN :
              NoteWrite(r, heard) /\ row.state = "dispatch_started"
  <1>1. CASE UNCHANGED vars
    BY <1>1 DEF vars, database
  <1>2. CASE Surroundings
    BY <1>2 DEF Surroundings, Tick, Publish, Stop, Register, RefreshContext,
      database
  <1>3. ASSUME NEW r \in Requests, NEW heard \in BOOLEAN, ConsumeWrite(r, heard)
        PROVE  row' = row \/ row.consumption = NoMaterial
    BY <1>3 DEF ConsumeWrite
  <1>4. ASSUME NEW r \in Requests, NEW heard \in BOOLEAN, NoteWrite(r, heard)
        PROVE  row' = row \/ row.state = "dispatch_started"
    BY <1>4 DEF NoteWrite
  <1>5. ASSUME NEW r \in Requests, Progress(r) \/ Disturb(r)
        PROVE  \/ row' = row
               \/ \E heard \in BOOLEAN : \/ ConsumeWrite(r, heard)
                                         \/ StartCommit(r, heard)
                                         \/ NoteWrite(r, heard)
    BY <1>5 DEF Progress, Disturb, Receive, ConsumeRead, DispatchRead,
      ExpiryReadback, Content, ReleasedGrantCapability, AssertNode, ContextReply,
      LockSocket, LockRow, StartUpdate, CaptureContextCurrent, WriteWire,
      NoteRead, Done, Fails, Crash, database
  <1> QED BY <1>1, <1>2, <1>3, <1>4, <1>5 DEF Next

\* Only for the socket the database names as the owner does a dispatch start.
THEOREM SpecOnlyOwnerStarts == Spec => OnlyOwnerStarts
  <1> DEFINE Owned == ~ Started(row) /\ Started(row') =>
               \E r \in Requests : pc[r] = "committing" /\ own[r] = dbOwner
  <1>1. IndInv /\ [Next]_vars => [Owned]_row
    <2> SUFFICES ASSUME IndInv, [Next]_vars, row' # row,
                        ~ Started(row), Started(row')
                 PROVE  \E r \in Requests : pc[r] = "committing" /\ own[r] = dbOwner
      OBVIOUS
    <2>1. CASE \E r \in Requests, heard \in BOOLEAN : ConsumeWrite(r, heard)
                 /\ row.consumption = NoMaterial
      BY <2>1 DEF ConsumeWrite, Started
    <2>2. CASE \E r \in Requests, heard \in BOOLEAN : StartCommit(r, heard)
      BY <2>2 DEF StartCommit, IndInv, RequestSound
    <2>3. CASE row.state = "dispatch_started"
      BY <2>3 DEF Started
    <2> QED BY <2>1, <2>2, <2>3, RowSteps
  <1> QED BY <1>1, SpecIndInv, PTL DEF Spec, OnlyOwnerStarts

-----------------------------------------------------------------------------
\* The APP has been told of the expiry.
Told == \E r \in Requests : answer[r] = "expired"

\* Only sending writes.
LEMMA WriteSteps ==
  ASSUME [Next]_vars, writes' # writes
  PROVE  \E r \in Requests : WriteWire(r)
  <1>1. CASE UNCHANGED vars
    BY <1>1 DEF vars
  <1>2. CASE Surroundings
    BY <1>2 DEF Surroundings, Tick, Publish, Stop, Register, RefreshContext
  <1>3. ASSUME NEW r \in Requests, Progress(r) \/ Disturb(r) PROVE WriteWire(r)
    BY <1>3 DEF Progress, Disturb, Receive, ConsumeRead, ConsumeWrite,
      DispatchRead, ExpiryReadback, Content, ReleasedGrantCapability, AssertNode,
      ContextReply, LockSocket, LockRow, StartUpdate, StartCommit,
      CaptureContextCurrent, NoteRead, NoteWrite, Done, Fails, Crash
  <1> QED BY <1>1, <1>2, <1>3 DEF Next

\* An answer of r that is not the expiry tells nobody of it.
LEMMA AnswerTells ==
  ASSUME IndInv, NEW r \in Requests, NEW a, a # "expired",
         pc[r] # "answered", Answer(r, a)
  PROVE  Told' = Told
  BY DEF IndInv, TypeOK, RequestSound, Answer, Told

\* Only expiryReadback tells the APP of the expiry, before any start.
LEMMA ToldSteps ==
  ASSUME IndInv, [Next]_vars, Told' # Told
  PROVE  Told' /\ row' = row /\ writes' = writes /\ ~ Started(row)
         /\ row.consumption # NoMaterial
  <1>1. ~ UNCHANGED vars
    BY DEF vars, Told
  <1>2. ~ Surroundings
    BY DEF Surroundings, Tick, Publish, Stop, Register, RefreshContext, Told
  <1>3. ASSUME NEW r \in Requests, ExpiryReadback(r) PROVE ~ Started(row) /\ Told'
    <2>1. \A a : a # "expired" => ~ Answer(r, a)
      BY <1>3, AnswerTells DEF ExpiryReadback
    <2>2. Answer(r, "expired") /\ ~ Started(row)
      BY <1>3, <2>1 DEF ExpiryReadback, GoTo, Told
    <2> QED BY <2>2 DEF Answer, Told, IndInv, TypeOK
  <1>4. ASSUME NEW r \in Requests, Progress(r) \/ Disturb(r) PROVE ExpiryReadback(r)
    <2> USE <1>4, AnswerTells
    <2>1. CASE ConsumeRead(r)
      BY <2>1 DEF ConsumeRead, Replay, Observed, GoTo, Told
    <2>2. CASE \E heard \in BOOLEAN : ConsumeWrite(r, heard)
      BY <2>2 DEF ConsumeWrite, Replay, Observed, GoTo, Told
    <2>3. CASE DispatchRead(r)
      BY <2>3 DEF DispatchRead, GoTo, Told
    <2>4. CASE NoteRead(r) \/ Done(r)
      BY <2>4 DEF NoteRead, Done, GoTo, Told
    <2>5. CASE \E heard \in BOOLEAN : NoteWrite(r, heard)
      BY <2>5 DEF NoteWrite, GoTo, Told
    <2>6. CASE Fails(r)
      BY <2>6 DEF Fails, GoTo, Told, UnderWay
    <2>7. CASE answer' = answer
      BY <2>7 DEF Told
    <2> HIDE <1>4, AnswerTells
    <2> QED
      BY <1>4, <2>1, <2>2, <2>3, <2>4, <2>5, <2>6, <2>7
      DEF Progress, Disturb, Receive, Content, ReleasedGrantCapability, AssertNode,
        ContextReply, LockSocket, LockRow, StartUpdate, StartCommit,
        CaptureContextCurrent, WriteWire, Crash, GoTo
  <1>5. \E r \in Requests : ExpiryReadback(r)
    BY <1>1, <1>2, <1>4 DEF Next
  <1> QED
    BY <1>3, <1>5, DispatchConstants
    DEF ExpiryReadback, database, IndInv, RequestSound, Working

-----------------------------------------------------------------------------
\* The row and its transactions implement the promise of a preparation.
LEMMA InitPromise == Init => Promise!PromiseInit
  BY DEF Init, Promise!PromiseInit, Started

\* Every step is a step of the promise or leaves it as it is.
LEMMA StepPromise ==
  ASSUME IndInv, [Next]_vars
  PROVE  [Promise!PromiseNext]_(Promise!promiseVars)
  <1> USE DEF Promise!PromiseNext, Promise!promiseVars, Promise!Consume,
        Promise!Start, Promise!Write, Promise!TellExpired, Promise!Return
  <1>1. CASE row' # row
    <2>1. writes' = writes
      BY <1>1, WriteSteps DEF WriteWire, database
    <2>2. Told' = Told
      BY <1>1, ToldSteps
    <2>3. CASE \E r \in Requests, heard \in BOOLEAN :
                 ConsumeWrite(r, heard) /\ row.consumption = NoMaterial
      BY <1>1, <2>1, <2>2, <2>3, DispatchConstants
      DEF ConsumeWrite, Started, Told, IndInv, RowSound
    <2>4. CASE \E r \in Requests, heard \in BOOLEAN : StartCommit(r, heard)
      BY <2>1, <2>2, <2>4
      DEF StartCommit, Started, Told, IndInv, TypeOK, Rows, RequestSound, PairSound,
        Working, Sending
    <2>5. CASE \E r \in Requests, heard \in BOOLEAN :
                 NoteWrite(r, heard) /\ row.state = "dispatch_started"
      BY <2>1, <2>2, <2>5
      DEF NoteWrite, Started, Told, IndInv, TypeOK, Rows, RequestSound
    <2> QED BY <1>1, <2>3, <2>4, <2>5, RowSteps
  <1>2. CASE row' = row /\ writes' # writes
    <2>1. Told' = Told
      BY <1>2, ToldSteps
    <2> QED
      BY <1>2, <2>1, WriteSteps DEF WriteWire, Told, IndInv, RequestSound
  <1>3. CASE row' = row /\ writes' = writes /\ Told' # Told
    BY <1>3, ToldSteps DEF Told, Started
  <1>4. CASE row' = row /\ writes' = writes /\ Told' = Told
    BY <1>4 DEF Told, Started
  <1> QED BY <1>1, <1>2, <1>3, <1>4

\* Refinement: consumed once, started once and never after the expiry was
\* told, written at most once behind the start, evidenced once.
THEOREM SpecKeepsPromise == Spec => KeepsPromise
  <1>1. Init => Promise!PromiseInit
    BY InitPromise
  <1>2. IndInv /\ [Next]_vars => [Promise!PromiseNext]_(Promise!promiseVars)
    BY StepPromise
  <1> QED
    BY <1>1, <1>2, SpecIndInv, PTL DEF Spec, KeepsPromise, Promise!PromiseSpec

-----------------------------------------------------------------------------
(***************************************************************************)
(* The rows come to the dispatch from the preparation of their units, which*)
(* runs beside it at the same processes: AttendancePreparation, here over  *)
(* constants and variables of its own, of which row k is rows[k].  Its     *)
(* assumption on the constants is a hypothesis of its theorems.            *)
(***************************************************************************)
CONSTANTS Workers, Timers, NoStamp, MaxRows, MaxTries, MaxExchanges, MaxFaults
VARIABLES rows, event, app, collides, at, exchanges, faults
Prep == INSTANCE AttendancePreparation WITH row <- rows

\* A row exists only behind closed ones.
ChainInv ==
  \A j, k \in Prep!Rows : j < k /\ rows[k].state # "absent" => rows[j].state = "closed"

\* What a row says, its event and the APP bear out.
RowOK(k) ==
  /\ rows[k].state = "closed" => app[k] = "fenced"
  /\ app[k] = "fenced" => k \in collides
  /\ app[k] # "none" => rows[k].state # "absent"
  /\ rows[k].reservation => app[k] = "reserved"
  /\ rows[k].state \in {"reserved", "prepared", "later"} => rows[k].reservation
  /\ Prep!Frozen(k) <=> event[k] # NoStamp
  /\ rows[k].frozen = event[k]
  /\ rows[k].successor => rows[k].state = "closed" /\ k < MaxRows /\ rows[k + 1].state # "absent"
RowInv == \A k \in Prep!Rows : RowOK(k)

\* What a worker relies on between two awaits, with the local variables d.
Fit(d) ==
  /\ d.pc \in Prep!Asking \cup (Prep!Updating \ {"tried"}) \cup {"reread", "begin"} =>
       rows[d.k].state # "absent"
  /\ d.pc \in {"begin", "link"} =>
       d.seen.state # "absent" /\ (d.seen.state = "closed" => rows[d.k].state = "closed")
  /\ d.pc \in {"find", "context", "create", "link"} =>
       /\ d.pred.state = "closed" => d.k - 1 \in Prep!Rows /\ rows[d.k - 1].state = "closed"
       /\ d.pred.state # "closed" => d.k = 1
  /\ d.pc = "link" => d.pred.state = "closed"
  /\ d.pc = "reserved" => app[d.k] = "reserved"
  /\ d.pc = "closed" => app[d.k] = "fenced"
  /\ d.pc = "reread" =>
       /\ d.next \in {"reserve", "freeze", "closed"}
       /\ d.next = "closed" => rows[d.k].state = "closed"
  /\ d.pc \in {"failed", "tried"} => d.whence # 0
WorkerInv == \A w \in Workers : Fit(at[w])

PrepIndInv == Prep!PreparationConstants /\ Prep!TypeOK /\ ChainInv /\ RowInv /\ WorkerInv

-----------------------------------------------------------------------------
\* Rows stay, closed ones closed, and what the APP settled is settled.
Onward ==
  \A k \in Prep!Rows :
    /\ rows[k].state # "absent" => rows'[k].state # "absent"
    /\ rows[k].state = "closed" => rows'[k].state = "closed"
    /\ app[k] = "reserved" => app'[k] = "reserved"
    /\ app[k] = "fenced" => app'[k] = "fenced"

\* What a worker relies on lasts while the rest moves onward.
LEMMA FitOnward ==
  ASSUME Onward, NEW d \in Prep!Local, Fit(d)
  PROVE  Fit(d)'
  <1>1. d.k \in Prep!Rows
    BY DEF Prep!Local
  <1>2. /\ rows[d.k].state # "absent" => rows'[d.k].state # "absent"
        /\ rows[d.k].state = "closed" => rows'[d.k].state = "closed"
        /\ app[d.k] = "reserved" => app'[d.k] = "reserved"
        /\ app[d.k] = "fenced" => app'[d.k] = "fenced"
        /\ d.k - 1 \in Prep!Rows /\ rows[d.k - 1].state = "closed" => rows'[d.k - 1].state = "closed"
    BY <1>1 DEF Onward
  <1> QED BY <1>2 DEF Fit

\* Lines of the rows typed.
LEMMA PrepTyped ==
  ASSUME PrepIndInv
  PROVE  /\ \A k \in Prep!Rows : rows[k] \in Prep!Row /\ event[k] \in Prep!Stamps
         /\ \A w \in Workers : at[w] \in Prep!Local /\ Fit(at[w])
         /\ \A k \in Prep!Rows : k \in Nat /\ 1 <= k /\ k <= MaxRows
         /\ MaxRows \in Nat /\ 1 \in Prep!Rows /\ Prep!Rows = 1 .. MaxRows
  BY DEF PrepIndInv, Prep!TypeOK, WorkerInv, Prep!Rows, Prep!PreparationConstants

\* A worker goes on with d, while the rest moves onward.
LEMMA WorkersStep ==
  ASSUME PrepIndInv, Onward, NEW w \in Workers, NEW d \in Prep!Local, Prep!With(w, d), Fit(d)'
  PROVE  at' \in [Workers -> Prep!Local] /\ WorkerInv'
  <1>1. at' = [at EXCEPT ![w] = d] /\ at \in [Workers -> Prep!Local]
    BY DEF Prep!With, PrepIndInv, Prep!TypeOK
  <1>2. at' \in [Workers -> Prep!Local]
    BY <1>1
  <1>3. ASSUME NEW v \in Workers
        PROVE  Fit(at[v])'
    <2>1. CASE v = w
      <3>1. at'[v] = d
        BY <1>1, <2>1
      <3> QED BY <3>1 DEF Fit
    <2>2. CASE v # w
      <3>1. at[v] \in Prep!Local /\ Fit(at[v]) /\ at'[v] = at[v]
        BY <1>1, <2>2, PrepTyped
      <3>2. Fit(at[v]) /\ at[v] \in Prep!Local
        BY <3>1
      <3>3. ASSUME NEW f, f = at[v]
            PROVE  Fit(f)'
        BY <3>2, <3>3, FitOnward
      <3>4. ASSUME NEW f, f = at'[v], Fit(f)'
            PROVE  Fit(at[v])'
        BY <3>4 DEF Fit
      <3> QED BY <3>1, <3>3, <3>4
    <2> QED BY <2>1, <2>2
  <1> QED BY <1>2, <1>3 DEF WorkerInv

\* The worker without work, and the row that is not there, are of their types.
LEMMA PrepConstants ==
  ASSUME PrepIndInv
  PROVE  /\ Prep!Absent \in Prep!Row /\ Prep!Absent.state = "absent"
         /\ Prep!Idle \in Prep!Local /\ Prep!Idle.pc = "idle"
  BY DEF PrepIndInv, Prep!Absent, Prep!Row, Prep!States, Prep!Stamps, Prep!Idle, Prep!Local,
         Prep!Stages, Prep!Rows, Prep!Asking, Prep!Updating, Prep!PreparationConstants

\* A worker that ends relies on nothing.
LEMMA EndsStep ==
  ASSUME PrepIndInv, Onward, NEW w \in Workers, Prep!Ends(w)
  PROVE  at' \in [Workers -> Prep!Local] /\ WorkerInv'
  <1>0. PICK d : d = Prep!Idle
    OBVIOUS
  <1>1. d \in Prep!Local /\ d.pc = "idle" /\ Prep!With(w, d)
    BY <1>0, PrepConstants, PrepTyped DEF Prep!Ends
  <1>2. Fit(d)'
    BY <1>1 DEF Fit, Prep!Asking, Prep!Updating
  <1> QED BY <1>1, <1>2, WorkersStep

\* An exception ends an exchange, and leads a recovery to its catch.
LEMMA ThrowsStep ==
  ASSUME PrepIndInv, Onward, NEW w \in Workers, Prep!Throws(w)
  PROVE  at' \in [Workers -> Prep!Local] /\ WorkerInv'
  <1>1. CASE at[w].whence = 0
    BY <1>1, EndsStep DEF Prep!Throws
  <1>2. CASE at[w].whence # 0
    <2>0. PICK d : d = [at[w] EXCEPT !.pc = "failed"]
      OBVIOUS
    <2>1. at[w] \in Prep!Local
      BY PrepTyped
    <2>2. d \in Prep!Local /\ d.pc = "failed" /\ d.whence = at[w].whence /\ Prep!With(w, d)
      BY <1>2, <2>0, <2>1 DEF Prep!Throws, Prep!Local, Prep!Stages
      <2>3. Fit(d)'
      BY <1>2, <2>2 DEF Fit, Prep!Asking, Prep!Updating
    <2> QED BY <2>2, <2>3, WorkersStep
  <1> QED BY <1>1, <1>2

\* A closed row is not the last one: its candidate collided.
LEMMA ClosedHasNext ==
  ASSUME PrepIndInv, NEW k \in Prep!Rows, rows[k].state = "closed"
  PROVE  k + 1 \in Prep!Rows
  <1>1. k \in collides
    BY DEF PrepIndInv, RowInv, RowOK
  <1>2. k \in 1 .. MaxRows - 1 /\ MaxRows \in Nat
    BY <1>1, PrepTyped DEF PrepIndInv, Prep!TypeOK
  <1> QED BY <1>2 DEF Prep!Rows

\* prepare goes on with a row that is there, or with the next one behind a closed one.
LEMMA PrepareStep ==
  ASSUME PrepIndInv, Onward, NEW w \in Workers, NEW k \in Prep!Rows, NEW r \in Prep!Row,
         Prep!Prepare(w, k, r),
         rows'[k].state # "absent", r.state = "closed" => rows[k].state = "closed"
  PROVE  at' \in [Workers -> Prep!Local] /\ WorkerInv'
  <1> DEFINE c == [at[w] EXCEPT !.k = k, !.seen = r, !.pred = Prep!Absent]
  <1>1. at[w] \in Prep!Local /\ Prep!Absent \in Prep!Row /\ Prep!Absent.state = "absent" /\ k \in Nat
    BY PrepTyped, PrepConstants
  <1>2. c \in Prep!Local /\ c.k = k /\ c.seen = r /\ c.pred = Prep!Absent
    BY <1>1 DEF Prep!Local
  <1>3. CASE /\ r.state = "closed"
             /\ Prep!With(w, [c EXCEPT !.pc = "find", !.k = k + 1, !.seen = Prep!Absent, !.pred = r])
    <2> HIDE DEF c
    <2>0. PICK d : d = [c EXCEPT !.pc = "find", !.k = k + 1, !.seen = Prep!Absent, !.pred = r]
      OBVIOUS
    <2>1. k + 1 \in Prep!Rows /\ rows'[k].state = "closed"
      BY <1>3, ClosedHasNext DEF Onward
    <2>2. d \in Prep!Local /\ d.pc = "find" /\ d.k = k + 1 /\ d.pred = r /\ Prep!With(w, d)
      BY <1>1, <1>2, <1>3, <2>0, <2>1 DEF Prep!Local, Prep!Stages
      <2>3. d.k - 1 = k
      BY <1>1, <2>2
    <2>4. Fit(d)'
      BY <1>3, <2>1, <2>2, <2>3 DEF Fit, Prep!Asking, Prep!Updating
    <2> QED BY <2>2, <2>4, WorkersStep
  <1>4. CASE Prep!Ends(w)
    BY <1>4, EndsStep
  <1>5. ASSUME NEW stage \in {"attempt", "reserve", "freeze"}, Prep!With(w, [c EXCEPT !.pc = stage])
        PROVE  at' \in [Workers -> Prep!Local] /\ WorkerInv'
    <2> HIDE DEF c
    <2>0. PICK d : d = [c EXCEPT !.pc = stage]
      OBVIOUS
    <2>1. d \in Prep!Local /\ d.pc = stage /\ d.k = k /\ Prep!With(w, d)
      BY <1>2, <1>5, <2>0 DEF Prep!Local, Prep!Stages, Prep!Asking, Prep!Updating
      <2>2. Fit(d)'
      BY <2>1 DEF Fit
    <2> QED BY <2>1, <2>2, WorkersStep
  <1>6. ASSUME ~ (r.state = "closed"), ~ Prep!Ends(w)
        PROVE  \E stage \in {"attempt", "reserve", "freeze"} : Prep!With(w, [c EXCEPT !.pc = stage])
    BY <1>6 DEF Prep!Prepare
  <1> HIDE DEF c
  <1>7. r.state = "closed" =>
          Prep!With(w, [c EXCEPT !.pc = "find", !.k = k + 1, !.seen = Prep!Absent, !.pred = r])
    BY DEF Prep!Prepare, c
  <1> QED BY <1>3, <1>4, <1>5, <1>6, <1>7

\* What follows a draft: the note in its predecessor, the end, or prepare.
LEMMA DraftedStep ==
  ASSUME PrepIndInv, Onward, NEW w \in Workers, at[w].pc \in {"find", "create"},
         NEW r \in Prep!Row, Prep!Drafted(w, r),
         r.state # "absent", rows'[at[w].k].state # "absent",
         r.state = "closed" => rows[at[w].k].state = "closed"
  PROVE  at' \in [Workers -> Prep!Local] /\ WorkerInv'
  <1>1. at[w] \in Prep!Local /\ Fit(at[w]) /\ at[w].k \in Prep!Rows
    BY PrepTyped DEF Prep!Local
  <1>2. CASE at[w].pred.state = "closed" /\ ~ at[w].pred.successor
    <2>0. PICK d : d = [at[w] EXCEPT !.pc = "link", !.seen = r]
      OBVIOUS
    <2>1. d \in Prep!Local /\ d.pc = "link" /\ d.k = at[w].k /\ d.seen = r /\ d.pred = at[w].pred
      BY <1>1, <2>0 DEF Prep!Local, Prep!Stages, Prep!Updating
    <2>2. Prep!With(w, d)
      BY <1>2, <2>0 DEF Prep!Drafted
    <2>3. at[w].k - 1 \in Prep!Rows /\ rows'[at[w].k - 1].state = "closed"
      BY <1>1, <1>2 DEF Fit, Onward
    <2>4. r.state = "closed" => rows'[at[w].k].state = "closed"
      BY <1>1 DEF Onward
      <2>5. Fit(d)'
      BY <1>2, <2>1, <2>3, <2>4 DEF Fit
    <2> QED BY <2>1, <2>2, <2>5, WorkersStep
  <1>3. CASE Prep!Ends(w)
    BY <1>3, EndsStep
  <1>4. CASE Prep!Prepare(w, at[w].k, r)
    BY <1>1, <1>4, PrepareStep
  <1> QED BY <1>2, <1>3, <1>4 DEF Prep!Drafted

-----------------------------------------------------------------------------
\* Where neither row nor APP changes, nothing goes back.
LEMMA OnwardSame ==
  ASSUME rows' = rows, app' = app
  PROVE  Onward
  BY DEF Onward

\* A step that changes no row and nothing at the APP.
LEMMA LocalStep ==
  ASSUME PrepIndInv, UNCHANGED <<rows, event, app, collides>>, faults' \in Nat, exchanges' \in Nat,
         at' \in [Workers -> Prep!Local], WorkerInv'
  PROVE  PrepIndInv'
  <1>1. Prep!TypeOK'
    BY DEF PrepIndInv, Prep!TypeOK
  <1>2. ChainInv' /\ RowInv'
    BY DEF PrepIndInv, ChainInv, RowInv, RowOK, Prep!Frozen
  <1>3. Prep!PreparationConstants'
    BY DEF PrepIndInv, Prep!PreparationConstants
  <1> QED BY <1>1, <1>2, <1>3 DEF PrepIndInv

\* A worker goes to a stage at which it relies on nothing but its row.
LEMMA ToStep ==
  ASSUME PrepIndInv, Onward, NEW w \in Workers,
         NEW stage \in {"attempt", "reserve", "readback", "close",
                        "attempted", "reserved", "closed", "freeze"},
         Prep!To(w, stage), rows'[at[w].k].state # "absent",
         stage = "reserved" => app'[at[w].k] = "reserved", stage = "closed" => app'[at[w].k] = "fenced"
  PROVE  at' \in [Workers -> Prep!Local] /\ WorkerInv'
  <1>0. PICK d : d = [at[w] EXCEPT !.pc = stage]
    OBVIOUS
  <1>1. at[w] \in Prep!Local
    BY PrepTyped
  <1>2. d \in Prep!Local /\ d.pc = stage /\ d.k = at[w].k
    BY <1>0, <1>1 DEF Prep!Local, Prep!Stages, Prep!Asking, Prep!Updating
  <1>3. Prep!With(w, d)
    BY <1>0 DEF Prep!To
  <1>4. Fit(d)'
    BY <1>2 DEF Fit
  <1> QED BY <1>2, <1>3, <1>4, WorkersStep

\* The APP knows of a candidate only after its row, and what it settled stays.
LEMMA ToldStep ==
  ASSUME PrepIndInv, NEW w \in Workers, at[w].pc \in Prep!Asking, Prep!Told(w),
         UNCHANGED <<rows, event, collides>>
  PROVE  /\ app' \in [Prep!Rows -> {"none", "registered", "reserved", "fenced"}]
         /\ app'[at[w].k] = Prep!AfterRequest(w)
         /\ ChainInv' /\ RowInv' /\ Onward
  <1>0. PICK k : k = at[w].k
    OBVIOUS
  <1>1. k \in Prep!Rows /\ rows[k].state # "absent"
    BY <1>0, PrepTyped DEF Prep!Local, Fit
  <1>2. PICK a : a = Prep!AfterRequest(w)
    OBVIOUS
  <1>3. app[k] \in {"none", "registered", "reserved", "fenced"}
    BY <1>1 DEF PrepIndInv, Prep!TypeOK
  <1>4. /\ a \in {"none", "registered", "reserved", "fenced"}
        /\ app[k] = "reserved" => a = "reserved"
        /\ app[k] = "fenced" => a = "fenced"
        /\ a = "fenced" /\ app[k] # "fenced" => k \in collides
    BY <1>0, <1>2, <1>3 DEF Prep!AfterRequest, Prep!Registers, Prep!Reserves, Prep!Fences
  <1>5. /\ app' = [app EXCEPT ![k] = a]
        /\ app \in [Prep!Rows -> {"none", "registered", "reserved", "fenced"}]
    BY <1>0, <1>2 DEF Prep!Told, PrepIndInv, Prep!TypeOK
  <1>6. app' \in [Prep!Rows -> {"none", "registered", "reserved", "fenced"}]
    BY <1>4, <1>5
  <1>7. app'[k] = a /\ \A j \in Prep!Rows : j # k => app'[j] = app[j]
    BY <1>1, <1>5
  <1>8. RowOK(k)'
    <2>1. RowOK(k)
      BY <1>1 DEF PrepIndInv, RowInv
    <2> QED BY <1>1, <1>4, <1>7, <2>1 DEF RowOK, Prep!Frozen
  <1>9. ASSUME NEW j \in Prep!Rows, j # k
        PROVE  RowOK(j)'
    <2>1. RowOK(j)
      BY DEF PrepIndInv, RowInv
    <2> QED BY <1>7, <1>9, <2>1 DEF RowOK, Prep!Frozen
  <1>10. RowInv'
    BY <1>8, <1>9 DEF RowInv
  <1>11. ChainInv'
    BY DEF PrepIndInv, ChainInv
  <1>12. Onward
    <2> SUFFICES ASSUME NEW j \in Prep!Rows
                 PROVE  /\ app[j] = "reserved" => app'[j] = "reserved"
                        /\ app[j] = "fenced" => app'[j] = "fenced"
      BY DEF Onward
    <2> QED BY <1>4, <1>7
  <1> QED BY <1>0, <1>2, <1>6, <1>7, <1>10, <1>11, <1>12

\* A step that asks the APP.
LEMMA AppStep ==
  ASSUME PrepIndInv, UNCHANGED <<rows, event, collides>>, faults' \in Nat, exchanges' \in Nat,
         app' \in [Prep!Rows -> {"none", "registered", "reserved", "fenced"}],
         ChainInv', RowInv', at' \in [Workers -> Prep!Local], WorkerInv'
  PROVE  PrepIndInv'
  <1>1. Prep!TypeOK'
    BY DEF PrepIndInv, Prep!TypeOK
  <1>2. Prep!PreparationConstants'
    BY DEF PrepIndInv, Prep!PreparationConstants
  <1> QED BY <1>1, <1>2 DEF PrepIndInv

\* Faults are counted.
LEMMA FaultTyped ==
  ASSUME PrepIndInv, Prep!Fault
  PROVE  faults' \in Nat
  BY DEF PrepIndInv, Prep!TypeOK, Prep!Fault

\* A request and its answer keep the invariant.
LEMMA AskStep ==
  ASSUME PrepIndInv, NEW w \in Workers, Prep!Ask(w)
  PROVE  PrepIndInv'
  <1>1. /\ at[w].pc \in Prep!Asking /\ Prep!Told(w) /\ Prep!Answered(w, Prep!AfterRequest(w))
        /\ UNCHANGED <<rows, event, collides, exchanges, faults>>
    BY DEF Prep!Ask, Prep!stored
  <1>2. /\ app' \in [Prep!Rows -> {"none", "registered", "reserved", "fenced"}]
        /\ app'[at[w].k] = Prep!AfterRequest(w)
        /\ ChainInv' /\ RowInv' /\ Onward
    BY <1>1, ToldStep
  <1>3. rows'[at[w].k].state # "absent"
    BY <1>1, PrepTyped DEF Fit
  <1>4. ASSUME Prep!ToClose(w)
        PROVE  at' \in [Workers -> Prep!Local] /\ WorkerInv'
    BY <1>2, <1>3, <1>4, ToStep, ThrowsStep DEF Prep!ToClose
  <1>5. ASSUME Prep!To(w, "attempted")
        PROVE  at' \in [Workers -> Prep!Local] /\ WorkerInv'
    BY <1>2, <1>3, <1>5, ToStep
  <1>6. ASSUME Prep!AfterRequest(w) = "reserved" /\ Prep!To(w, "reserved")
        PROVE  at' \in [Workers -> Prep!Local] /\ WorkerInv'
    BY <1>2, <1>3, <1>6, ToStep
  <1>7. ASSUME Prep!With(w, [at[w] EXCEPT !.pc = "readback", !.conflict = TRUE])
        PROVE  at' \in [Workers -> Prep!Local] /\ WorkerInv'
    <2>0. PICK d : d = [at[w] EXCEPT !.pc = "readback", !.conflict = TRUE]
      OBVIOUS
    <2>1. at[w] \in Prep!Local
      BY PrepTyped
    <2>2. d \in Prep!Local /\ d.pc = "readback" /\ d.k = at[w].k /\ Prep!With(w, d)
      BY <1>7, <2>0, <2>1 DEF Prep!Local, Prep!Stages, Prep!Asking
    <2>3. Fit(d)'
      BY <1>3, <2>2 DEF Fit
    <2> QED BY <1>2, <2>2, <2>3, WorkersStep
  <1>8. ASSUME Prep!AfterRequest(w) = "fenced" /\ Prep!To(w, "closed")
        PROVE  at' \in [Workers -> Prep!Local] /\ WorkerInv'
    BY <1>2, <1>3, <1>8, ToStep
  <1>9. ASSUME Prep!Throws(w)
        PROVE  at' \in [Workers -> Prep!Local] /\ WorkerInv'
    BY <1>2, <1>9, ThrowsStep
  <1>10. at' \in [Workers -> Prep!Local] /\ WorkerInv'
    BY <1>1, <1>4, <1>5, <1>6, <1>7, <1>8, <1>9 DEF Prep!Answered, Prep!Readback
  <1>11. faults' \in Nat /\ exchanges' \in Nat
    BY <1>1 DEF PrepIndInv, Prep!TypeOK
  <1> QED BY <1>1, <1>2, <1>10, <1>11, AppStep

\* So does a request that is lost, or whose answer is.
LEMMA AskFailsStep ==
  ASSUME PrepIndInv, NEW w \in Workers, Prep!AskFails(w)
  PROVE  PrepIndInv'
  <1>1. /\ at[w].pc \in Prep!Asking /\ Prep!Fault /\ (Prep!Told(w) \/ UNCHANGED app)
        /\ IF at[w].pc = "reserve" THEN Prep!To(w, "readback") ELSE Prep!Throws(w)
        /\ UNCHANGED <<rows, event, collides, exchanges>>
    BY DEF Prep!AskFails, Prep!stored
  <1>2. /\ app' \in [Prep!Rows -> {"none", "registered", "reserved", "fenced"}]
        /\ ChainInv' /\ RowInv' /\ Onward
    <2>1. CASE Prep!Told(w)
      BY <1>1, <2>1, ToldStep
    <2>2. CASE UNCHANGED app
      BY <1>1, <2>2, OnwardSame DEF PrepIndInv, Prep!TypeOK, ChainInv, RowInv, RowOK, Prep!Frozen
    <2> QED BY <1>1, <2>1, <2>2
  <1>3. rows'[at[w].k].state # "absent"
    BY <1>1, PrepTyped DEF Fit
  <1>4. at' \in [Workers -> Prep!Local] /\ WorkerInv'
    BY <1>1, <1>2, <1>3, ToStep, ThrowsStep
  <1>5. faults' \in Nat /\ exchanges' \in Nat
    BY <1>1, FaultTyped DEF PrepIndInv, Prep!TypeOK
  <1> QED BY <1>1, <1>2, <1>4, <1>5, AppStep

-----------------------------------------------------------------------------
\* An update is of a row that is there; of a closed one, when its successor is noted.
LEMMA TargetTyped ==
  ASSUME PrepIndInv, NEW w \in Workers, at[w].pc \in Prep!Updating
  PROVE  /\ Prep!Target(w) \in Prep!Rows
         /\ at[w].pc # "tried" => rows[Prep!Target(w)].state # "absent"
         /\ at[w].pc = "link" => rows[Prep!Target(w)].state = "closed"
         /\ at[w].pc \notin {"link", "tried"} => Prep!Target(w) = at[w].k
         /\ at[w].pc = "link" => Prep!Target(w) = at[w].k - 1
  <1>1. /\ at[w] \in Prep!Local /\ Fit(at[w]) /\ at[w].k \in Prep!Rows
        /\ at[w].whence \in {0} \cup Prep!Rows
    BY PrepTyped DEF Prep!Local
  <1>2. CASE at[w].pc = "link"
    BY <1>1, <1>2 DEF Fit, Prep!Target
  <1>3. CASE at[w].pc = "tried"
    BY <1>1, <1>3 DEF Fit, Prep!Target
  <1>4. CASE at[w].pc \notin {"link", "tried"}
    BY <1>1, <1>4 DEF Fit, Prep!Target
  <1> QED BY <1>2, <1>3, <1>4

\* What an update makes of a row.
LEMMA ChangedShape ==
  ASSUME PrepIndInv, NEW w \in Workers, at[w].pc \in Prep!Updating
  PROVE  LET o == rows[Prep!Target(w)]  n == Prep!Changed(w)  stage == at[w].pc IN
         /\ n \in Prep!Row
         /\ n.state = IF stage = "reserved" THEN "reserved" ELSE IF stage = "closed" THEN "closed"
                      ELSE IF stage = "freeze" THEN "prepared" ELSE o.state
         /\ n.frozen = IF stage = "freeze" THEN w ELSE o.frozen
         /\ IF stage = "reserved" THEN n.reservation = TRUE ELSE n.reservation = o.reservation
         /\ IF stage = "link" THEN n.successor = TRUE ELSE n.successor = o.successor
  <1>1. PICK o : o = rows[Prep!Target(w)]
    OBVIOUS
  <1>2. o \in Prep!Row
    BY <1>1, TargetTyped, PrepTyped
  <1>3. PICK r : r = [o EXCEPT !.rev = o.rev + 1]
    OBVIOUS
  <1>4. /\ r \in Prep!Row /\ r.state = o.state /\ r.frozen = o.frozen /\ r.reservation = o.reservation
        /\ r.successor = o.successor /\ r.tries \in Nat
    BY <1>2, <1>3 DEF Prep!Row
  <1>5. PICK yes \in BOOLEAN : yes = TRUE
    OBVIOUS
  <1>6. PICK n : n = Prep!Changed(w)
    OBVIOUS
  <1>7. CASE at[w].pc = "attempted"
    <2>1. n = [r EXCEPT !.attempt = yes]
      BY <1>1, <1>3, <1>5, <1>6, <1>7 DEF Prep!Changed
    <2>2. /\ n \in Prep!Row /\ n.state = r.state /\ n.frozen = r.frozen
          /\ n.reservation = r.reservation /\ n.successor = r.successor
      BY <1>4, <2>1 DEF Prep!Row
    <2> QED BY <1>1, <1>4, <1>6, <1>7, <2>2
  <1>8. CASE at[w].pc = "reserved"
    <2>1. n = [r EXCEPT !.reservation = yes, !.state = "reserved"]
      BY <1>1, <1>3, <1>5, <1>6, <1>8 DEF Prep!Changed
    <2>2. /\ n \in Prep!Row /\ n.state = "reserved" /\ n.frozen = r.frozen
          /\ n.reservation = yes /\ n.successor = r.successor
      BY <1>4, <2>1 DEF Prep!Row, Prep!States
    <2> QED BY <1>1, <1>4, <1>5, <1>6, <1>8, <2>2
  <1>9. CASE at[w].pc = "closed"
    <2>1. n = [r EXCEPT !.state = "closed"]
      BY <1>1, <1>3, <1>6, <1>9 DEF Prep!Changed
    <2>2. /\ n \in Prep!Row /\ n.state = "closed" /\ n.frozen = r.frozen
          /\ n.reservation = r.reservation /\ n.successor = r.successor
      BY <1>4, <2>1 DEF Prep!Row, Prep!States
    <2> QED BY <1>1, <1>4, <1>6, <1>9, <2>2
  <1>10. CASE at[w].pc = "freeze"
    <2>1. n = [r EXCEPT !.state = "prepared", !.frozen = w]
      BY <1>1, <1>3, <1>6, <1>10 DEF Prep!Changed
    <2>2. /\ n \in Prep!Row /\ n.state = "prepared" /\ n.frozen = w
          /\ n.reservation = r.reservation /\ n.successor = r.successor
      BY <1>4, <2>1 DEF Prep!Row, Prep!States, Prep!Stamps
    <2> QED BY <1>1, <1>4, <1>6, <1>10, <2>2
  <1>11. CASE at[w].pc = "link"
    <2>1. n = [r EXCEPT !.successor = yes]
      BY <1>1, <1>3, <1>5, <1>6, <1>11 DEF Prep!Changed
    <2>2. /\ n \in Prep!Row /\ n.state = r.state /\ n.frozen = r.frozen
          /\ n.reservation = r.reservation /\ n.successor = yes
      BY <1>4, <2>1 DEF Prep!Row
    <2> QED BY <1>1, <1>4, <1>5, <1>6, <1>11, <2>2
  <1>12. CASE at[w].pc = "tried"
    <2>1. n = [r EXCEPT !.tries = r.tries + 1]
      BY <1>1, <1>3, <1>6, <1>12 DEF Prep!Changed
    <2>2. /\ n \in Prep!Row /\ n.state = r.state /\ n.frozen = r.frozen
          /\ n.reservation = r.reservation /\ n.successor = r.successor
      BY <1>4, <2>1 DEF Prep!Row
    <2> QED BY <1>1, <1>4, <1>6, <1>12, <2>2
  <1> QED BY <1>7, <1>8, <1>9, <1>10, <1>11, <1>12 DEF Prep!Updating

\* An update that compares and passes the trigger keeps the chain and its rows.
LEMMA WrittenStep ==
  ASSUME PrepIndInv, NEW w \in Workers, at[w].pc \in Prep!Updating, Prep!Updates(w),
         Prep!Written(w), UNCHANGED <<app, collides>>
  PROVE  /\ rows' \in [Prep!Rows -> Prep!Row] /\ event' \in [Prep!Rows -> Prep!Stamps]
         /\ ChainInv' /\ RowInv' /\ Onward
         /\ at[w].pc = "closed" => rows'[at[w].k].state = "closed"
  <1>1. PICK t : t = Prep!Target(w)
    OBVIOUS
  <1>2. PICK o : o = rows[t]
    OBVIOUS
  <1>3. PICK n : n = Prep!Changed(w)
    OBVIOUS
  <1>4. PICK stage : stage = at[w].pc
    OBVIOUS
  <1>5. /\ t \in Prep!Rows
        /\ stage # "tried" => o.state # "absent"
        /\ stage = "link" => o.state = "closed"
        /\ stage \notin {"link", "tried"} => t = at[w].k
        /\ stage = "link" => t = at[w].k - 1
    BY <1>1, <1>2, <1>4, TargetTyped
  <1>6. /\ n \in Prep!Row
        /\ n.state = IF stage = "reserved" THEN "reserved" ELSE IF stage = "closed" THEN "closed"
                     ELSE IF stage = "freeze" THEN "prepared" ELSE o.state
        /\ n.frozen = IF stage = "freeze" THEN w ELSE o.frozen
        /\ IF stage = "reserved" THEN n.reservation = TRUE ELSE n.reservation = o.reservation
        /\ IF stage = "link" THEN n.successor = TRUE ELSE n.successor = o.successor
    BY <1>1, <1>2, <1>3, <1>4, ChangedShape
  <1>7. /\ o.successor => n.successor
        /\ n.successor => n.state = "closed"
        /\ o.frozen # NoStamp => n.frozen = o.frozen
        /\ n.state = o.state \/ <<o.state, n.state>> \in Prep!Moves
    BY <1>1, <1>2, <1>3 DEF Prep!Updates, Prep!Guarded
  <1>8. rows' = [rows EXCEPT ![t] = n] /\ rows \in [Prep!Rows -> Prep!Row]
    BY <1>1, <1>3 DEF Prep!Written, PrepIndInv, Prep!TypeOK
  <1>9. /\ rows'[t] = n /\ rows' \in [Prep!Rows -> Prep!Row]
        /\ \A j \in Prep!Rows : j # t => rows'[j] = rows[j]
    BY <1>5, <1>6, <1>8
  <1>10. /\ event' \in [Prep!Rows -> Prep!Stamps]
         /\ \A j \in Prep!Rows : j # t => event'[j] = event[j]
         /\ IF stage = "freeze" THEN event'[t] = w /\ event[t] \in {NoStamp, w} ELSE event'[t] = event[t]
    <2>1. event \in [Prep!Rows -> Prep!Stamps] /\ w \in Prep!Stamps
      BY DEF PrepIndInv, Prep!TypeOK, Prep!Stamps
    <2>2. CASE stage = "freeze"
      BY <1>4, <1>5, <2>1, <2>2 DEF Prep!Written, Prep!Updates, Prep!Enqueued
    <2>3. CASE stage # "freeze"
      BY <1>4, <1>5, <2>1, <2>3 DEF Prep!Written
    <2> QED BY <2>2, <2>3
  <1>11. /\ o.state = "closed" => n.state = "closed"
         /\ o.state # "absent" => n.state # "absent"
         /\ n.state # "absent" => o.state # "absent"
    <2>1. <<o.state, n.state>> \in Prep!Moves =>
            \/ o.state = "draft" /\ n.state \in {"reserved", "closed"}
            \/ o.state = "reserved" /\ n.state = "prepared"
            \/ o.state = "prepared" /\ n.state = "later"
      BY DEF Prep!Moves
    <2> QED BY <1>5, <1>6, <1>7, <2>1
  <1>12. Onward
    BY <1>2, <1>9, <1>11 DEF Onward
  <1>13. ChainInv'
    BY <1>2, <1>9, <1>11 DEF PrepIndInv, ChainInv
  <1>14. RowOK(t)'
    <2>1. RowOK(t)
      BY <1>5 DEF PrepIndInv, RowInv
    <2>2. Fit(at[w])
      BY PrepTyped
    <2>3. n.state = "closed" => app[t] = "fenced"
      <3>1. stage = "closed" => app[t] = "fenced"
        BY <1>4, <1>5, <2>2 DEF Fit
      <3> QED BY <1>2, <1>6, <2>1, <3>1 DEF RowOK
    <2>4. n.reservation => app[t] = "reserved"
      <3>1. stage = "reserved" => app[t] = "reserved"
        BY <1>4, <1>5, <2>2 DEF Fit
      <3> QED BY <1>2, <1>6, <2>1, <3>1 DEF RowOK
    <2>5. n.state \in {"reserved", "prepared", "later"} => n.reservation
      <3>1. stage = "freeze" => o.state \in {"reserved", "prepared"}
        BY <1>6, <1>7 DEF Prep!Moves
      <3> QED BY <1>2, <1>6, <2>1, <3>1 DEF RowOK
    <2>6. /\ n.state \in {"prepared", "later"} <=> event'[t] # NoStamp
          /\ n.frozen = event'[t]
      <3>1. w # NoStamp
        BY DEF PrepIndInv, Prep!PreparationConstants
      <3>2. o.state \in {"prepared", "later"} <=> event[t] # NoStamp
        BY <1>2, <2>1 DEF RowOK, Prep!Frozen
      <3>3. CASE stage = "freeze"
        BY <1>6, <1>10, <3>1, <3>3
      <3>4. CASE stage # "freeze"
        <4>1. o.frozen = event[t] /\ n.frozen = o.frozen /\ event'[t] = event[t]
          BY <1>2, <1>6, <1>10, <2>1, <3>4 DEF RowOK
        <4>2. o.state \in {"prepared", "later"} <=> n.state \in {"prepared", "later"}
          BY <1>6, <1>7, <3>4 DEF Prep!Moves
        <4> QED BY <3>2, <4>1, <4>2
      <3> QED BY <3>3, <3>4
    <2>7. n.successor => n.state = "closed" /\ t < MaxRows /\ rows'[t + 1].state # "absent"
      <3> SUFFICES ASSUME n.successor
                   PROVE  t < MaxRows /\ rows'[t + 1].state # "absent"
        BY <1>7
      <3>1. t < MaxRows /\ rows[t + 1].state # "absent"
        <4>1. CASE stage = "link"
          <5>1. rows[at[w].k].state # "absent" /\ at[w].k \in Prep!Rows
            BY <1>4, <2>2, <4>1, PrepTyped DEF Fit, Prep!Updating, Prep!Local
          <5> QED BY <1>5, <4>1, <5>1, PrepTyped
        <4>2. CASE stage # "link"
          BY <1>2, <1>6, <2>1, <4>2 DEF RowOK
        <4> QED BY <4>1, <4>2
      <3>2. t + 1 \in Prep!Rows
        BY <1>5, <3>1, PrepTyped
      <3> QED BY <1>12, <3>1, <3>2 DEF Onward
    <2>8. app[t] # "none" => n.state # "absent"
      BY <1>2, <1>11, <2>1 DEF RowOK
    <2>9. app[t] = "fenced" => t \in collides
      BY <2>1 DEF RowOK
    <2> QED BY <1>9, <2>3, <2>4, <2>5, <2>6, <2>7, <2>8, <2>9 DEF RowOK, Prep!Frozen
  <1>15. ASSUME NEW j \in Prep!Rows, j # t
         PROVE  RowOK(j)'
    <2>1. RowOK(j)
      BY DEF PrepIndInv, RowInv
    <2>2. rows'[j] = rows[j] /\ event'[j] = event[j]
      BY <1>9, <1>10, <1>15
    <2>3. rows[j].successor => rows'[j + 1].state # "absent"
      <3>1. rows[j].successor => j + 1 \in Prep!Rows /\ rows[j + 1].state # "absent"
        BY <2>1, PrepTyped DEF RowOK
      <3> QED BY <1>12, <3>1 DEF Onward
    <2> QED BY <2>1, <2>2, <2>3 DEF RowOK, Prep!Frozen
  <1>16. RowInv'
    BY <1>14, <1>15 DEF RowInv
  <1>17. at[w].pc = "closed" => rows'[at[w].k].state = "closed"
    BY <1>4, <1>5, <1>6, <1>9
  <1> QED BY <1>9, <1>10, <1>12, <1>13, <1>16, <1>17

-----------------------------------------------------------------------------
\* A draft is created behind closed rows only.
LEMMA CreatedStep ==
  ASSUME PrepIndInv, NEW w \in Workers, at[w].pc = "create", rows[at[w].k].state = "absent",
         rows' = [rows EXCEPT ![at[w].k].state = "draft"], UNCHANGED <<event, app, collides>>
  PROVE  /\ rows' \in [Prep!Rows -> Prep!Row] /\ ChainInv' /\ RowInv' /\ Onward
         /\ rows'[at[w].k].state = "draft"
  <1>1. PICK k : k = at[w].k
    OBVIOUS
  <1>2. k \in Prep!Rows /\ at[w] \in Prep!Local /\ Fit(at[w])
    BY <1>1, PrepTyped DEF Prep!Local
  <1>3. PICK r : r = [rows[k] EXCEPT !.state = "draft"]
    OBVIOUS
  <1>4. /\ r \in Prep!Row /\ r.state = "draft" /\ r.reservation = rows[k].reservation
        /\ r.frozen = rows[k].frozen /\ r.successor = rows[k].successor
    BY <1>2, <1>3, PrepTyped DEF Prep!Row, Prep!States
  <1>5. rows' = [rows EXCEPT ![k] = r] /\ rows \in [Prep!Rows -> Prep!Row]
    BY <1>1, <1>3 DEF PrepIndInv, Prep!TypeOK
  <1>6. /\ rows'[k] = r /\ rows' \in [Prep!Rows -> Prep!Row]
        /\ \A j \in Prep!Rows : j # k => rows'[j] = rows[j]
    BY <1>2, <1>4, <1>5
  <1>7. Onward
    BY <1>1, <1>4, <1>6 DEF Onward
  <1>8. \A j \in Prep!Rows : j < k => rows[j].state = "closed"
    <2>1. CASE at[w].pred.state = "closed"
      <3>1. k - 1 \in Prep!Rows /\ rows[k - 1].state = "closed"
        BY <1>1, <1>2, <2>1 DEF Fit
      <3>2. \A j \in Prep!Rows : j < k => j = k - 1 \/ j < k - 1
        BY <1>2, PrepTyped
      <3> QED BY <3>1, <3>2 DEF PrepIndInv, ChainInv
    <2>2. CASE at[w].pred.state # "closed"
      BY <1>1, <1>2, <2>2, PrepTyped DEF Fit
    <2> QED BY <2>1, <2>2
  <1>9. ChainInv'
    <2> SUFFICES ASSUME NEW i \in Prep!Rows, NEW j \in Prep!Rows, i < j, rows'[j].state # "absent"
                 PROVE  rows'[i].state = "closed"
      BY DEF ChainInv
    <2>1. CASE j = k
      BY <1>6, <1>8, <2>1, PrepTyped
    <2>2. CASE j # k
      <3>1. rows[i].state = "closed"
        BY <1>6, <2>2 DEF PrepIndInv, ChainInv
      <3>2. i # k
        BY <1>1, <3>1
      <3> QED BY <1>6, <3>1, <3>2
    <2> QED BY <2>1, <2>2
  <1>10. RowOK(k)'
    <2>1. RowOK(k)
      BY <1>2 DEF PrepIndInv, RowInv
    <2> QED BY <1>1, <1>4, <1>6, <2>1 DEF RowOK, Prep!Frozen
  <1>11. ASSUME NEW j \in Prep!Rows, j # k
         PROVE  RowOK(j)'
    <2>1. RowOK(j) /\ rows'[j] = rows[j]
      BY <1>6, <1>11 DEF PrepIndInv, RowInv
    <2>2. rows[j].successor => rows'[j + 1].state # "absent"
      <3>1. rows[j].successor => j + 1 \in Prep!Rows /\ rows[j + 1].state # "absent"
        BY <2>1, PrepTyped DEF RowOK
      <3> QED BY <1>7, <3>1 DEF Onward
    <2> QED BY <2>1, <2>2 DEF RowOK, Prep!Frozen
  <1> QED BY <1>1, <1>4, <1>6, <1>7, <1>9, <1>10, <1>11 DEF RowInv

\* A step that writes to the database.
LEMMA StoredStep ==
  ASSUME PrepIndInv, rows' \in [Prep!Rows -> Prep!Row], event' \in [Prep!Rows -> Prep!Stamps],
         UNCHANGED <<app, collides>>,
         faults' \in Nat, exchanges' \in Nat, ChainInv', RowInv',
         at' \in [Workers -> Prep!Local], WorkerInv'
  PROVE  PrepIndInv'
  <1>1. Prep!TypeOK'
    BY DEF PrepIndInv, Prep!TypeOK
  <1>2. Prep!PreparationConstants'
    BY DEF PrepIndInv, Prep!PreparationConstants
  <1> QED BY <1>1, <1>2 DEF PrepIndInv

-----------------------------------------------------------------------------
\* A new exchange keeps the invariant: it looks for the first row.
LEMMA ExchangeStep ==
  ASSUME PrepIndInv, NEW w \in Workers, Prep!Exchange(w)
  PROVE  PrepIndInv'
  <1>1. /\ UNCHANGED <<rows, event, app, collides, faults>> /\ exchanges' = exchanges + 1
        /\ Prep!With(w, [Prep!Idle EXCEPT !.pc = "find"])
    BY DEF Prep!Exchange, Prep!stored
  <1>2. PICK d : d = [Prep!Idle EXCEPT !.pc = "find"]
    OBVIOUS
  <1>3. Prep!Idle \in Prep!Local /\ Prep!Idle.k = 1 /\ Prep!Idle.pred.state = "absent"
    BY PrepConstants DEF Prep!Idle, Prep!Absent
  <1>4. d \in Prep!Local /\ d.pc = "find" /\ d.k = 1 /\ d.pred.state = "absent" /\ Prep!With(w, d)
    BY <1>1, <1>2, <1>3 DEF Prep!Local, Prep!Stages
  <1>5. Fit(d)'
    BY <1>4 DEF Fit, Prep!Asking, Prep!Updating
  <1>6. at' \in [Workers -> Prep!Local] /\ WorkerInv'
    BY <1>1, <1>4, <1>5, OnwardSame, WorkersStep
  <1>7. exchanges' \in Nat /\ faults' \in Nat
    BY <1>1 DEF PrepIndInv, Prep!TypeOK
  <1> QED BY <1>1, <1>6, <1>7, LocalStep

\* The timer keeps it: it takes a row up as its query found it.
LEMMA RecoverStep ==
  ASSUME PrepIndInv, NEW w \in Workers, NEW k \in Prep!Rows, Prep!Recover(w, k)
  PROVE  PrepIndInv'
  <1>1. /\ UNCHANGED <<rows, event, app, collides, exchanges, faults>> /\ Prep!Unfinished(k)
        /\ Prep!With(w, [Prep!Idle EXCEPT !.pc = "begin", !.k = k, !.seen = rows[k], !.whence = k])
    BY DEF Prep!Recover, Prep!stored
  <1>2. PICK d : d = [Prep!Idle EXCEPT !.pc = "begin", !.k = k, !.seen = rows[k], !.whence = k]
    OBVIOUS
  <1>3. Prep!Idle \in Prep!Local /\ rows[k] \in Prep!Row /\ rows[k].state # "absent"
    BY <1>1, PrepConstants, PrepTyped DEF Prep!Unfinished
  <1>4. d \in Prep!Local /\ d.pc = "begin" /\ d.k = k /\ d.seen = rows[k] /\ Prep!With(w, d)
    BY <1>1, <1>2, <1>3 DEF Prep!Local, Prep!Stages
  <1>5. rows' = rows
    BY <1>1
  <1>6. Fit(d)'
    BY <1>3, <1>4, <1>5 DEF Fit
  <1>7. at' \in [Workers -> Prep!Local] /\ WorkerInv'
    BY <1>1, <1>4, <1>6, OnwardSame, WorkersStep
  <1>8. exchanges' \in Nat /\ faults' \in Nat
    BY <1>1 DEF PrepIndInv, Prep!TypeOK
  <1> QED BY <1>1, <1>7, <1>8, LocalStep

\* A recovery that prepares its row keeps it, though the row may have gone on.
LEMMA BeginStep ==
  ASSUME PrepIndInv, NEW w \in Workers, Prep!Begin(w)
  PROVE  PrepIndInv'
  <1>1. /\ UNCHANGED <<rows, event, app, collides, exchanges, faults>>
        /\ at[w].pc = "begin" /\ Prep!Prepare(w, at[w].k, at[w].seen)
    BY DEF Prep!Begin, Prep!stored
  <1>2. /\ at[w].k \in Prep!Rows /\ at[w].seen \in Prep!Row /\ rows[at[w].k].state # "absent"
        /\ at[w].seen.state = "closed" => rows[at[w].k].state = "closed"
    BY <1>1, PrepTyped DEF Prep!Local, Fit
  <1>3. at' \in [Workers -> Prep!Local] /\ WorkerInv'
    BY <1>1, <1>2, OnwardSame, PrepareStep
  <1>4. exchanges' \in Nat /\ faults' \in Nat
    BY <1>1 DEF PrepIndInv, Prep!TypeOK
  <1> QED BY <1>1, <1>3, <1>4, LocalStep

\* Looking for a draft keeps it: what is to be created has closed predecessors.
LEMMA FindStep ==
  ASSUME PrepIndInv, NEW w \in Workers, Prep!Find(w)
  PROVE  PrepIndInv'
  <1>1. /\ UNCHANGED <<rows, event, app, collides, exchanges, faults>> /\ at[w].pc = "find"
        /\ IF rows[at[w].k].state # "absent" THEN Prep!Drafted(w, rows[at[w].k])
           ELSE Prep!With(w, [at[w] EXCEPT !.pc =
                                IF at[w].pred.state = "closed" THEN "create" ELSE "context"])
    BY DEF Prep!Find, Prep!stored
  <1>2. at[w] \in Prep!Local /\ at[w].k \in Prep!Rows /\ rows[at[w].k] \in Prep!Row /\ Fit(at[w])
    BY PrepTyped DEF Prep!Local
  <1>3. Onward
    BY <1>1, OnwardSame
  <1>4. CASE rows[at[w].k].state # "absent"
    <2>1. at' \in [Workers -> Prep!Local] /\ WorkerInv'
      BY <1>1, <1>2, <1>3, <1>4, DraftedStep
    <2>2. exchanges' \in Nat /\ faults' \in Nat
      BY <1>1 DEF PrepIndInv, Prep!TypeOK
    <2> QED BY <1>1, <2>1, <2>2, LocalStep
  <1>5. CASE rows[at[w].k].state = "absent"
    <2>1. PICK stage \in {"create", "context"} :
            stage = IF at[w].pred.state = "closed" THEN "create" ELSE "context"
      OBVIOUS
    <2>2. PICK d : d = [at[w] EXCEPT !.pc = stage]
      OBVIOUS
    <2>3. d \in Prep!Local /\ d.pc = stage /\ d.k = at[w].k /\ d.pred = at[w].pred /\ Prep!With(w, d)
      BY <1>1, <1>2, <1>5, <2>1, <2>2 DEF Prep!Local, Prep!Stages
    <2>4. Fit(d)
      BY <1>1, <1>2, <2>3 DEF Fit, Prep!Asking, Prep!Updating
    <2>5. at' \in [Workers -> Prep!Local] /\ WorkerInv'
      BY <1>3, <2>3, <2>4, FitOnward, WorkersStep
    <2>6. exchanges' \in Nat /\ faults' \in Nat
      BY <1>1 DEF PrepIndInv, Prep!TypeOK
    <2> QED BY <1>1, <2>5, <2>6, LocalStep
  <1> QED BY <1>4, <1>5

\* Refreshing the context keeps it.
LEMMA ContextStep ==
  ASSUME PrepIndInv, NEW w \in Workers, Prep!Context(w)
  PROVE  PrepIndInv'
  <1>1. /\ UNCHANGED <<rows, event, app, collides, exchanges, faults>> /\ at[w].pc = "context"
        /\ Prep!With(w, [at[w] EXCEPT !.pc = "create"]) \/ Prep!Throws(w)
    BY DEF Prep!Context, Prep!stored
  <1>2. Onward
    BY <1>1, OnwardSame
  <1>3. ASSUME Prep!With(w, [at[w] EXCEPT !.pc = "create"])
        PROVE  at' \in [Workers -> Prep!Local] /\ WorkerInv'
    <2>1. PICK d : d = [at[w] EXCEPT !.pc = "create"]
      OBVIOUS
    <2>2. at[w] \in Prep!Local /\ Fit(at[w])
      BY PrepTyped
    <2>3. /\ d \in Prep!Local /\ d.pc = "create" /\ d.k = at[w].k /\ d.pred = at[w].pred
          /\ Prep!With(w, d)
      BY <1>3, <2>1, <2>2 DEF Prep!Local, Prep!Stages
    <2>4. Fit(d)
      BY <1>1, <2>2, <2>3 DEF Fit, Prep!Asking, Prep!Updating
    <2> QED BY <1>2, <2>3, <2>4, FitOnward, WorkersStep
  <1>4. at' \in [Workers -> Prep!Local] /\ WorkerInv'
    BY <1>1, <1>2, <1>3, ThrowsStep
  <1>5. exchanges' \in Nat /\ faults' \in Nat
    BY <1>1 DEF PrepIndInv, Prep!TypeOK
  <1> QED BY <1>1, <1>4, <1>5, LocalStep

\* Creating a draft keeps it, and so does losing the race for it.
LEMMA CreateStep ==
  ASSUME PrepIndInv, NEW w \in Workers, Prep!Create(w)
  PROVE  PrepIndInv'
  <1>1. at[w].pc = "create" /\ UNCHANGED <<event, app, collides, exchanges, faults>>
    BY DEF Prep!Create
  <1>2. exchanges' \in Nat /\ faults' \in Nat /\ event' \in [Prep!Rows -> Prep!Stamps]
    BY <1>1 DEF PrepIndInv, Prep!TypeOK
  <1>3. CASE rows[at[w].k].state = "absent"
    <2>1. PICK r : r = [Prep!Absent EXCEPT !.state = "draft"]
      OBVIOUS
    <2>2. r \in Prep!Row /\ r.state = "draft"
      BY <2>1, PrepConstants DEF Prep!Row, Prep!States
    <2>3. rows' = [rows EXCEPT ![at[w].k].state = "draft"] /\ Prep!Drafted(w, r)
      BY <1>3, <2>1 DEF Prep!Create
    <2>4. /\ rows' \in [Prep!Rows -> Prep!Row] /\ ChainInv' /\ RowInv' /\ Onward
          /\ rows'[at[w].k].state = "draft"
      BY <1>1, <1>3, <2>3, CreatedStep
    <2>5. at' \in [Workers -> Prep!Local] /\ WorkerInv'
      BY <1>1, <2>2, <2>3, <2>4, DraftedStep
    <2> QED BY <1>1, <1>2, <2>4, <2>5, StoredStep
  <1>4. CASE rows[at[w].k].state # "absent"
    <2>1. UNCHANGED rows /\ Prep!With(w, [at[w] EXCEPT !.pc = "find"])
      BY <1>4 DEF Prep!Create
    <2>2. PICK d : d = [at[w] EXCEPT !.pc = "find"]
      OBVIOUS
    <2>3. at[w] \in Prep!Local /\ Fit(at[w])
      BY PrepTyped
    <2>4. d \in Prep!Local /\ d.pc = "find" /\ d.k = at[w].k /\ d.pred = at[w].pred /\ Prep!With(w, d)
      BY <2>1, <2>2, <2>3 DEF Prep!Local, Prep!Stages
    <2>5. Fit(d)
      BY <1>1, <2>3, <2>4 DEF Fit, Prep!Asking, Prep!Updating
    <2>6. at' \in [Workers -> Prep!Local] /\ WorkerInv'
      BY <1>1, <2>1, <2>4, <2>5, OnwardSame, FitOnward, WorkersStep
    <2> QED BY <1>1, <1>2, <2>1, <2>6, LocalStep
  <1> QED BY <1>3, <1>4

\* After an update a worker reads its row again.
LEMMA RereadStep ==
  ASSUME PrepIndInv, Onward, NEW w \in Workers, NEW next \in {"reserve", "freeze", "closed"},
         Prep!Reread(w, next),
         rows[at[w].k].state # "absent", next = "closed" => rows'[at[w].k].state = "closed"
  PROVE  at' \in [Workers -> Prep!Local] /\ WorkerInv'
  <1>1. PICK d : d = [at[w] EXCEPT !.pc = "reread", !.next = next]
    OBVIOUS
  <1>2. at[w] \in Prep!Local /\ at[w].k \in Prep!Rows
    BY PrepTyped DEF Prep!Local
  <1>3. next \in Prep!Stages
    BY DEF Prep!Stages, Prep!Asking, Prep!Updating
  <1>4. d \in Prep!Local /\ d.pc = "reread" /\ d.k = at[w].k /\ d.next = next
    BY <1>1, <1>2, <1>3 DEF Prep!Local, Prep!Stages
  <1>5. Prep!With(w, d)
    BY <1>1 DEF Prep!Reread
  <1>6. rows'[at[w].k].state # "absent"
    BY <1>2 DEF Onward
  <1>7. Fit(d)'
    BY <1>4, <1>6 DEF Fit, Prep!Updating
  <1> QED BY <1>4, <1>5, <1>7, WorkersStep

\* An update keeps it, with its effect or refused because the row went on.
LEMMA UpdateStep ==
  ASSUME PrepIndInv, NEW w \in Workers, Prep!Update(w)
  PROVE  PrepIndInv'
  <1>1. at[w].pc \in Prep!Updating /\ UNCHANGED <<app, collides, exchanges, faults>>
    BY DEF Prep!Update
  <1>2. exchanges' \in Nat /\ faults' \in Nat
    BY <1>1 DEF PrepIndInv, Prep!TypeOK
  <1>3. CASE Prep!Updates(w)
    <2>1. Prep!Written(w) /\ Prep!Then(w)
      BY <1>3 DEF Prep!Update
    <2>2. /\ rows' \in [Prep!Rows -> Prep!Row] /\ event' \in [Prep!Rows -> Prep!Stamps]
          /\ ChainInv' /\ RowInv' /\ Onward
          /\ at[w].pc = "closed" => rows'[at[w].k].state = "closed"
      BY <1>1, <1>3, <2>1, WrittenStep
    <2>3. /\ at[w].k \in Prep!Rows /\ at[w].seen \in Prep!Row
          /\ at[w].pc # "tried" => rows[at[w].k].state # "absent"
          /\ at[w].pc = "link" => (at[w].seen.state = "closed" => rows[at[w].k].state = "closed")
      BY <1>1, PrepTyped DEF Prep!Local, Fit
    <2>4. CASE at[w].pc = "attempted"
      <3>1. Prep!Reread(w, "reserve")
        BY <2>1, <2>4 DEF Prep!Then
      <3> QED BY <2>2, <2>3, <2>4, <3>1, RereadStep, StoredStep, <1>1, <1>2
    <2>5. CASE at[w].pc = "reserved"
      <3>1. Prep!Reread(w, "freeze")
        BY <2>1, <2>5 DEF Prep!Then
      <3> QED BY <2>2, <2>3, <2>5, <3>1, RereadStep, StoredStep, <1>1, <1>2
    <2>6. CASE at[w].pc = "closed"
      <3>1. Prep!Reread(w, "closed")
        BY <2>1, <2>6 DEF Prep!Then
      <3> QED BY <2>2, <2>3, <2>6, <3>1, RereadStep, StoredStep, <1>1, <1>2
    <2>7. CASE Prep!Ends(w)
      BY <2>2, <2>7, EndsStep, StoredStep, <1>1, <1>2
    <2>8. CASE at[w].pc = "link" /\ Prep!Prepare(w, at[w].k, at[w].seen)
      <3>1. rows'[at[w].k].state # "absent"
        BY <2>2, <2>3, <2>8 DEF Onward
      <3>2. at' \in [Workers -> Prep!Local] /\ WorkerInv'
        BY <2>2, <2>3, <2>8, <3>1, PrepareStep
      <3> QED BY <1>1, <1>2, <2>2, <3>2, StoredStep
    <2> QED BY <2>1, <2>4, <2>5, <2>6, <2>7, <2>8 DEF Prep!Then
  <1>4. CASE ~ Prep!Updates(w)
    <2>1. UNCHANGED <<rows, event>> /\ (Prep!Ends(w) \/ Prep!Throws(w))
      BY <1>4 DEF Prep!Update, Prep!stored
    <2>2. at' \in [Workers -> Prep!Local] /\ WorkerInv'
      BY <1>1, <2>1, OnwardSame, EndsStep, ThrowsStep
    <2> QED BY <1>1, <1>2, <2>1, <2>2, LocalStep
  <1> QED BY <1>3, <1>4

\* The read after an update keeps it, whatever others made of the row in between.
LEMMA AfterUpdateStep ==
  ASSUME PrepIndInv, NEW w \in Workers, Prep!AfterUpdate(w)
  PROVE  PrepIndInv'
  <1>1. PICK k : k = at[w].k
    OBVIOUS
  <1>2. PICK r : r = rows[k]
    OBVIOUS
  <1>3. PICK c : c = [at[w] EXCEPT !.seen = r, !.next = "idle"]
    OBVIOUS
  <1>4. /\ UNCHANGED <<rows, event, app, collides, exchanges, faults>> /\ at[w].pc = "reread"
        /\ \/ /\ at[w].next = "reserve"
              /\ Prep!With(w, [c EXCEPT !.pc = IF r.reservation THEN "freeze" ELSE "reserve"])
           \/ at[w].next = "freeze" /\ Prep!With(w, [c EXCEPT !.pc = "freeze"])
           \/ /\ at[w].next = "closed"
              /\ Prep!With(w, [c EXCEPT !.pc = "find", !.k = @ + 1, !.pred = r, !.last = TRUE])
    BY <1>1, <1>2, <1>3 DEF Prep!AfterUpdate, Prep!stored
  <1>5. at[w] \in Prep!Local /\ Fit(at[w]) /\ k \in Prep!Rows /\ r \in Prep!Row /\ k \in Nat
    BY <1>1, <1>2, PrepTyped DEF Prep!Local
  <1>6. "idle" \in Prep!Stages /\ c \in Prep!Local /\ c.k = k
    BY <1>1, <1>3, <1>5 DEF Prep!Local, Prep!Stages
  <1>7. Onward /\ r.state # "absent"
    BY <1>1, <1>2, <1>4, <1>5, OnwardSame DEF Fit
  <1>8. ASSUME NEW stage \in {"reserve", "freeze"}, Prep!With(w, [c EXCEPT !.pc = stage])
        PROVE  at' \in [Workers -> Prep!Local] /\ WorkerInv'
    <2>1. PICK d : d = [c EXCEPT !.pc = stage]
      OBVIOUS
    <2>2. d \in Prep!Local /\ d.pc = stage /\ d.k = k /\ Prep!With(w, d)
      BY <1>6, <1>8, <2>1 DEF Prep!Local, Prep!Stages, Prep!Asking, Prep!Updating
    <2>3. Fit(d)
      BY <1>2, <1>7, <2>2 DEF Fit
    <2> QED BY <1>7, <2>2, <2>3, FitOnward, WorkersStep
  <1>9. ASSUME at[w].next = "closed",
               Prep!With(w, [c EXCEPT !.pc = "find", !.k = @ + 1, !.pred = r, !.last = TRUE])
        PROVE  at' \in [Workers -> Prep!Local] /\ WorkerInv'
    <2>1. PICK d : d = [c EXCEPT !.pc = "find", !.k = k + 1, !.pred = r, !.last = TRUE]
      OBVIOUS
    <2>2. rows[k].state = "closed" /\ k + 1 \in Prep!Rows
      BY <1>1, <1>4, <1>5, <1>9, ClosedHasNext DEF Fit
    <2>3. d \in Prep!Local /\ d.pc = "find" /\ d.k = k + 1 /\ d.pred = r /\ Prep!With(w, d)
      BY <1>5, <1>6, <1>9, <2>1, <2>2 DEF Prep!Local, Prep!Stages
    <2>4. d.k - 1 = k
      BY <1>5, <2>3
    <2>5. Fit(d)
      BY <1>2, <1>5, <2>2, <2>3, <2>4 DEF Fit, Prep!Asking, Prep!Updating
    <2> QED BY <1>7, <2>3, <2>5, FitOnward, WorkersStep
  <1>10. at' \in [Workers -> Prep!Local] /\ WorkerInv'
    <2>1. PICK stage \in {"reserve", "freeze"} : stage = IF r.reservation THEN "freeze" ELSE "reserve"
      OBVIOUS
    <2> QED BY <1>4, <1>8, <1>9, <2>1
  <1>11. exchanges' \in Nat /\ faults' \in Nat
    BY <1>4 DEF PrepIndInv, Prep!TypeOK
  <1> QED BY <1>4, <1>10, <1>11, LocalStep

\* The catch of a recovery keeps it.
LEMMA FailedStep ==
  ASSUME PrepIndInv, NEW w \in Workers, Prep!Failed(w)
  PROVE  PrepIndInv'
  <1>1. PICK r : r = rows[at[w].whence]
    OBVIOUS
  <1>2. /\ UNCHANGED <<rows, event, app, collides, exchanges, faults>> /\ at[w].pc = "failed"
        /\ Prep!With(w, [at[w] EXCEPT !.pc = "tried", !.seen = r]) \/ Prep!Ends(w)
    BY <1>1 DEF Prep!Failed, Prep!stored
  <1>3. Onward
    BY <1>2, OnwardSame
  <1>4. at[w] \in Prep!Local /\ Fit(at[w]) /\ at[w].whence \in Prep!Rows
    BY <1>2, PrepTyped DEF Prep!Local, Fit
  <1>5. ASSUME Prep!With(w, [at[w] EXCEPT !.pc = "tried", !.seen = r])
        PROVE  at' \in [Workers -> Prep!Local] /\ WorkerInv'
    <2>1. PICK d : d = [at[w] EXCEPT !.pc = "tried", !.seen = r]
      OBVIOUS
    <2>2. r \in Prep!Row
      BY <1>1, <1>4, PrepTyped
    <2>3. d \in Prep!Local /\ d.pc = "tried" /\ d.whence = at[w].whence /\ Prep!With(w, d)
      BY <1>4, <1>5, <2>1, <2>2 DEF Prep!Local, Prep!Stages, Prep!Updating
    <2>4. Fit(d)
      BY <1>2, <1>4, <2>3 DEF Fit, Prep!Asking
    <2> QED BY <1>3, <2>3, <2>4, FitOnward, WorkersStep
  <1>6. at' \in [Workers -> Prep!Local] /\ WorkerInv'
    BY <1>2, <1>3, <1>5, EndsStep
  <1>7. exchanges' \in Nat /\ faults' \in Nat
    BY <1>2 DEF PrepIndInv, Prep!TypeOK
  <1> QED BY <1>2, <1>6, <1>7, LocalStep

\* A statement that fails keeps it, with its effect or without.
LEMMA StatementFailsStep ==
  ASSUME PrepIndInv, NEW w \in Workers, Prep!StatementFails(w)
  PROVE  PrepIndInv'
  <1>1. /\ UNCHANGED <<app, collides, exchanges>> /\ Prep!Fault /\ (Prep!Ends(w) \/ Prep!Throws(w))
        /\ \/ UNCHANGED <<rows, event>>
           \/ at[w].pc \in Prep!Updating /\ Prep!Updates(w) /\ Prep!Written(w)
           \/ /\ at[w].pc = "create" /\ rows[at[w].k].state = "absent"
              /\ rows' = [rows EXCEPT ![at[w].k].state = "draft"] /\ UNCHANGED event
    BY DEF Prep!StatementFails, Prep!stored
  <1>2. exchanges' \in Nat /\ faults' \in Nat
    BY <1>1, FaultTyped DEF PrepIndInv, Prep!TypeOK
  <1>3. CASE UNCHANGED <<rows, event>>
    BY <1>1, <1>2, <1>3, OnwardSame, EndsStep, ThrowsStep, LocalStep
  <1>4. CASE at[w].pc \in Prep!Updating /\ Prep!Updates(w) /\ Prep!Written(w)
    BY <1>1, <1>2, <1>4, WrittenStep, EndsStep, ThrowsStep, StoredStep
  <1>5. CASE /\ at[w].pc = "create" /\ rows[at[w].k].state = "absent"
             /\ rows' = [rows EXCEPT ![at[w].k].state = "draft"] /\ UNCHANGED event
    <2>1. event' \in [Prep!Rows -> Prep!Stamps]
      BY <1>5 DEF PrepIndInv, Prep!TypeOK
    <2> QED BY <1>1, <1>2, <1>5, <2>1, CreatedStep, EndsStep, ThrowsStep, StoredStep
  <1> QED BY <1>1, <1>3, <1>4, <1>5

\* A process that dies keeps it.
LEMMA CrashStep ==
  ASSUME PrepIndInv, NEW w \in Workers, Prep!Crash(w)
  PROVE  PrepIndInv'
  <1>1. UNCHANGED <<rows, event, app, collides, exchanges>> /\ Prep!Fault /\ Prep!Ends(w)
    BY DEF Prep!Crash, Prep!stored
  <1>2. exchanges' \in Nat /\ faults' \in Nat
    BY <1>1, FaultTyped DEF PrepIndInv, Prep!TypeOK
  <1> QED BY <1>1, <1>2, OnwardSame, EndsStep, LocalStep

\* The authority takes a prepared row on, while workers may hold it.
LEMMA ConsumeStep ==
  ASSUME PrepIndInv, NEW k \in Prep!Rows, Prep!Consume(k)
  PROVE  PrepIndInv'
  <1>1. /\ rows[k].state = "prepared"
        /\ rows' = [rows EXCEPT ![k].state = "later", ![k].rev = @ + 1]
        /\ UNCHANGED <<event, app, collides, at, exchanges, faults>>
    BY DEF Prep!Consume
  <1>2. PICK r : r = [rows[k] EXCEPT !.state = "later", !.rev = rows[k].rev + 1]
    OBVIOUS
  <1>3. /\ r \in Prep!Row /\ r.state = "later" /\ r.reservation = rows[k].reservation
        /\ r.frozen = rows[k].frozen /\ r.successor = rows[k].successor
    <2>1. PICK o : o = rows[k]
      OBVIOUS
    <2>2. o \in Prep!Row
      BY <2>1, PrepTyped
    <2>3. PICK m \in Nat : m = o.rev + 1
      BY <2>2 DEF Prep!Row
    <2>4. r = [o EXCEPT !.state = "later", !.rev = m]
      BY <1>2, <2>1, <2>3
    <2>5. r \in Prep!Row
      BY <2>2, <2>4 DEF Prep!Row, Prep!States
    <2>6. /\ r.state = "later" /\ r.reservation = o.reservation
          /\ r.frozen = o.frozen /\ r.successor = o.successor
      BY <2>2, <2>4 DEF Prep!Row
    <2> QED BY <2>1, <2>5, <2>6
  <1>4. rows' = [rows EXCEPT ![k] = r] /\ rows \in [Prep!Rows -> Prep!Row]
    BY <1>1, <1>2 DEF PrepIndInv, Prep!TypeOK
  <1>5. /\ rows'[k] = r /\ rows' \in [Prep!Rows -> Prep!Row]
        /\ \A j \in Prep!Rows : j # k => rows'[j] = rows[j]
    BY <1>3, <1>4
  <1>6. Onward
    BY <1>1, <1>3, <1>5 DEF Onward
  <1>7. ChainInv'
    BY <1>1, <1>3, <1>5 DEF PrepIndInv, ChainInv
  <1>8. ASSUME NEW j \in Prep!Rows
        PROVE  RowOK(j)'
    <2>1. RowOK(j)
      BY DEF PrepIndInv, RowInv
    <2>2. rows[j].successor => rows'[j + 1].state # "absent"
      <3>1. rows[j].successor => j + 1 \in Prep!Rows /\ rows[j + 1].state # "absent"
        BY <2>1, PrepTyped DEF RowOK
      <3> QED BY <1>6, <3>1 DEF Onward
    <2>3. CASE j = k
      BY <1>1, <1>3, <1>5, <2>1, <2>3 DEF RowOK, Prep!Frozen
    <2>4. CASE j # k
      BY <1>1, <1>5, <2>1, <2>2, <2>4 DEF RowOK, Prep!Frozen
    <2> QED BY <2>3, <2>4
  <1>9. RowInv'
    BY <1>8 DEF RowInv
  <1>10. ASSUME NEW w \in Workers
         PROVE  Fit(at[w])'
    <2>1. PICK d : d = at[w]
      OBVIOUS
    <2>2. d \in Prep!Local /\ Fit(d)
      BY <2>1, PrepTyped
    <2>3. Fit(d)'
      BY <1>6, <2>2, FitOnward
    <2>4. at'[w] = d
      BY <1>1, <2>1
    <2> QED BY <2>3, <2>4 DEF Fit
  <1>11. WorkerInv'
    BY <1>10 DEF WorkerInv
  <1>12. /\ exchanges' \in Nat /\ faults' \in Nat /\ event' \in [Prep!Rows -> Prep!Stamps]
         /\ at' \in [Workers -> Prep!Local]
    BY <1>1 DEF PrepIndInv, Prep!TypeOK
  <1> QED BY <1>1, <1>5, <1>7, <1>9, <1>11, <1>12, StoredStep

-----------------------------------------------------------------------------
\* The invariant of the preparation holds at first.
LEMMA InitPrepIndInv == Prep!PreparationConstants /\ Prep!Init => PrepIndInv
  <1> SUFFICES ASSUME Prep!PreparationConstants, Prep!Init
               PROVE  PrepIndInv
    OBVIOUS
  <1>1. /\ Prep!Absent \in Prep!Row /\ Prep!Absent.state = "absent" /\ Prep!Idle \in Prep!Local
        /\ Prep!Idle.pc = "idle"
    BY DEF Prep!Absent, Prep!Row, Prep!States, Prep!Stamps, Prep!Idle, Prep!Local, Prep!Stages,
           Prep!Rows, Prep!Asking, Prep!Updating, Prep!PreparationConstants
  <1>2. Prep!TypeOK
    BY <1>1 DEF Prep!Init, Prep!TypeOK, Prep!Stamps
  <1>3. ChainInv
    BY <1>1 DEF Prep!Init, ChainInv
  <1>4. RowInv
    BY <1>1 DEF Prep!Init, RowInv, RowOK, Prep!Frozen, Prep!Absent
  <1>5. WorkerInv
    BY <1>1 DEF Prep!Init, WorkerInv, Fit, Prep!Asking, Prep!Updating
  <1> QED BY <1>2, <1>3, <1>4, <1>5 DEF PrepIndInv

\* Every step of the preparation keeps its invariant.
LEMMA NextPrepIndInv == PrepIndInv /\ [Prep!Next]_(Prep!vars) => PrepIndInv'
  <1> SUFFICES ASSUME PrepIndInv, [Prep!Next]_(Prep!vars)
               PROVE  PrepIndInv'
    OBVIOUS
  <1>1. ASSUME NEW w \in Workers,
               \/ Prep!Exchange(w) \/ Prep!Work(w) \/ Prep!AskFails(w)
               \/ Prep!StatementFails(w) \/ Prep!Crash(w)
        PROVE  PrepIndInv'
    BY <1>1, ExchangeStep, BeginStep, FindStep, ContextStep, CreateStep, AskStep, UpdateStep,
       AfterUpdateStep, FailedStep, AskFailsStep, StatementFailsStep, CrashStep DEF Prep!Work
  <1>2. ASSUME NEW w \in Workers, NEW k \in Prep!Rows, Prep!Recover(w, k)
        PROVE  PrepIndInv'
    BY <1>2, RecoverStep
  <1>3. ASSUME NEW k \in Prep!Rows, Prep!Consume(k)
        PROVE  PrepIndInv'
    BY <1>3, ConsumeStep
  <1>4. CASE UNCHANGED Prep!vars
    <2>1. UNCHANGED <<rows, event, app, collides, at, exchanges, faults>>
      BY <1>4 DEF Prep!vars, Prep!stored
    <2> QED BY <2>1 DEF PrepIndInv, Prep!PreparationConstants, Prep!TypeOK, ChainInv, RowInv,
                        RowOK, Prep!Frozen, WorkerInv, Fit
  <1> QED BY <1>1, <1>2, <1>3, <1>4 DEF Prep!Next

\* Every reachable state of the preparation satisfies its invariant.
THEOREM SpecPrepIndInv == Prep!PreparationConstants /\ Prep!Spec => []PrepIndInv
  <1>1. Prep!PreparationConstants /\ Prep!Init => PrepIndInv
    BY InitPrepIndInv
  <1> QED BY <1>1, NextPrepIndInv, PTL DEF Prep!Spec

\* The invariant says what is promised.
LEMMA PrepIndInvSays == PrepIndInv => Prep!PreparationInv
  <1> SUFFICES ASSUME PrepIndInv
               PROVE  Prep!PreparationInv
    OBVIOUS
  <1>1. Prep!FrozenWithReservation
    BY DEF PrepIndInv, RowInv, RowOK, Prep!FrozenWithReservation, Prep!Frozen
  <1>2. Prep!OneCandidate
    <2>1. \A k \in Prep!Rows : rows[k].state = "closed" => app[k] = "fenced"
      BY DEF PrepIndInv, RowInv, RowOK
    <2>2. ASSUME NEW k \in Prep!Rows \ {1}, rows[k].state # "absent"
          PROVE  rows[k - 1].state = "closed"
      <3>1. k \in Prep!Rows /\ k - 1 \in Prep!Rows /\ k - 1 < k
        BY PrepTyped
      <3> QED BY <2>2, <3>1 DEF PrepIndInv, ChainInv
    <2>3. ASSUME NEW j \in Prep!Rows, NEW k \in Prep!Rows, j < k, app[j] = "reserved", app[k] = "reserved"
          PROVE  FALSE
      <3>1. rows[k].state # "absent"
        BY <2>3 DEF PrepIndInv, RowInv, RowOK
      <3>2. rows[j].state = "closed"
        BY <2>3, <3>1 DEF PrepIndInv, ChainInv
      <3> QED BY <2>1, <2>3, <3>2
    <2>4. \A j, k \in Prep!Rows : j < k \/ k < j \/ j = k
      BY PrepTyped
    <2> QED BY <2>1, <2>2, <2>3, <2>4 DEF Prep!OneCandidate
  <1>3. Prep!SuccessorProved
    <2>1. ASSUME NEW k \in Prep!Rows, rows[k].successor
          PROVE  /\ rows[k].state = "closed" /\ ~ rows[k].reservation
                 /\ k < MaxRows /\ rows[k + 1].state # "absent"
      <3>1. RowOK(k) /\ rows[k] \in Prep!Row
        BY PrepTyped DEF PrepIndInv, RowInv
      <3>2. app[k] = "fenced" /\ ~ rows[k].reservation
        BY <2>1, <3>1 DEF RowOK, Prep!Row
      <3> QED BY <2>1, <3>1, <3>2 DEF RowOK
    <2> QED BY <2>1 DEF Prep!SuccessorProved
  <1>4. Prep!TypeOK
    BY DEF PrepIndInv
  <1> QED BY <1>1, <1>2, <1>3, <1>4 DEF Prep!PreparationInv

\* The candidate of a unit is frozen once, with its event, and only where the APP
\* reserved it; a candidate is given up only after the APP fenced it, and a noted
\* successor exists (prepare, closeCollision, replacementDraft, recoverPreparation),
\* for any number of workers, rows, retries and faults.
THEOREM SpecPreparationInv == Prep!PreparationConstants /\ Prep!Spec => []Prep!PreparationInv
  BY SpecPrepIndInv, PrepIndInvSays, PTL
=============================================================================
