------------------------ MODULE CaptureContext_proofs ------------------------
(***************************************************************************)
(* The context of each socket, for any number of sockets, requests,        *)
(* sessions and failures.  The argument is one number per registration:    *)
(* every request that is asked for takes the next one, and an answer is    *)
(* installed only under the number the registration still has.  So at any  *)
(* time at most one open request of a socket may install its answer, and   *)
(* that one was asked after everything that is installed.                  *)
(***************************************************************************)
EXTENDS CaptureContext, WellFoundedInduction, SequenceTheorems, TLAPS

\* What a socket knows the APP held before; and a socket without a context is
\* ambiguous or needs none.
RegOK(n) ==
  LET r == regs[n] IN
  /\ r.context # NoContext => r.context.at <= app.at
  /\ ~ r.ambiguous /\ r.context = NoContext => ~ r.managed
RegInv == \A n \in DOMAIN regs : RegOK(n)

\* A request in work: its answer was given after it was asked, and if no later
\* request has taken its number, it was asked after what its socket knows.
ReqOK(i) ==
  LET q == reqs[i]  r == regs[q.sock] IN
  q.pc # "done" =>
    /\ q.sock \in DOMAIN regs /\ q.rev <= r.rev /\ q.asked <= app.at
    /\ q.pc # "asked" => /\ q.context # NoContext /\ q.context.session = q.session
                         /\ q.asked <= q.context.at /\ q.context.at <= app.at
    /\ q.rev = r.rev /\ q.pc # "proving" /\ r.context # NoContext => r.context.at <= q.asked
ReqInv == \A i \in DOMAIN reqs : ReqOK(i)

\* No two requests of a socket in work have one number.
Numbered ==
  \A i, j \in DOMAIN reqs :
    i # j /\ reqs[i].pc # "done" /\ reqs[j].pc # "done" /\ reqs[i].sock = reqs[j].sock => reqs[i].rev # reqs[j].rev

ContextsInv == \A i \in DOMAIN contexts : contexts[i].at <= app.at

\* A proof was given under what its socket knew, or knew before.
ProofsInv ==
  \A p \in proofs : /\ p.sock \in DOMAIN regs /\ regs[p.sock].context # NoContext
                    /\ p.at <= regs[p.sock].context.at

IndInv == TypeOK /\ RegInv /\ ReqInv /\ Numbered /\ ContextsInv /\ ProofsInv /\ WritesJudged

-----------------------------------------------------------------------------
\* A set of positions has a last one.
LEMMA LastIndex ==
  ASSUME NEW n \in Nat, NEW T \in SUBSET (1 .. n), T # {}
  PROVE  \E i \in T : \A j \in T : j <= i
  <1> DEFINE R == OpToRel(<, Nat)
             D == {n - i : i \in T}
  <1>1. IsWellFoundedOn(R, Nat)
    BY NatLessThanWellFounded
  <1>2. \A x, y \in Nat : x < y => <<x, y>> \in R
    BY DEF OpToRel
  <1>3. D \subseteq Nat /\ D # {}
    <2>1. \A i \in 1 .. n : n - i \in Nat
      OBVIOUS
    <2> QED BY <2>1
  <1> HIDE DEF R, D
  <1>4. PICK x \in D : \A y \in D : ~ (<<y, x>> \in R)
    BY <1>1, <1>3, WFMin
  <1>5. \A y \in D : ~ (y < x)
    BY <1>2, <1>3, <1>4
  <1>6. PICK i \in T : x = n - i
    BY DEF D
  <1>7. \A j \in T : n - j \in D
    BY DEF D
  <1> QED BY <1>5, <1>6, <1>7

\* Sequences, one element changed or one more.
LEMMA Changed ==
  ASSUME NEW S, NEW s \in Seq(S), NEW n \in DOMAIN s, NEW e \in S
  PROVE  /\ [s EXCEPT ![n] = e] \in Seq(S) /\ Len([s EXCEPT ![n] = e]) = Len(s)
         /\ DOMAIN [s EXCEPT ![n] = e] = DOMAIN s
         /\ \A j \in DOMAIN s : [s EXCEPT ![n] = e][j] = IF j = n THEN e ELSE s[j]
  BY ExceptSeq, LenProperties

LEMMA Appended ==
  ASSUME NEW S, NEW s \in Seq(S), NEW e \in S
  PROVE  /\ Append(s, e) \in Seq(S) /\ Len(Append(s, e)) = Len(s) + 1
         /\ DOMAIN Append(s, e) = DOMAIN s \cup {Len(s) + 1} /\ Len(s) + 1 \notin DOMAIN s
         /\ \A j \in DOMAIN s : Append(s, e)[j] = s[j]
         /\ Append(s, e)[Len(s) + 1] = e
  <1>1. Len(s) \in Nat /\ DOMAIN s = 1 .. Len(s)
    BY LenProperties
  <1>2. Append(s, e) \in Seq(S) /\ Len(Append(s, e)) = Len(s) + 1
    OBVIOUS
  <1>3. DOMAIN Append(s, e) = 1 .. (Len(s) + 1)
    BY <1>2, LenProperties
  <1> QED BY <1>1, <1>2, <1>3

LEMMA Elements ==
  ASSUME TypeOK
  PROVE  /\ \A n \in DOMAIN regs : regs[n] \in Reg /\ n \in 1 .. MaxSockets
         /\ \A i \in DOMAIN reqs : reqs[i] \in Req
         /\ \A i \in DOMAIN contexts : contexts[i] \in Context
         /\ Len(regs) \in Nat /\ DOMAIN regs = 1 .. Len(regs)
         /\ Len(reqs) \in Nat /\ DOMAIN reqs = 1 .. Len(reqs)
         /\ Len(contexts) \in Nat /\ DOMAIN contexts = 1 .. Len(contexts)
  <1>1. /\ Len(regs) \in Nat /\ DOMAIN regs = 1 .. Len(regs)
        /\ Len(reqs) \in Nat /\ DOMAIN reqs = 1 .. Len(reqs)
        /\ Len(contexts) \in Nat /\ DOMAIN contexts = 1 .. Len(contexts)
    BY LenProperties DEF TypeOK
  <1> QED BY <1>1, ElementOfSeq, CaptureConstants DEF TypeOK

\* The newest context of a session in the database is one of them.
LEMMA HistoricalIsOne ==
  ASSUME TypeOK, NEW s
  PROVE  Historical(s) = NoContext \/ \E i \in DOMAIN contexts : Historical(s) = contexts[i]
  <1> DEFINE of == {i \in DOMAIN contexts : contexts[i].session = s}
             m  == CHOOSE i \in of : \A j \in of : j <= i
  <1>1. CASE of = {}
    BY <1>1 DEF Historical
  <1>2. CASE of # {}
    <2>1. of \in SUBSET (1 .. Len(contexts)) /\ Len(contexts) \in Nat
      BY Elements
    <2> HIDE DEF of
    <2>2. \E i \in of : \A j \in of : j <= i
      BY <1>2, <2>1, LastIndex
    <2>3. m \in of
      BY <2>2
    <2>4. Historical(s) = contexts[m]
      BY <1>2 DEF Historical, of
    <2> QED BY <2>3, <2>4 DEF of
  <1> QED BY <1>1, <1>2

LEMMA ManagedOrNot == Managed \in BOOLEAN
  BY DEF Managed

LEMMA NewRegShape ==
  ASSUME NEW s \in Sessions, NEW c \in Context \cup {NoContext}, NEW a \in BOOLEAN, NEW b \in BOOLEAN
  PROVE  /\ NewReg(s, c, a, b) \in Reg /\ NewReg(s, c, a, b).context = c /\ NewReg(s, c, a, b).ambiguous = a
         /\ NewReg(s, c, a, b).managed = Managed /\ NewReg(s, c, a, b).rev = 0
  BY ManagedOrNot DEF NewReg, Reg

\* What stays of a registration whose context is not replaced.
Same(r, t) == t.context = r.context /\ t.ambiguous = r.ambiguous /\ t.managed = r.managed /\ r.rev <= t.rev

\* What a request leaves, up to its answer.
LEMMA AskShape ==
  ASSUME TypeOK, NEW n \in 1 .. (Len(regs) + 1), n <= MaxSockets, NEW kind \in Kinds, NEW reg \in Reg,
         n \in DOMAIN regs => reg = regs[n], Asked(n, kind, reg)
  PROVE  /\ regs' \in Seq(Reg) /\ Len(regs') <= MaxSockets /\ reqs' \in Seq(Req)
         /\ DOMAIN regs' = DOMAIN regs \cup {n}
         /\ \A j \in DOMAIN regs : Same(regs[j], regs'[j]) /\ (j # n => regs'[j] = regs[j])
         /\ Same(reg, regs'[n]) /\ regs'[n].rev > reg.rev /\ regs'[n].session = reg.session
         /\ DOMAIN reqs' = DOMAIN reqs \cup {Len(reqs) + 1} /\ Len(reqs) + 1 \notin DOMAIN reqs
         /\ \A i \in DOMAIN reqs : reqs'[i] = reqs[i]
         /\ reqs'[Len(reqs) + 1] = NewReq(n, kind, regs'[n])
  <1> DEFINE r == [reg EXCEPT !.rev = reg.rev + 1]
             q == NewReq(n, kind, r)
  <1>1. /\ r \in Reg /\ Same(reg, r) /\ r.rev > reg.rev /\ r.session = reg.session
    BY DEF Reg, Same
  <1>2. /\ reqs' = Append(reqs, q)
        /\ regs' = IF n \in DOMAIN regs THEN [regs EXCEPT ![n] = r] ELSE Append(regs, r)
    BY DEF Asked
  <1> HIDE DEF r
  <1>3. q \in Req
    <2>1. r.rev \in Nat /\ r.session \in Sessions
      BY <1>1 DEF Reg
    <2>2. n \in 1 .. MaxSockets /\ app.at \in Times
      BY Elements, CaptureConstants DEF TypeOK, Content
    <2> QED BY <2>1, <2>2 DEF NewReq, Req
  <1> HIDE DEF q
  <1>4. /\ reqs' \in Seq(Req)
        /\ DOMAIN reqs' = DOMAIN reqs \cup {Len(reqs) + 1} /\ Len(reqs) + 1 \notin DOMAIN reqs
        /\ \A i \in DOMAIN reqs : reqs'[i] = reqs[i]
        /\ reqs'[Len(reqs) + 1] = q
    BY <1>2, <1>3, Appended DEF TypeOK
  <1>5. \A j \in DOMAIN regs : Same(regs[j], regs[j])
    BY Elements DEF Same, Reg
  <1>6. CASE n \in DOMAIN regs
    <2>1. regs' = [regs EXCEPT ![n] = r] /\ regs \in Seq(Reg)
      BY <1>2, <1>6 DEF TypeOK
    <2>2. /\ regs' \in Seq(Reg) /\ Len(regs') = Len(regs) /\ DOMAIN regs' = DOMAIN regs
          /\ \A j \in DOMAIN regs : regs'[j] = IF j = n THEN r ELSE regs[j]
      BY <1>1, <1>6, <2>1, Changed
    <2> QED BY <1>1, <1>4, <1>5, <1>6, <2>2 DEF TypeOK, q
  <1>7. CASE n \notin DOMAIN regs
    <2>1. regs' = Append(regs, r) /\ regs \in Seq(Reg) /\ n = Len(regs) + 1
      BY <1>2, <1>7, Elements DEF TypeOK
    <2>2. /\ regs' \in Seq(Reg) /\ Len(regs') = Len(regs) + 1 /\ DOMAIN regs' = DOMAIN regs \cup {n}
          /\ (\A j \in DOMAIN regs : regs'[j] = regs[j]) /\ regs'[n] = r
      BY <1>1, <2>1, Appended
    <2> QED BY <1>1, <1>4, <1>5, <1>7, <2>1, <2>2 DEF TypeOK, q
  <1> QED BY <1>6, <1>7

\* What stays of a registration when no request is asked for.
Still(r, t) == Same(r, t) /\ t.rev = r.rev /\ t.session = r.session

LEMMA StillSelf ==
  ASSUME TypeOK
  PROVE  \A j \in DOMAIN regs : Same(regs[j], regs[j]) /\ Still(regs[j], regs[j])
  BY Elements DEF Same, Still, Reg

LEMMA ReadiedShape ==
  ASSUME TypeOK, NEW i \in DOMAIN reqs, reqs[i].sock \in DOMAIN regs
  PROVE  /\ Readied(i) \in Seq(Reg) /\ Len(Readied(i)) = Len(regs) /\ DOMAIN Readied(i) = DOMAIN regs
         /\ \A j \in DOMAIN regs : Still(regs[j], Readied(i)[j])
  <1> DEFINE n == reqs[i].sock
             yes == TRUE
             r == [regs[n] EXCEPT !.ready = yes]
  <1>0. yes \in BOOLEAN
    OBVIOUS
  <1>1. regs \in Seq(Reg) /\ regs[n] \in Reg
    BY Elements DEF TypeOK
  <1> HIDE DEF yes, n
  <1>2. r \in Reg /\ Still(regs[n], r)
    <2>1. r \in Reg
      BY <1>0, <1>1 DEF Reg
    <2>2. /\ r.rev = regs[n].rev /\ r.context = regs[n].context /\ r.ambiguous = regs[n].ambiguous
          /\ r.managed = regs[n].managed /\ r.session = regs[n].session
      BY <1>1 DEF Reg
    <2>3. regs[n].rev <= r.rev
      BY <1>1, <2>2 DEF Reg
    <2> QED BY <2>1, <2>2, <2>3, Zenon DEF Still, Same
  <1> USE DEF yes, n
  <1>3. Readied(i) = regs \/ Readied(i) = [regs EXCEPT ![n] = r]
    BY DEF Readied
  <1> HIDE DEF n, r
  <1>4. n \in DOMAIN regs
    BY DEF n
  <1> DEFINE t == [regs EXCEPT ![n] = r]
  <1>6. /\ t \in Seq(Reg) /\ Len(t) = Len(regs) /\ DOMAIN t = DOMAIN regs
        /\ \A j \in DOMAIN regs : t[j] = IF j = n THEN r ELSE regs[j]
    BY <1>1, <1>2, <1>4, Changed
  <1> HIDE DEF t
  <1>7. \A j \in DOMAIN regs : Still(regs[j], t[j])
    BY <1>2, <1>6, StillSelf
  <1> QED BY <1>1, <1>3, <1>6, <1>7, StillSelf DEF t

\* The installation of an answer, and what it leaves.
LEMMA InstalledShape ==
  ASSUME TypeOK, NEW i \in DOMAIN reqs, reqs[i].sock \in DOMAIN regs, reqs[i].context # NoContext
  PROVE  /\ Installed(i) \in Seq(Reg) /\ Len(Installed(i)) = Len(regs) /\ DOMAIN Installed(i) = DOMAIN regs
         /\ \A j \in DOMAIN regs : j # reqs[i].sock => Still(regs[j], Installed(i)[j])
         /\ LET r == regs[reqs[i].sock]  t == Installed(i)[reqs[i].sock] IN
            /\ t.context = reqs[i].context /\ t.ambiguous = FALSE
            /\ t.rev = r.rev /\ t.managed = r.managed /\ t.session = r.session
  <1> DEFINE n == reqs[i].sock
             s == Readied(i)
             c == reqs[i].context
             a == [s[n] EXCEPT !.context = c]
             b == [a EXCEPT !.ambiguous = FALSE]
  <1>1. /\ s \in Seq(Reg) /\ Len(s) = Len(regs) /\ DOMAIN s = DOMAIN regs
        /\ \A j \in DOMAIN regs : Still(regs[j], s[j])
    BY ReadiedShape
  <1>2. c \in Context
    BY Elements DEF Req
  <1>3. n \in DOMAIN regs
    OBVIOUS
  <1>4. s[n] \in Reg
    BY <1>1, <1>3, ElementOfSeq, LenProperties
  <1>5. Installed(i) = [[s EXCEPT ![n].context = c] EXCEPT ![n].ambiguous = FALSE]
    BY DEF Installed
  <1> HIDE DEF s, n, c
  <1>6. a \in Reg /\ a.context = c /\ a.rev = s[n].rev /\ a.managed = s[n].managed /\ a.session = s[n].session
    BY <1>2, <1>4 DEF Reg
  <1>7. [s EXCEPT ![n].context = c] = [s EXCEPT ![n] = a]
    OBVIOUS
  <1> HIDE DEF a
  <1>8. b \in Reg /\ b.context = c /\ b.ambiguous = FALSE /\ b.rev = a.rev /\ b.managed = a.managed /\ b.session = a.session
    BY <1>6 DEF Reg
  <1> DEFINE u == [s EXCEPT ![n] = a]
             v == [u EXCEPT ![n] = b]
  <1>9. /\ u \in Seq(Reg) /\ Len(u) = Len(s) /\ DOMAIN u = DOMAIN s
        /\ \A j \in DOMAIN s : u[j] = IF j = n THEN a ELSE s[j]
    BY <1>1, <1>3, <1>6, Changed
  <1> HIDE DEF u
  <1>10. u[n] = a
    BY <1>1, <1>3, <1>9
  <1>11. Installed(i) = v
    BY <1>5, <1>7, <1>10 DEF u, b
  <1> HIDE DEF b
  <1>12. /\ v \in Seq(Reg) /\ Len(v) = Len(u) /\ DOMAIN v = DOMAIN u
         /\ \A j \in DOMAIN u : v[j] = IF j = n THEN b ELSE u[j]
    BY <1>1, <1>3, <1>8, <1>9, Changed
  <1> HIDE DEF v
  <1>13. \A j \in DOMAIN regs : j # n => v[j] = s[j]
    BY <1>1, <1>9, <1>12
  <1>14. v[n] = b
    BY <1>1, <1>3, <1>9, <1>12
  <1>15. /\ b.rev = regs[n].rev /\ b.managed = regs[n].managed /\ b.session = regs[n].session
    BY <1>1, <1>3, <1>6, <1>8 DEF Still, Same
  <1> QED BY <1>1, <1>8, <1>9, <1>11, <1>12, <1>13, <1>14, <1>15 DEF n, c

\* One request is worked on, the others stay as they are.
Others(i) ==
  /\ reqs' \in Seq(Req) /\ DOMAIN reqs' = DOMAIN reqs
  /\ \A j \in DOMAIN reqs : j # i => reqs'[j] = reqs[j]

LEMMA ReqChanged ==
  ASSUME TypeOK, NEW i \in DOMAIN reqs, NEW q \in Req, reqs' = [reqs EXCEPT ![i] = q]
  PROVE  Others(i) /\ reqs'[i] = q
  BY Changed DEF TypeOK, Others

LEMMA ClosedShape ==
  ASSUME TypeOK, NEW i \in DOMAIN reqs, Closed(i)
  PROVE  Others(i) /\ reqs'[i].pc = "done"
  <1> DEFINE q == [reqs[i] EXCEPT !.pc = "done", !.context = NoContext, !.asked = 0]
  <1>1. reqs[i] \in Req
    BY Elements
  <1>2. 0 \in Times
    BY CaptureConstants DEF Times
  <1>3. q \in Req /\ q.pc = "done"
    BY <1>1, <1>2 DEF Req
  <1>4. reqs' = [reqs EXCEPT ![i] = q]
    BY DEF Closed
  <1> HIDE DEF q
  <1> QED BY <1>3, <1>4, ReqChanged

LEMMA ToShape ==
  ASSUME TypeOK, NEW i \in DOMAIN reqs, NEW pc \in {"observe", "prove", "proving"}, To(i, pc)
  PROVE  /\ Others(i) /\ reqs'[i].pc = pc /\ reqs'[i].kind = reqs[i].kind /\ reqs'[i].sock = reqs[i].sock
         /\ reqs'[i].rev = reqs[i].rev /\ reqs'[i].session = reqs[i].session
         /\ reqs'[i].context = reqs[i].context /\ reqs'[i].asked = reqs[i].asked
  <1> DEFINE q == [reqs[i] EXCEPT !.pc = pc]
  <1>1. reqs[i] \in Req
    BY Elements
  <1>2. /\ q \in Req /\ q.pc = pc /\ q.kind = reqs[i].kind /\ q.sock = reqs[i].sock /\ q.rev = reqs[i].rev
        /\ q.session = reqs[i].session /\ q.context = reqs[i].context /\ q.asked = reqs[i].asked
    BY <1>1 DEF Req
  <1>3. reqs' = [reqs EXCEPT ![i] = q]
    BY DEF To
  <1> HIDE DEF q
  <1> QED BY <1>2, <1>3, ReqChanged

\* The APP's answer: its context, for the request's session.
LEMMA AnswerShape ==
  ASSUME TypeOK, NEW i \in DOMAIN reqs, Answer(i), bound
  PROVE  /\ Others(i) /\ reqs'[i].pc = "answered" /\ reqs'[i].kind = reqs[i].kind /\ reqs'[i].sock = reqs[i].sock
         /\ reqs'[i].rev = reqs[i].rev /\ reqs'[i].session = reqs[i].session /\ reqs'[i].asked = reqs[i].asked
         /\ reqs'[i].context # NoContext /\ reqs'[i].context.session = reqs[i].session
         /\ reqs'[i].context.at = app.at
  <1> DEFINE c == [epoch |-> app.epoch, stage |-> app.stage, cutover |-> app.cutover,
                   at |-> app.at, session |-> reqs[i].session]
             p == [reqs[i] EXCEPT !.pc = "answered"]
             q == [p EXCEPT !.context = c]
  <1>1. reqs[i] \in Req /\ reqs[i].session \in Sessions
    BY Elements DEF Req
  <1>2. app.epoch \in 1 .. 2 /\ app.stage \in Stages /\ app.cutover \in BOOLEAN /\ app.at \in Times
    BY DEF TypeOK, Content
  <1>3. c \in Context
    BY <1>1, <1>2 DEF Context
  <1>4. c # NoContext /\ c.session = reqs[i].session /\ c.at = app.at
    BY <1>3, NoContextIsNone
  <1>5. reqs' = [[reqs EXCEPT ![i].pc = "answered"] EXCEPT ![i].context = c]
    BY DEF Answer
  <1> HIDE DEF c
  <1>6. /\ p \in Req /\ p.pc = "answered" /\ p.kind = reqs[i].kind /\ p.sock = reqs[i].sock /\ p.rev = reqs[i].rev
        /\ p.session = reqs[i].session /\ p.asked = reqs[i].asked
    BY <1>1 DEF Req
  <1>7. [reqs EXCEPT ![i].pc = "answered"] = [reqs EXCEPT ![i] = p]
    OBVIOUS
  <1> HIDE DEF p
  <1>8. /\ q \in Req /\ q.pc = "answered" /\ q.kind = p.kind /\ q.sock = p.sock /\ q.rev = p.rev
        /\ q.session = p.session /\ q.asked = p.asked /\ q.context = c
    BY <1>3, <1>6 DEF Req
  <1> DEFINE u == [reqs EXCEPT ![i] = p]
  <1>9. /\ u \in Seq(Req) /\ DOMAIN u = DOMAIN reqs
        /\ \A j \in DOMAIN reqs : u[j] = IF j = i THEN p ELSE reqs[j]
    BY <1>6, Changed DEF TypeOK
  <1> HIDE DEF u
  <1>10. u[i] = p
    BY <1>9
  <1>11. reqs' = [u EXCEPT ![i] = q]
    BY <1>5, <1>7, <1>10 DEF u, q
  <1> HIDE DEF q
  <1>12. /\ reqs' \in Seq(Req) /\ DOMAIN reqs' = DOMAIN u
         /\ \A j \in DOMAIN u : reqs'[j] = IF j = i THEN q ELSE u[j]
    BY <1>8, <1>9, <1>11, Changed
  <1> QED BY <1>4, <1>6, <1>8, <1>9, <1>12 DEF Others

-----------------------------------------------------------------------------
\* No registration loses or replaces its context.
RegsStay == \A j \in DOMAIN regs : j \in DOMAIN regs' /\ Same(regs[j], regs'[j])

\* What becomes of a request in work when nothing is installed: it is closed, or
\* goes on, and then with the APP's answer of now or with the one it has.
Moves(q, t) ==
  t.pc # "done" =>
    /\ q.pc # "done" /\ t.sock = q.sock /\ t.rev = q.rev /\ t.session = q.session /\ t.asked = q.asked
    /\ q.pc = "proving" => t.pc = "proving"
    /\ t.pc # "asked" => \/ q.pc # "asked" /\ t.context = q.context
                         \/ t.context # NoContext /\ t.context.session = q.session /\ t.context.at = app.at
ReqsMove == DOMAIN reqs' = DOMAIN reqs /\ \A i \in DOMAIN reqs : Moves(reqs[i], reqs'[i])

LEMMA MovesSelf ==
  ASSUME NEW q
  PROVE  Moves(q, q)
  BY DEF Moves

\* One request is worked on: it is closed, or goes on.
LEMMA OneMoves ==
  ASSUME TypeOK, NEW i \in DOMAIN reqs, Others(i), Moves(reqs[i], reqs'[i])
  PROVE  ReqsMove
  BY MovesSelf DEF Others, ReqsMove

\* The numbers in typed registrations and requests.
LEMMA FiguresOf ==
  ASSUME NEW a \in Content, NEW s \in Seq(Reg), NEW t \in Seq(Req)
  PROVE  /\ a.at \in Nat
         /\ \A n \in DOMAIN s : s[n].rev \in Nat /\ (s[n].context # NoContext => s[n].context.at \in Nat)
         /\ \A i \in DOMAIN t : /\ t[i].rev \in Nat /\ t[i].asked \in Nat
                                /\ t[i].context # NoContext => t[i].context.at \in Nat
  <1>1. Times \subseteq Nat
    BY CaptureConstants DEF Times
  <1>2. a.at \in Nat
    BY <1>1 DEF Content
  <1>3. ASSUME NEW n \in DOMAIN s
        PROVE  s[n].rev \in Nat /\ (s[n].context # NoContext => s[n].context.at \in Nat)
    <2>1. s[n] \in Reg
      BY ElementOfSeq, LenProperties
    <2> QED BY <1>1, <2>1 DEF Reg, Context
  <1>4. ASSUME NEW i \in DOMAIN t
        PROVE  /\ t[i].rev \in Nat /\ t[i].asked \in Nat
               /\ t[i].context # NoContext => t[i].context.at \in Nat
    <2>1. t[i] \in Req
      BY ElementOfSeq, LenProperties
    <2> QED BY <1>1, <2>1 DEF Req, Context
  <1> QED BY <1>2, <1>3, <1>4

LEMMA Figures ==
  ASSUME TypeOK
  PROVE  /\ app.at \in Nat
         /\ \A n \in DOMAIN regs : regs[n].rev \in Nat /\ (regs[n].context # NoContext => regs[n].context.at \in Nat)
         /\ \A i \in DOMAIN reqs : /\ reqs[i].rev \in Nat /\ reqs[i].asked \in Nat
                                   /\ reqs[i].context # NoContext => reqs[i].context.at \in Nat
  BY FiguresOf DEF TypeOK

LEMMA FiguresNext ==
  ASSUME TypeOK'
  PROVE  /\ app'.at \in Nat
         /\ \A n \in DOMAIN regs' : regs'[n].rev \in Nat /\ (regs'[n].context # NoContext => regs'[n].context.at \in Nat)
         /\ \A i \in DOMAIN reqs' : /\ reqs'[i].rev \in Nat /\ reqs'[i].asked \in Nat
                                    /\ reqs'[i].context # NoContext => reqs'[i].context.at \in Nat
  BY FiguresOf DEF TypeOK

LEMMA RegsKept ==
  ASSUME IndInv, TypeOK', RegsStay, app'.at >= app.at,
         \A n \in DOMAIN regs' : n \notin DOMAIN regs => RegOK(n)'
  PROVE  RegInv'
  <1> SUFFICES ASSUME NEW n \in DOMAIN regs', n \in DOMAIN regs
               PROVE  RegOK(n)'
    BY DEF RegInv
  <1> DEFINE r == regs[n]
             t == regs'[n]
  <1>1. r.context # NoContext => r.context.at <= app.at
    BY DEF IndInv, RegInv, RegOK
  <1>2. ~ r.ambiguous /\ r.context = NoContext => ~ r.managed
    BY DEF IndInv, RegInv, RegOK
  <1>3. t.context = r.context /\ t.ambiguous = r.ambiguous /\ t.managed = r.managed
    BY DEF RegsStay, Same
  <1>4. app.at \in Nat /\ app'.at \in Nat /\ (r.context # NoContext => r.context.at \in Nat)
    BY Figures, FiguresNext DEF IndInv
  <1> QED BY <1>1, <1>2, <1>3, <1>4 DEF RegOK

LEMMA ReqsKept ==
  ASSUME IndInv, TypeOK', RegsStay, app'.at >= app.at, ReqsMove
  PROVE  ReqInv' /\ Numbered'
  <1>1. ASSUME NEW i \in DOMAIN reqs'
        PROVE  ReqOK(i)'
    <2> DEFINE q == reqs[i]
               t == reqs'[i]
               r == regs[q.sock]
               u == regs'[q.sock]
    <2> SUFFICES ASSUME t.pc # "done"
                 PROVE  ReqOK(i)'
      BY DEF ReqOK
    <2>1. i \in DOMAIN reqs /\ Moves(q, t)
      BY DEF ReqsMove
    <2>2. /\ q.pc # "done" /\ t.sock = q.sock /\ t.rev = q.rev /\ t.session = q.session /\ t.asked = q.asked
          /\ q.pc = "proving" => t.pc = "proving"
      BY <2>1 DEF Moves
    <2>3. t.pc # "asked" => \/ q.pc # "asked" /\ t.context = q.context
                            \/ t.context # NoContext /\ t.context.session = q.session /\ t.context.at = app.at
      BY <2>1 DEF Moves
    <2>4. ReqOK(i)
      BY <2>1 DEF IndInv, ReqInv
    <2>5. q.sock \in DOMAIN regs /\ q.rev <= r.rev /\ q.asked <= app.at
      BY <2>2, <2>4 DEF ReqOK
    <2>6. q.pc # "asked" => /\ q.context # NoContext /\ q.context.session = q.session
                            /\ q.asked <= q.context.at /\ q.context.at <= app.at
      BY <2>2, <2>4 DEF ReqOK
    <2>7. q.rev = r.rev /\ q.pc # "proving" /\ r.context # NoContext => r.context.at <= q.asked
      BY <2>2, <2>4 DEF ReqOK
    <2>8. q.sock \in DOMAIN regs' /\ u.context = r.context /\ r.rev <= u.rev
      BY <2>5 DEF RegsStay, Same
    <2>9. /\ app.at \in Nat /\ app'.at \in Nat /\ r.rev \in Nat /\ u.rev \in Nat /\ q.rev \in Nat /\ q.asked \in Nat
          /\ q.context # NoContext => q.context.at \in Nat
      BY <2>1, <2>5, <2>8, Figures, FiguresNext DEF IndInv
    <2> HIDE DEF q, t, r, u
    <2>10. t.sock \in DOMAIN regs' /\ t.rev <= u.rev /\ t.asked <= app'.at
      BY <2>2, <2>5, <2>8, <2>9
    <2>11. t.pc # "asked" => /\ t.context # NoContext /\ t.context.session = t.session
                             /\ t.asked <= t.context.at /\ t.context.at <= app'.at
      BY <2>2, <2>3, <2>5, <2>6, <2>9
    <2>12. t.rev = u.rev /\ t.pc # "proving" /\ u.context # NoContext => u.context.at <= t.asked
      BY <2>2, <2>5, <2>7, <2>8, <2>9
    <2> QED BY <2>2, <2>10, <2>11, <2>12 DEF ReqOK, q, t, r, u
  <1>2. Numbered'
    BY DEF Numbered, IndInv, ReqsMove, Moves
  <1> QED BY <1>1, <1>2 DEF ReqInv

LEMMA ProofsKept ==
  ASSUME IndInv, RegsStay, proofs' = proofs
  PROVE  ProofsInv'
  BY DEF IndInv, ProofsInv, RegsStay, Same

\* A request is asked for under the next number of its socket.
LEMMA AskKept ==
  ASSUME IndInv, TypeOK', app' = app,
         NEW n \in 1 .. (Len(regs) + 1), n <= MaxSockets, NEW kind \in Kinds, NEW reg \in Reg,
         n \in DOMAIN regs => reg = regs[n], Asked(n, kind, reg),
         reg.context # NoContext => reg.context.at <= app.at,
         ~ reg.ambiguous /\ reg.context = NoContext => ~ reg.managed
  PROVE  RegInv' /\ ReqInv' /\ Numbered' /\ RegsStay
  <1> DEFINE k == Len(reqs) + 1
             t == regs'[n]
  <1>1. /\ DOMAIN regs' = DOMAIN regs \cup {n}
        /\ \A j \in DOMAIN regs : Same(regs[j], regs'[j]) /\ (j # n => regs'[j] = regs[j])
        /\ Same(reg, t) /\ t.rev > reg.rev /\ t.session = reg.session
        /\ DOMAIN reqs' = DOMAIN reqs \cup {k} /\ k \notin DOMAIN reqs
        /\ \A i \in DOMAIN reqs : reqs'[i] = reqs[i]
        /\ reqs'[k] = NewReq(n, kind, t)
    <2> HIDE DEF k, t
    <2> QED BY AskShape DEF IndInv, k, t
  <1>2. /\ reqs'[k].pc = "asked" /\ reqs'[k].sock = n /\ reqs'[k].rev = t.rev /\ reqs'[k].asked = app.at
    BY <1>1 DEF NewReq
  <1>3. RegsStay
    BY <1>1 DEF RegsStay
  <1>4. app.at \in Nat
    BY Figures DEF IndInv
  <1>5. t.rev \in Nat /\ reg.rev \in Nat /\ t.context = reg.context /\ t.ambiguous = reg.ambiguous /\ t.managed = reg.managed
    BY <1>1, FiguresNext DEF Same, Reg
  <1> HIDE DEF k, t
  <1>6. RegOK(n)'
    BY <1>5 DEF RegOK, t
  <1>7. RegInv'
    BY <1>1, <1>3, <1>4, <1>6, RegsKept
  <1>8. ASSUME NEW i \in DOMAIN reqs
        PROVE  ReqOK(i)'
    <2> DEFINE q == reqs[i]
               r == regs[q.sock]
               u == regs'[q.sock]
    <2> SUFFICES ASSUME q.pc # "done"
                 PROVE  ReqOK(i)'
      BY <1>1 DEF ReqOK
    <2>1. q.sock \in DOMAIN regs /\ q.rev <= r.rev /\ q.asked <= app.at
      BY DEF ReqOK, IndInv, ReqInv
    <2>2. q.pc # "asked" => /\ q.context # NoContext /\ q.context.session = q.session
                            /\ q.asked <= q.context.at /\ q.context.at <= app.at
      BY DEF ReqOK, IndInv, ReqInv
    <2>3. q.rev = r.rev /\ q.pc # "proving" /\ r.context # NoContext => r.context.at <= q.asked
      BY DEF ReqOK, IndInv, ReqInv
    <2>4. q.sock \in DOMAIN regs' /\ u.context = r.context /\ r.rev <= u.rev
      BY <1>1, <2>1 DEF Same
    <2>5. r.rev \in Nat /\ u.rev \in Nat /\ q.rev \in Nat
      BY <2>1, <2>4, Figures, FiguresNext DEF IndInv
    <2>6. reqs'[i] = q
      BY <1>1
    <2> HIDE DEF q, r, u
    <2>7. q.rev <= u.rev
      BY <2>1, <2>4, <2>5
    <2>8. q.rev = u.rev /\ q.pc # "proving" /\ u.context # NoContext => u.context.at <= q.asked
      BY <2>1, <2>3, <2>4, <2>5
    <2> QED BY <2>1, <2>2, <2>4, <2>6, <2>7, <2>8 DEF ReqOK, u
  <1>9. ASSUME NEW m \in DOMAIN reqs', m = k
        PROVE  ReqOK(m)'
    <2>1. n \in DOMAIN regs' /\ t.rev <= t.rev /\ app.at <= app'.at
      BY <1>1, <1>4, <1>5
    <2>2. t.context # NoContext => t.context.at <= app.at
      BY <1>5
    <2> QED BY <1>2, <1>9, <2>1, <2>2 DEF ReqOK, t
  <1>10. ASSUME NEW i \in DOMAIN reqs, reqs[i].pc # "done", reqs[i].sock = n
         PROVE  reqs[i].rev # t.rev
    <2>1. n \in DOMAIN regs /\ reqs[i].rev <= regs[n].rev
      BY <1>10 DEF IndInv, ReqInv, ReqOK
    <2>2. reg = regs[n] /\ t.rev > reg.rev /\ reqs[i].rev \in Nat
      BY <1>1, <2>1, Figures DEF IndInv
    <2> QED BY <1>5, <2>1, <2>2
  <1>11. Numbered'
    <2> SUFFICES ASSUME NEW i \in DOMAIN reqs', NEW j \in DOMAIN reqs', i # j,
                        reqs'[i].pc # "done", reqs'[j].pc # "done", reqs'[i].sock = reqs'[j].sock
                 PROVE  reqs'[i].rev # reqs'[j].rev
      BY DEF Numbered
    <2>1. CASE i \in DOMAIN reqs /\ j \in DOMAIN reqs
      BY <1>1, <2>1 DEF IndInv, Numbered
    <2>2. CASE i = k
      BY <1>1, <1>2, <1>10, <2>2
    <2>3. CASE j = k
      BY <1>1, <1>2, <1>10, <2>3
    <2> QED BY <1>1, <2>1, <2>2, <2>3
  <1> QED BY <1>1, <1>3, <1>7, <1>8, <1>9, <1>11 DEF ReqInv

\* An answer is installed under the number its registration still has: what is
\* known by then is not newer than the request, and no other request in work has
\* that number.
LEMMA InstallKept ==
  ASSUME IndInv, TypeOK', app' = app, proofs' = proofs,
         NEW i \in DOMAIN reqs, reqs[i].pc \notin {"done", "asked", "proving"},
         Installs(i), regs' = Installed(i), Others(i),
         \/ reqs'[i].pc = "done"
         \/ /\ reqs'[i].pc = "proving" /\ reqs'[i].sock = reqs[i].sock /\ reqs'[i].rev = reqs[i].rev
            /\ reqs'[i].session = reqs[i].session /\ reqs'[i].context = reqs[i].context /\ reqs'[i].asked = reqs[i].asked
  PROVE  RegInv' /\ ReqInv' /\ Numbered' /\ ProofsInv'
  <1> DEFINE q == reqs[i]
             n == q.sock
             r == regs[n]
             t == regs'[n]
  <1>1. r.rev = q.rev /\ q.context # NoContext
    BY DEF Installs, Current
  <1>2. n \in DOMAIN regs /\ q.asked <= app.at /\ q.asked <= q.context.at /\ q.context.at <= app.at
        /\ q.context.session = q.session
    BY <1>1 DEF IndInv, ReqInv, ReqOK
  <1>3. r.context # NoContext => r.context.at <= q.asked
    BY <1>1 DEF IndInv, ReqInv, ReqOK
  <1>4. /\ DOMAIN regs' = DOMAIN regs
        /\ \A j \in DOMAIN regs : j # n => Still(regs[j], regs'[j])
        /\ t.context = q.context /\ t.ambiguous = FALSE
        /\ t.rev = r.rev /\ t.managed = r.managed /\ t.session = r.session
    BY <1>1, <1>2, InstalledShape DEF IndInv
  <1>5. /\ app.at \in Nat /\ q.asked \in Nat /\ q.context.at \in Nat /\ r.rev \in Nat
        /\ r.context # NoContext => r.context.at \in Nat
    BY <1>1, <1>2, Figures DEF IndInv
  <1>6. r.context # NoContext => r.context.at <= t.context.at
    BY <1>2, <1>3, <1>4, <1>5
  <1>7. RegInv'
    <2>1. ASSUME NEW j \in DOMAIN regs, j # n
          PROVE  RegOK(j)'
      BY <1>4, <2>1 DEF IndInv, RegInv, RegOK, Still, Same
    <2>2. ASSUME NEW j \in DOMAIN regs, j = n
          PROVE  RegOK(j)'
      BY <1>1, <1>2, <1>4, <2>2 DEF RegOK
    <2> QED BY <1>4, <2>1, <2>2 DEF RegInv
  <1>8. ProofsInv'
    <2> SUFFICES ASSUME NEW p \in proofs
                 PROVE  /\ p.sock \in DOMAIN regs' /\ regs'[p.sock].context # NoContext
                        /\ p.at <= regs'[p.sock].context.at
      BY DEF ProofsInv
    <2>1. p.sock \in DOMAIN regs /\ regs[p.sock].context # NoContext /\ p.at <= regs[p.sock].context.at
      BY DEF IndInv, ProofsInv
    <2>2. CASE p.sock # n
      BY <1>4, <2>1, <2>2 DEF Still, Same
    <2>3. CASE p.sock = n
      <3>1. p.at \in Nat
        BY CaptureConstants DEF IndInv, TypeOK, Times
      <3> QED BY <1>1, <1>4, <1>5, <1>6, <2>1, <2>3, <3>1
    <2> QED BY <2>2, <2>3
  <1>9. ASSUME NEW j \in DOMAIN reqs, j # i
        PROVE  ReqOK(j)'
    <2> DEFINE p == reqs[j]
    <2> SUFFICES ASSUME p.pc # "done"
                 PROVE  ReqOK(j)'
      BY <1>9 DEF ReqOK, Others
    <2>1. reqs'[j] = p
      BY <1>9 DEF Others
    <2>2. /\ p.sock \in DOMAIN regs /\ p.rev <= regs[p.sock].rev /\ p.asked <= app.at
          /\ p.pc # "asked" => /\ p.context # NoContext /\ p.context.session = p.session
                               /\ p.asked <= p.context.at /\ p.context.at <= app.at
      BY DEF IndInv, ReqInv, ReqOK
    <2>3. p.rev = regs[p.sock].rev /\ p.pc # "proving" /\ regs[p.sock].context # NoContext
          => regs[p.sock].context.at <= p.asked
      BY DEF IndInv, ReqInv, ReqOK
    <2>4. p.sock = n => p.rev # q.rev
      BY <1>9 DEF IndInv, Numbered
    <2>5. CASE p.sock # n
      BY <1>4, <2>1, <2>2, <2>3, <2>5 DEF ReqOK, Still, Same
    <2>6. CASE p.sock = n
      <3>1. p.rev # t.rev /\ p.rev <= t.rev
        BY <1>1, <1>4, <2>2, <2>4, <2>6
      <3> HIDE DEF p, q, n, t, r
      <3>2. p.sock \in DOMAIN regs' /\ p.rev <= regs'[p.sock].rev /\ p.rev # regs'[p.sock].rev
        BY <1>4, <2>2, <2>6, <3>1 DEF t
      <3> QED BY <2>1, <2>2, <3>2 DEF ReqOK
    <2> QED BY <2>5, <2>6
  <1>10. ReqOK(i)'
    BY <1>1, <1>2, <1>4, <1>5 DEF ReqOK
  <1>11. Numbered'
    BY DEF IndInv, Numbered, Others
  <1> QED BY <1>7, <1>8, <1>9, <1>10, <1>11 DEF ReqInv, Others

-----------------------------------------------------------------------------
\* What ContextForward says of one step.
Forward ==
  \A n \in DOMAIN regs :
    LET c == regs[n].context  d == regs'[n].context IN
    c # NoContext => d # NoContext /\ (c.session = d.session => d.at >= c.at /\ ~ Regresses(d, c))

LEMMA StayForward ==
  ASSUME TypeOK, RegsStay
  PROVE  Forward
  <1> SUFFICES ASSUME NEW n \in DOMAIN regs, regs[n].context # NoContext
               PROVE  LET c == regs[n].context  d == regs'[n].context IN
                      d # NoContext /\ d.at >= c.at /\ ~ Regresses(d, c)
    BY DEF Forward
  <1>1. regs'[n].context = regs[n].context
    BY DEF RegsStay, Same
  <1>2. regs[n].context \in Context /\ regs[n].context.at \in Nat
    BY Elements, Figures DEF Reg
  <1> DEFINE c == regs[n].context
  <1>3. c.epoch \in Nat /\ c.stage \in Nat
    BY <1>2 DEF Context, Stages
  <1> HIDE DEF c
  <1>4. ~ Regresses(c, c)
    BY <1>3 DEF Regresses
  <1> QED BY <1>1, <1>2, <1>4 DEF c

LEMMA ContextsKept ==
  ASSUME IndInv, TypeOK', app'.at >= app.at, contexts' = contexts
  PROVE  ContextsInv'
  <1> SUFFICES ASSUME NEW i \in DOMAIN contexts
               PROVE  contexts[i].at <= app'.at
    BY DEF ContextsInv
  <1>1. contexts[i].at <= app.at
    BY DEF IndInv, ContextsInv
  <1>2. contexts[i].at \in Nat
    BY Elements, CaptureConstants DEF IndInv, Context, Times
  <1> QED BY <1>1, <1>2, Figures, FiguresNext DEF IndInv

\* A step that installs nothing and asks for nothing.
LEMMA StayKeeps ==
  ASSUME IndInv, TypeOK', RegsStay, ReqsMove, app'.at >= app.at,
         \A n \in DOMAIN regs' : n \notin DOMAIN regs => RegOK(n)',
         contexts' = contexts \/ ContextsInv', proofs' = proofs \/ ProofsInv', passed' = passed \/ WritesJudged'
  PROVE  IndInv' /\ Forward
  <1>1. RegInv' /\ ReqInv' /\ Numbered'
    BY RegsKept, ReqsKept
  <1>2. ContextsInv' /\ ProofsInv'
    BY ContextsKept, ProofsKept
  <1>3. WritesJudged'
    BY DEF IndInv, WritesJudged
  <1> QED BY <1>1, <1>2, <1>3, StayForward DEF IndInv

\* A step that asks.
LEMMA AskKeeps ==
  ASSUME IndInv, TypeOK', UNCHANGED <<app, contexts, proofs, passed>>,
         NEW n \in 1 .. (Len(regs) + 1), n <= MaxSockets, NEW kind \in Kinds, NEW reg \in Reg,
         n \in DOMAIN regs => reg = regs[n], Asked(n, kind, reg),
         reg.context # NoContext => reg.context.at <= app.at,
         ~ reg.ambiguous /\ reg.context = NoContext => ~ reg.managed
  PROVE  IndInv' /\ Forward
  <1>1. RegInv' /\ ReqInv' /\ Numbered' /\ RegsStay
    BY AskKept
  <1>2. app'.at >= app.at
    BY Figures DEF IndInv
  <1>3. ContextsInv' /\ ProofsInv'
    BY <1>1, <1>2, ContextsKept, ProofsKept
  <1>4. WritesJudged'
    BY DEF IndInv, WritesJudged
  <1> QED BY <1>1, <1>3, <1>4, StayForward DEF IndInv

\* A step that installs.
LEMMA InstallKeeps ==
  ASSUME IndInv, TypeOK', app' = app, proofs' = proofs,
         NEW i \in DOMAIN reqs, reqs[i].pc \notin {"done", "asked", "proving"},
         Installs(i), regs' = Installed(i), Others(i),
         \/ reqs'[i].pc = "done"
         \/ /\ reqs'[i].pc = "proving" /\ reqs'[i].sock = reqs[i].sock /\ reqs'[i].rev = reqs[i].rev
            /\ reqs'[i].session = reqs[i].session /\ reqs'[i].context = reqs[i].context /\ reqs'[i].asked = reqs[i].asked,
         contexts' = contexts \/ ContextsInv', passed' = passed \/ WritesJudged'
  PROVE  IndInv' /\ Forward
  <1>1. RegInv' /\ ReqInv' /\ Numbered' /\ ProofsInv'
    BY InstallKept
  <1>2. ContextsInv'
    BY ContextsKept, Figures DEF IndInv
  <1>3. WritesJudged'
    BY DEF IndInv, WritesJudged
  <1>4. ASSUME NEW n \in DOMAIN regs, n # reqs[i].sock, regs[n].context # NoContext
        PROVE  LET c == regs[n].context  d == regs'[n].context IN
               d # NoContext /\ d.at >= c.at /\ ~ Regresses(d, c)
    <2> DEFINE c == regs[n].context
    <2>1. reqs[i].sock \in DOMAIN regs /\ reqs[i].context # NoContext
      BY DEF IndInv, ReqInv, ReqOK
    <2>2. regs'[n].context = c
      BY <1>4, <2>1, InstalledShape DEF IndInv, Still, Same
    <2>3. c \in Context /\ c.at \in Nat
      BY <1>4, Elements, Figures DEF IndInv, Reg
    <2> HIDE DEF c
    <2>4. c.epoch \in Nat /\ c.stage \in Nat
      BY <2>3 DEF Context, Stages
    <2>5. ~ Regresses(c, c)
      BY <2>4 DEF Regresses
    <2> QED BY <1>4, <2>2, <2>3, <2>5 DEF c
  <1>5. ASSUME NEW n \in DOMAIN regs, n = reqs[i].sock, regs[n].context # NoContext
        PROVE  LET c == regs[n].context  d == regs'[n].context IN
               d # NoContext /\ (c.session = d.session => d.at >= c.at /\ ~ Regresses(d, c))
    <2> DEFINE q == reqs[i]
               c == regs[n].context
    <2>1. /\ regs[n].rev = q.rev /\ q.context # NoContext
          /\ c.session = q.session => ~ Regresses(q.context, c)
      BY <1>5 DEF Installs, Current
    <2>2. q.context.session = q.session /\ q.asked <= q.context.at /\ c.at <= q.asked
      BY <1>5, <2>1 DEF IndInv, ReqInv, ReqOK
    <2>3. regs'[n].context = q.context
      BY <1>5, <2>1, InstalledShape DEF IndInv
    <2>4. c.at \in Nat /\ q.asked \in Nat /\ q.context.at \in Nat
      BY <1>5, <2>1, Figures DEF IndInv
    <2>5. q.context.at >= c.at
      BY <2>2, <2>4
    <2> QED BY <2>1, <2>2, <2>3, <2>5
  <1>6. Forward
    BY <1>4, <1>5 DEF Forward
  <1> QED BY <1>1, <1>2, <1>3, <1>6 DEF IndInv

-----------------------------------------------------------------------------
LEMMA FaultTyped ==
  ASSUME TypeOK, Fault
  PROVE  faults' \in Nat
  BY DEF TypeOK, Fault

LEMMA ReqsStill ==
  ASSUME reqs' = reqs
  PROVE  ReqsMove
  BY MovesSelf DEF ReqsMove

LEMMA RegsStill ==
  ASSUME TypeOK, regs' = regs
  PROVE  RegsStay
  BY StillSelf DEF RegsStay

LEMMA InitInd ==
  ASSUME Init
  PROVE  IndInv
  <1>1. 0 \in Times
    BY CaptureConstants DEF Times
  <1>2. app \in Content
    BY <1>1 DEF Init, Content, Stages
  <1>3. regs = <<>> /\ reqs = <<>> /\ contexts = <<>> /\ proofs = {} /\ passed = {} /\ proved = {} /\ faults = 0
        /\ bound \in BOOLEAN
    BY DEF Init
  <1>4. TypeOK
    BY <1>2, <1>3, CaptureConstants DEF TypeOK
  <1>5. DOMAIN regs = {} /\ DOMAIN reqs = {} /\ DOMAIN contexts = {}
    BY <1>3
  <1> QED
    BY <1>3, <1>4, <1>5 DEF IndInv, RegInv, ReqInv, Numbered, ContextsInv, ProofsInv, WritesJudged

LEMMA AdvanceStep ==
  ASSUME IndInv, Advance
  PROVE  IndInv' /\ Forward
  <1>1. PICK e \in 1 .. 2, s \in Stages, cut \in BOOLEAN :
          LET c == [epoch |-> e, stage |-> s, cutover |-> cut, at |-> app.at + 1] IN
          app' = c /\ (IF Regresses(c, app) THEN Fault ELSE UNCHANGED faults)
    BY DEF Advance
  <1>2. app.at + 1 \in Times /\ app.at \in Nat
    BY CaptureConstants DEF Advance, IndInv, TypeOK, Content, Times
  <1>3. app' \in Content /\ app'.at = app.at + 1
    BY <1>1, <1>2 DEF Content
  <1>4. faults' \in Nat
    BY <1>1, FaultTyped DEF IndInv, TypeOK
  <1>5. UNCHANGED <<bound, contexts, regs, reqs, proved, proofs, passed>>
    BY DEF Advance
  <1>6. TypeOK'
    BY <1>3, <1>4, <1>5 DEF IndInv, TypeOK
  <1>7. RegsStay /\ ReqsMove
    BY <1>5, RegsStill, ReqsStill DEF IndInv
  <1> QED BY <1>2, <1>3, <1>5, <1>6, <1>7, StayKeeps

LEMMA RebindStep ==
  ASSUME IndInv, Rebind
  PROVE  IndInv' /\ Forward
  <1>1. UNCHANGED <<app, contexts, regs, reqs, proved, proofs, passed>> /\ bound' \in BOOLEAN
    BY DEF Rebind
  <1>2. faults' \in Nat
    BY FaultTyped DEF Rebind, IndInv
  <1>3. TypeOK'
    BY <1>1, <1>2 DEF IndInv, TypeOK
  <1>4. RegsStay /\ ReqsMove /\ app'.at >= app.at
    BY <1>1, RegsStill, ReqsStill, Figures DEF IndInv
  <1> QED BY <1>1, <1>3, <1>4, StayKeeps

\* A request adds nothing but itself and its number.
LEMMA AskTyped ==
  ASSUME IndInv, UNCHANGED <<app, bound, contexts, proved, proofs, passed, faults>>,
         NEW n \in 1 .. (Len(regs) + 1), n <= MaxSockets, NEW kind \in Kinds, NEW reg \in Reg,
         n \in DOMAIN regs => reg = regs[n], Asked(n, kind, reg)
  PROVE  TypeOK'
  <1>1. regs' \in Seq(Reg) /\ Len(regs') <= MaxSockets /\ reqs' \in Seq(Req)
    BY AskShape DEF IndInv
  <1> QED BY <1>1 DEF IndInv, TypeOK

\* A registered socket asks.
LEMMA SocketAsks ==
  ASSUME IndInv, UNCHANGED <<app, bound, contexts, proved, proofs, passed, faults>>,
         NEW n \in DOMAIN regs, NEW kind \in Kinds, Asked(n, kind, regs[n])
  PROVE  IndInv' /\ Forward
  <1>1. n \in 1 .. (Len(regs) + 1) /\ n <= MaxSockets /\ regs[n] \in Reg
    <2>1. Len(regs) \in Nat /\ n \in 1 .. Len(regs) /\ Len(regs) <= MaxSockets
      BY Elements DEF IndInv, TypeOK
    <2> QED BY <2>1, Elements, CaptureConstants DEF IndInv
  <1>2. TypeOK'
    BY <1>1, AskTyped
  <1>3. /\ regs[n].context # NoContext => regs[n].context.at <= app.at
        /\ ~ regs[n].ambiguous /\ regs[n].context = NoContext => ~ regs[n].managed
    BY DEF IndInv, RegInv, RegOK
  <1> QED BY <1>1, <1>2, <1>3, AskKeeps

LEMMA ObservedStep ==
  ASSUME IndInv, NEW n \in DOMAIN regs, Observed(n)
  PROVE  IndInv' /\ Forward
  BY SocketAsks DEF Observed, Kinds

LEMMA ProbeStep ==
  ASSUME IndInv, Probe
  PROVE  IndInv' /\ Forward
  <1>1. Len(regs) \in DOMAIN regs
    <2>1. Len(regs) \in Nat /\ DOMAIN regs = 1 .. Len(regs) /\ regs # <<>> /\ regs \in Seq(Reg)
      BY Elements DEF Probe, IndInv, TypeOK
    <2> QED BY <2>1, EmptySeq
  <1> DEFINE n == Len(regs)
  <1>2. /\ UNCHANGED <<app, bound, contexts, proved, proofs, passed, faults>>
        /\ Asked(n, "probe", regs[n]) /\ "probe" \in Kinds
    BY DEF Probe, Kinds
  <1> HIDE DEF n
  <1> QED BY <1>1, <1>2, SocketAsks DEF n

\* A write passed is a typed record.
LEMMA PassesTyped ==
  ASSUME TypeOK, NEW n, NEW at \in Times, NEW asked \in Times, NEW astray \in BOOLEAN, Passes(n, at, asked, astray)
  PROVE  passed' \subseteq [at : Times, asked : Times, proofs : SUBSET Times, astray : BOOLEAN]
  <1>1. ProofsOf(n) \subseteq Times
    BY DEF ProofsOf, TypeOK
  <1> HIDE DEF Times
  <1> QED BY <1>1 DEF Passes

\* A managed socket without a context is refused, so no proof was given for the
\* socket whose write needs none.
LEMMA WriteStep ==
  ASSUME IndInv, NEW n \in DOMAIN regs, Write(n)
  PROVE  IndInv' /\ Forward
  <1>1. CASE regs[n].context = NoContext
    <2>1. /\ Passes(n, app.at, app.at, regs[n].managed) /\ ~ regs[n].ambiguous
          /\ UNCHANGED <<app, bound, contexts, regs, reqs, proved, proofs, faults>>
      BY <1>1 DEF Write
    <2>2. app.at \in Times /\ app.at \in Nat /\ regs[n].managed \in BOOLEAN
      BY Elements, Figures DEF IndInv, TypeOK, Content, Reg
    <2>3. TypeOK'
      <3>1. passed' \subseteq [at : Times, asked : Times, proofs : SUBSET Times, astray : BOOLEAN]
        BY <2>1, <2>2, PassesTyped DEF IndInv
      <3> QED BY <2>1, <3>1 DEF IndInv, TypeOK
    <2>4. regs[n].managed = FALSE
      BY <1>1, <2>1, <2>2 DEF IndInv, RegInv, RegOK
    <2>5. ProofsOf(n) = {}
      BY <1>1 DEF ProofsOf, IndInv, ProofsInv
    <2>6. WritesJudged'
      BY <2>1, <2>2, <2>4, <2>5 DEF Passes, WritesJudged
    <2>7. RegsStay /\ ReqsMove /\ app'.at >= app.at
      BY <2>1, <2>2, RegsStill, ReqsStill DEF IndInv
    <2> QED BY <2>1, <2>3, <2>6, <2>7, StayKeeps
  <1>2. CASE regs[n].context # NoContext
    BY <1>2, SocketAsks DEF Write, Kinds
  <1> QED BY <1>1, <1>2

LEMMA OpenStep ==
  ASSUME IndInv, NEW s \in Sessions, Open(s)
  PROVE  IndInv' /\ Forward
  <1> DEFINE n == Len(regs) + 1
  <1>1. n \in 1 .. n /\ n <= MaxSockets /\ n \notin DOMAIN regs
    BY Elements DEF IndInv, Open
  <1>2. UNCHANGED <<app, bound, contexts, proved, proofs, passed, faults>>
    BY DEF Open
  <1>3. CASE Managed
    <2> DEFINE c   == Historical(s)
               reg == NewReg(s, c, TRUE, FALSE)
    <2>1. c = NoContext \/ \E i \in DOMAIN contexts : c = contexts[i]
      BY HistoricalIsOne DEF IndInv
    <2>2. c \in Context \cup {NoContext} /\ (c # NoContext => c.at <= app.at)
      BY <2>1, Elements DEF IndInv, ContextsInv
    <2>3. Asked(n, "configure", reg) /\ "configure" \in Kinds
      BY <1>3 DEF Open, Kinds
    <2> HIDE DEF c
    <2>4. reg \in Reg /\ reg.context = c /\ reg.ambiguous = TRUE
      BY <2>2, NewRegShape
    <2> HIDE DEF n, reg
    <2>5. n \in 1 .. (Len(regs) + 1)
      BY <1>1 DEF n
    <2>6. TypeOK'
      BY <1>1, <1>2, <2>3, <2>4, <2>5, AskTyped
    <2>7. reg.context # NoContext => reg.context.at <= app.at
      BY <2>2, <2>4
    <2> QED BY <1>1, <1>2, <2>3, <2>4, <2>5, <2>6, <2>7, AskKeeps
  <1>4. CASE ~ Managed
    <2> DEFINE reg == NewReg(s, NoContext, FALSE, TRUE)
    <2>1. regs' = Append(regs, reg) /\ reqs' = reqs
      BY <1>4 DEF Open
    <2>2. reg \in Reg /\ reg.context = NoContext /\ reg.managed = Managed
      <3> DEFINE no  == FALSE
                 yes == TRUE
      <3>1. no \in BOOLEAN /\ yes \in BOOLEAN /\ reg = NewReg(s, NoContext, no, yes)
        OBVIOUS
      <3> HIDE DEF no, yes, reg
      <3> QED BY <3>1, NewRegShape
    <2> HIDE DEF reg
    <2>3. /\ regs' \in Seq(Reg) /\ Len(regs') = n /\ DOMAIN regs' = DOMAIN regs \cup {n}
          /\ (\A j \in DOMAIN regs : regs'[j] = regs[j]) /\ regs'[n] = reg
      BY <2>1, <2>2, Appended DEF IndInv, TypeOK
    <2>4. TypeOK'
      BY <1>1, <1>2, <2>1, <2>3 DEF IndInv, TypeOK
    <2>5. RegsStay
      BY <2>3, StillSelf DEF IndInv, RegsStay
    <2>6. ASSUME NEW m \in DOMAIN regs', m \notin DOMAIN regs
          PROVE  RegOK(m)'
      BY <1>4, <2>2, <2>3, <2>6 DEF RegOK
    <2>7. app'.at >= app.at /\ ReqsMove
      BY <1>2, <2>1, ReqsStill, Figures DEF IndInv
    <2> QED BY <1>2, <2>4, <2>5, <2>6, <2>7, StayKeeps
  <1> QED BY <1>3, <1>4

LEMMA OpenFailsStep ==
  ASSUME IndInv, NEW s \in Sessions, OpenFails(s)
  PROVE  IndInv' /\ Forward
  <1> DEFINE n   == Len(regs) + 1
             reg == NewReg(s, NoContext, TRUE, TRUE)
  <1>1. /\ UNCHANGED <<app, bound, contexts, reqs, proved, proofs, passed>> /\ faults' \in Nat
        /\ regs' = Append(regs, reg) /\ Len(regs) < MaxSockets
    BY FaultTyped DEF OpenFails, IndInv
  <1>2. reg \in Reg /\ reg.context = NoContext /\ reg.ambiguous = TRUE
    BY NewRegShape
  <1> HIDE DEF reg
  <1>3. /\ regs' \in Seq(Reg) /\ Len(regs') = n /\ DOMAIN regs' = DOMAIN regs \cup {n}
        /\ (\A j \in DOMAIN regs : regs'[j] = regs[j]) /\ regs'[n] = reg
    BY <1>1, <1>2, Appended DEF IndInv, TypeOK
  <1>4. n <= MaxSockets
    BY <1>1, Elements, CaptureConstants DEF IndInv
  <1>5. TypeOK'
    BY <1>1, <1>3, <1>4 DEF IndInv, TypeOK
  <1>6. RegsStay
    BY <1>3, StillSelf DEF IndInv, RegsStay
  <1>7. ASSUME NEW m \in DOMAIN regs', m \notin DOMAIN regs
        PROVE  RegOK(m)'
    BY <1>2, <1>3, <1>7 DEF RegOK
  <1>8. app'.at >= app.at /\ ReqsMove
    BY <1>1, ReqsStill, Figures DEF IndInv
  <1> QED BY <1>1, <1>5, <1>6, <1>7, <1>8, StayKeeps

LEMMA PairStep ==
  ASSUME IndInv, NEW s \in Sessions, Pair(s)
  PROVE  IndInv' /\ Forward
  <1> DEFINE n == Len(regs)
             r == [regs[n] EXCEPT !.session = s]
  <1>1. /\ UNCHANGED <<app, bound, contexts, reqs, proved, proofs, passed, faults>>
        /\ regs' = [regs EXCEPT ![n] = r]
    BY DEF Pair
  <1>2. n \in DOMAIN regs
    <2>1. Len(regs) \in Nat /\ DOMAIN regs = 1 .. Len(regs) /\ regs # <<>> /\ regs \in Seq(Reg)
      BY Elements DEF Pair, IndInv, TypeOK
    <2> QED BY <2>1, EmptySeq
  <1>3. regs[n] \in Reg
    BY <1>2, Elements DEF IndInv
  <1>4. r \in Reg /\ Same(regs[n], r)
    BY <1>3 DEF Reg, Same
  <1> HIDE DEF n, r
  <1>5. /\ regs' \in Seq(Reg) /\ Len(regs') = Len(regs) /\ DOMAIN regs' = DOMAIN regs
        /\ \A j \in DOMAIN regs : regs'[j] = IF j = n THEN r ELSE regs[j]
    BY <1>1, <1>2, <1>4, Changed DEF IndInv, TypeOK
  <1>6. TypeOK'
    BY <1>1, <1>5 DEF IndInv, TypeOK
  <1>7. RegsStay
    BY <1>4, <1>5, StillSelf DEF IndInv, RegsStay
  <1>8. app'.at >= app.at /\ ReqsMove
    BY <1>1, ReqsStill, Figures DEF IndInv
  <1> QED BY <1>1, <1>5, <1>6, <1>7, <1>8, StayKeeps

-----------------------------------------------------------------------------
\* The socket of a request in work is one of the registrations.
LEMMA SockOf ==
  ASSUME IndInv, NEW i \in DOMAIN reqs, reqs[i].pc # "done"
  PROVE  reqs[i].sock \in DOMAIN regs
  BY DEF IndInv, ReqInv, ReqOK

LEMMA DoneMoves ==
  ASSUME NEW q, NEW t, t.pc = "done"
  PROVE  Moves(q, t)
  BY DEF Moves

\* configure's end makes no difference to the context.
LEMMA ReadiedStay ==
  ASSUME IndInv, NEW i \in DOMAIN reqs, reqs[i].pc # "done", regs' = Readied(i)
  PROVE  /\ RegsStay /\ DOMAIN regs' = DOMAIN regs
         /\ regs' \in Seq(Reg) /\ Len(regs') <= MaxSockets
  <1>1. /\ regs' \in Seq(Reg) /\ Len(regs') = Len(regs) /\ DOMAIN regs' = DOMAIN regs
        /\ \A j \in DOMAIN regs : Still(regs[j], regs'[j])
    BY SockOf, ReadiedShape DEF IndInv
  <1> QED BY <1>1 DEF IndInv, TypeOK, RegsStay, Still

LEMMA InstalledTyped ==
  ASSUME IndInv, NEW i \in DOMAIN reqs, reqs[i].pc # "done", Installs(i), regs' = Installed(i)
  PROVE  regs' \in Seq(Reg) /\ Len(regs') <= MaxSockets
  <1>1. reqs[i].context # NoContext
    BY DEF Installs, Current
  <1> QED BY <1>1, SockOf, InstalledShape DEF IndInv, TypeOK

\* A request ends without an installation.
LEMMA ClosedKeeps ==
  ASSUME IndInv, NEW i \in DOMAIN reqs, Closed(i), TypeOK', RegsStay, DOMAIN regs' = DOMAIN regs, app' = app,
         contexts' = contexts \/ ContextsInv', proofs' = proofs \/ ProofsInv', passed' = passed \/ WritesJudged'
  PROVE  IndInv' /\ Forward
  <1>1. ReqsMove
    BY ClosedShape, DoneMoves, OneMoves DEF IndInv
  <1>2. app'.at >= app.at
    BY Figures DEF IndInv
  <1> QED BY <1>1, <1>2, StayKeeps

LEMMA FailsStep ==
  ASSUME IndInv, NEW i \in DOMAIN reqs, Fails(i)
  PROVE  IndInv' /\ Forward
  <1>1. /\ Closed(i) /\ regs' = Readied(i) /\ reqs[i].pc # "done" /\ Fault
        /\ UNCHANGED <<app, bound, contexts, proved, proofs, passed>>
    BY DEF Fails
  <1>2. /\ RegsStay /\ DOMAIN regs' = DOMAIN regs
        /\ regs' \in Seq(Reg) /\ Len(regs') <= MaxSockets
    BY <1>1, ReadiedStay
  <1>3. reqs' \in Seq(Req) /\ faults' \in Nat
    BY <1>1, ClosedShape, FaultTyped DEF IndInv, Others
  <1>4. TypeOK'
    BY <1>1, <1>2, <1>3 DEF IndInv, TypeOK
  <1> QED BY <1>1, <1>2, <1>4, ClosedKeeps

LEMMA AnswerStep ==
  ASSUME IndInv, NEW i \in DOMAIN reqs, Answer(i)
  PROVE  IndInv' /\ Forward
  <1>1. reqs[i].pc = "asked" /\ UNCHANGED <<app, bound, contexts, proved, proofs, passed, faults>>
    BY DEF Answer
  <1>2. CASE bound
    <2>1. regs' = regs
      BY <1>2 DEF Answer
    <2>2. /\ Others(i) /\ reqs'[i].pc = "answered" /\ reqs'[i].sock = reqs[i].sock
          /\ reqs'[i].rev = reqs[i].rev /\ reqs'[i].session = reqs[i].session /\ reqs'[i].asked = reqs[i].asked
          /\ reqs'[i].context # NoContext /\ reqs'[i].context.session = reqs[i].session
          /\ reqs'[i].context.at = app.at
      BY <1>2, AnswerShape DEF IndInv
    <2>3. Moves(reqs[i], reqs'[i])
      BY <1>1, <2>2 DEF Moves
    <2>4. TypeOK'
      BY <1>1, <2>1, <2>2 DEF IndInv, TypeOK, Others
    <2>5. RegsStay /\ ReqsMove /\ app'.at >= app.at
      BY <1>1, <2>1, <2>2, <2>3, RegsStill, OneMoves, Figures DEF IndInv
    <2> QED BY <1>1, <2>1, <2>4, <2>5, StayKeeps
  <1>3. CASE ~ bound
    <2>1. Closed(i) /\ regs' = Readied(i)
      BY <1>3 DEF Answer
    <2>2. /\ RegsStay /\ DOMAIN regs' = DOMAIN regs
          /\ regs' \in Seq(Reg) /\ Len(regs') <= MaxSockets
      BY <1>1, <2>1, ReadiedStay
    <2>3. reqs' \in Seq(Req)
      BY <2>1, ClosedShape DEF IndInv, Others
    <2>4. TypeOK'
      BY <1>1, <2>2, <2>3 DEF IndInv, TypeOK
    <2> QED BY <1>1, <2>1, <2>2, <2>4, ClosedKeeps
  <1> QED BY <1>2, <1>3

\* The answer is stored in the database, once.
LEMMA StoredContexts ==
  ASSUME IndInv, NEW i \in DOMAIN reqs, reqs[i].pc = "answered", app' = app,
         contexts' = IF Known(reqs[i].context) THEN contexts ELSE Append(contexts, reqs[i].context)
  PROVE  contexts' \in Seq(Context) /\ ContextsInv'
  <1>1. CASE contexts' = contexts
    BY <1>1 DEF IndInv, TypeOK, ContextsInv
  <1>2. CASE contexts' = Append(contexts, reqs[i].context)
    <2> DEFINE c == reqs[i].context
    <2>1. c # NoContext /\ c.at <= app.at
      BY DEF IndInv, ReqInv, ReqOK
    <2>2. c \in Context
      BY <2>1, Elements DEF IndInv, Req
    <2> HIDE DEF c
    <2>3. /\ contexts' \in Seq(Context) /\ DOMAIN contexts' = DOMAIN contexts \cup {Len(contexts) + 1}
          /\ \A j \in DOMAIN contexts : contexts'[j] = contexts[j]
          /\ contexts'[Len(contexts) + 1] = c
      BY <1>2, <2>2, Appended DEF IndInv, TypeOK, c
    <2> QED BY <2>1, <2>3 DEF IndInv, ContextsInv
  <1> QED BY <1>1, <1>2

\* A write is judged by an answer to a request of its own, which was asked when
\* the write began, after what its socket knew, and so after every proof.
LEMMA StoreJudged ==
  ASSUME IndInv, NEW i \in DOMAIN reqs, reqs[i].pc = "answered", Installs(i),
         Passes(reqs[i].sock, reqs[i].context.at, reqs[i].asked, FALSE)
  PROVE  /\ WritesJudged'
         /\ passed' \subseteq [at : Times, asked : Times, proofs : SUBSET Times, astray : BOOLEAN]
  <1> DEFINE q == reqs[i]
             n == q.sock
  <1>1. q.context # NoContext /\ regs[n].rev = q.rev
    BY DEF Installs, Current
  <1>2. q.asked <= q.context.at /\ (regs[n].context # NoContext => regs[n].context.at <= q.asked)
    BY <1>1 DEF IndInv, ReqInv, ReqOK
  <1>3. q.context.at \in Times /\ q.asked \in Times /\ FALSE \in BOOLEAN
    BY <1>1, Elements DEF IndInv, Req, Context
  <1>4. passed' \subseteq [at : Times, asked : Times, proofs : SUBSET Times, astray : BOOLEAN]
    <2> HIDE DEF q
    <2> DEFINE no == FALSE
    <2>1. Passes(n, q.context.at, q.asked, no) /\ no \in BOOLEAN
      BY <1>3 DEF q
    <2> HIDE DEF no, n
    <2> QED BY <1>3, <2>1, PassesTyped DEF IndInv
  <1>5. ASSUME NEW t \in ProofsOf(n)
        PROVE  t <= q.context.at
    <2>1. PICK p \in proofs : p.sock = n /\ t = p.at
      BY DEF ProofsOf
    <2>2. n \in DOMAIN regs /\ regs[n].context # NoContext /\ t <= regs[n].context.at
      BY <2>1 DEF IndInv, ProofsInv
    <2>3. t \in Nat /\ q.asked \in Nat /\ q.context.at \in Nat /\ regs[n].context.at \in Nat
      BY <1>1, <2>1, <2>2, Figures, CaptureConstants DEF IndInv, TypeOK, Times
    <2> QED BY <1>2, <2>2, <2>3
  <1>6. ASSUME NEW t \in ProofsOf(n)
        PROVE  q.context.at >= t
    BY <1>5
  <1>7. q.context.at >= q.asked
    BY <1>2
  <1> QED BY <1>4, <1>6, <1>7 DEF Passes, WritesJudged

LEMMA StoreStep ==
  ASSUME IndInv, NEW i \in DOMAIN reqs, Store(i)
  PROVE  IndInv' /\ Forward
  <1> DEFINE q == reqs[i]
  <1>1. /\ q.pc = "answered" /\ UNCHANGED <<app, bound, proved, proofs, faults>>
        /\ contexts' = IF Known(q.context) THEN contexts ELSE Append(contexts, q.context)
    BY DEF Store
  <1>2. contexts' \in Seq(Context) /\ ContextsInv'
    BY <1>1, StoredContexts
  <1>3. ASSUME Closed(i), UNCHANGED <<regs, passed>>
        PROVE  IndInv' /\ Forward
    <2>1. reqs' \in Seq(Req) /\ RegsStay
      BY <1>3, ClosedShape, RegsStill DEF IndInv, Others
    <2>2. TypeOK'
      BY <1>1, <1>2, <1>3, <2>1 DEF IndInv, TypeOK
    <2> QED BY <1>1, <1>2, <1>3, <2>1, <2>2, ClosedKeeps
  <1>4. ASSUME NEW pc \in {"observe", "prove"}, To(i, pc), UNCHANGED <<regs, passed>>
        PROVE  IndInv' /\ Forward
    <2>1. /\ Others(i) /\ reqs'[i].pc = pc /\ reqs'[i].sock = q.sock
          /\ reqs'[i].rev = q.rev /\ reqs'[i].session = q.session
          /\ reqs'[i].context = q.context /\ reqs'[i].asked = q.asked
      BY <1>4, ToShape DEF IndInv
    <2>2. Moves(q, reqs'[i])
      BY <1>1, <2>1 DEF Moves
    <2>3. TypeOK'
      BY <1>1, <1>2, <1>4, <2>1 DEF IndInv, TypeOK, Others
    <2>4. RegsStay /\ ReqsMove /\ app'.at >= app.at
      BY <1>1, <1>4, <2>1, <2>2, RegsStill, OneMoves, Figures DEF IndInv
    <2> QED BY <1>1, <1>2, <1>4, <2>3, <2>4, StayKeeps
  <1>5. ASSUME Closed(i), regs' = IF Installs(i) THEN Installed(i) ELSE Readied(i),
               IF q.kind = "write" /\ Installs(i) /\ ~ q.context.cutover
               THEN Passes(q.sock, q.context.at, q.asked, FALSE) ELSE UNCHANGED passed
        PROVE  IndInv' /\ Forward
    <2>1. Others(i) /\ reqs'[i].pc = "done"
      BY <1>5, ClosedShape DEF IndInv
    <2>2. regs' \in Seq(Reg) /\ Len(regs') <= MaxSockets
      BY <1>1, <1>5, InstalledTyped, ReadiedStay
    <2>3. /\ passed' \subseteq [at : Times, asked : Times, proofs : SUBSET Times, astray : BOOLEAN]
          /\ passed' = passed \/ WritesJudged'
      BY <1>1, <1>5, StoreJudged DEF IndInv, TypeOK
    <2>4. TypeOK'
      BY <1>1, <1>2, <2>1, <2>2, <2>3 DEF IndInv, TypeOK, Others
    <2>5. CASE Installs(i)
      <3>1. regs' = Installed(i) /\ reqs[i].pc \notin {"done", "asked", "proving"}
        BY <1>1, <1>5, <2>5
      <3> QED BY <1>1, <1>2, <2>1, <2>3, <2>4, <2>5, <3>1, InstallKeeps
    <2>6. CASE ~ Installs(i)
      <3>1. RegsStay /\ DOMAIN regs' = DOMAIN regs
        BY <1>1, <1>5, <2>6, ReadiedStay
      <3> QED BY <1>1, <1>2, <1>5, <2>3, <2>4, <3>1, ClosedKeeps
    <2> QED BY <2>5, <2>6
  <1> QED BY <1>3, <1>4, <1>5 DEF Store

LEMMA ObserveStep ==
  ASSUME IndInv, NEW i \in DOMAIN reqs, Observe(i)
  PROVE  IndInv' /\ Forward
  <1>1. /\ reqs[i].pc = "observe" /\ Closed(i) /\ proved' = proved \cup {reqs[i].session}
        /\ regs' = IF Installs(i) THEN Installed(i) ELSE regs
        /\ UNCHANGED <<app, bound, contexts, proofs, passed, faults>>
    BY DEF Observe
  <1>2. Others(i) /\ reqs'[i].pc = "done" /\ reqs[i].session \in Sessions
    BY <1>1, ClosedShape, Elements DEF IndInv, Req
  <1>3. regs' \in Seq(Reg) /\ Len(regs') <= MaxSockets
    BY <1>1, InstalledTyped DEF IndInv, TypeOK
  <1>4. TypeOK'
    BY <1>1, <1>2, <1>3 DEF IndInv, TypeOK, Others
  <1>5. CASE Installs(i)
    BY <1>1, <1>2, <1>4, <1>5, InstallKeeps
  <1>6. CASE ~ Installs(i)
    <2>1. RegsStay /\ regs' = regs
      BY <1>1, <1>6, RegsStill DEF IndInv
    <2> QED BY <1>1, <1>4, <2>1, ClosedKeeps
  <1> QED BY <1>5, <1>6

LEMMA ProveStep ==
  ASSUME IndInv, NEW i \in DOMAIN reqs, Prove(i)
  PROVE  IndInv' /\ Forward
  <1>1. reqs[i].pc = "prove" /\ UNCHANGED <<app, bound, contexts, proved, proofs, passed, faults>>
    BY DEF Prove
  <1>2. CASE Installs(i)
    <2>1. To(i, "proving") /\ regs' = Installed(i)
      BY <1>2 DEF Prove
    <2>2. /\ Others(i) /\ reqs'[i].pc = "proving" /\ reqs'[i].sock = reqs[i].sock
          /\ reqs'[i].rev = reqs[i].rev /\ reqs'[i].session = reqs[i].session
          /\ reqs'[i].context = reqs[i].context /\ reqs'[i].asked = reqs[i].asked
      BY <2>1, ToShape DEF IndInv
    <2>3. regs' \in Seq(Reg) /\ Len(regs') <= MaxSockets
      BY <1>1, <1>2, <2>1, InstalledTyped
    <2>4. TypeOK'
      BY <1>1, <2>2, <2>3 DEF IndInv, TypeOK, Others
    <2> QED BY <1>1, <1>2, <2>1, <2>2, <2>4, InstallKeeps
  <1>3. CASE ~ Installs(i)
    <2>1. Closed(i) /\ regs' = regs /\ RegsStay
      BY <1>3, RegsStill DEF Prove, IndInv
    <2>2. reqs' \in Seq(Req)
      BY <2>1, ClosedShape DEF IndInv, Others
    <2>3. TypeOK'
      BY <1>1, <2>1, <2>2 DEF IndInv, TypeOK
    <2> QED BY <1>1, <2>1, <2>3, ClosedKeeps
  <1> QED BY <1>2, <1>3

\* The proof is given under the context its socket has.
LEMMA ProofEndsStep ==
  ASSUME IndInv, NEW i \in DOMAIN reqs, ProofEnds(i)
  PROVE  IndInv' /\ Forward
  <1> DEFINE q == reqs[i]
  <1>1. /\ q.pc = "proving" /\ Closed(i) /\ UNCHANGED <<app, bound, contexts, regs, proved, passed, faults>>
        /\ proofs' = IF Current(i) /\ regs[q.sock].context = q.context
                     THEN proofs \cup {[sock |-> q.sock, at |-> q.context.at]} ELSE proofs
    BY DEF ProofEnds
  <1>2. q.sock \in DOMAIN regs /\ q.context # NoContext
    BY <1>1 DEF IndInv, ReqInv, ReqOK
  <1>3. q.context.at \in Times /\ q.sock \in 1 .. MaxSockets /\ q.context.at \in Nat
    BY <1>2, Elements, Figures DEF IndInv, Req, Context
  <1>4. reqs' \in Seq(Req)
    BY <1>1, ClosedShape DEF IndInv, Others
  <1> DEFINE p == [sock |-> q.sock, at |-> q.context.at]
  <1>5. p \in [sock : 1 .. MaxSockets, at : Times] /\ p.sock = q.sock /\ p.at = q.context.at
    BY <1>3
  <1>6. proofs' = proofs \/ (proofs' = proofs \cup {p} /\ regs[q.sock].context = q.context)
    BY <1>1
  <1> HIDE DEF p
  <1>7. proofs' \subseteq [sock : 1 .. MaxSockets, at : Times]
    BY <1>5, <1>6 DEF IndInv, TypeOK
  <1>8. TypeOK'
    BY <1>1, <1>4, <1>7 DEF IndInv, TypeOK
  <1>9. ProofsInv'
    <2> SUFFICES ASSUME NEW o \in proofs'
                 PROVE  /\ o.sock \in DOMAIN regs /\ regs[o.sock].context # NoContext
                        /\ o.at <= regs[o.sock].context.at
      BY <1>1 DEF ProofsInv
    <2>1. CASE o \in proofs
      BY <2>1 DEF IndInv, ProofsInv
    <2>2. CASE o \notin proofs
      BY <1>2, <1>3, <1>5, <1>6, <2>2
    <2> QED BY <2>1, <2>2
  <1>10. RegsStay
    BY <1>1, RegsStill DEF IndInv
  <1> QED BY <1>1, <1>8, <1>9, <1>10, ClosedKeeps

-----------------------------------------------------------------------------
LEMMA WorkStep ==
  ASSUME IndInv, NEW i \in DOMAIN reqs, Work(i) \/ Fails(i)
  PROVE  IndInv' /\ Forward
  BY AnswerStep, StoreStep, ObserveStep, ProveStep, ProofEndsStep, FailsStep DEF Work

LEMMA StutterStep ==
  ASSUME IndInv, UNCHANGED vars
  PROVE  IndInv' /\ Forward
  <1>1. UNCHANGED <<app, bound, contexts, regs, reqs, proved, proofs, passed, faults>>
    BY DEF vars
  <1>2. TypeOK'
    BY <1>1 DEF IndInv, TypeOK
  <1>3. RegsStay /\ ReqsMove /\ app'.at >= app.at
    BY <1>1, RegsStill, ReqsStill, Figures DEF IndInv
  <1> QED BY <1>1, <1>2, <1>3, StayKeeps

LEMMA NextInd ==
  ASSUME IndInv, [Next]_vars
  PROVE  IndInv' /\ Forward
  <1>1. ASSUME NEW s \in Sessions, Open(s) \/ OpenFails(s) \/ Pair(s)
        PROVE  IndInv' /\ Forward
    BY <1>1, OpenStep, OpenFailsStep, PairStep
  <1>2. ASSUME NEW n \in DOMAIN regs, Observed(n) \/ Write(n)
        PROVE  IndInv' /\ Forward
    BY <1>2, ObservedStep, WriteStep
  <1> QED BY <1>1, <1>2, AdvanceStep, RebindStep, ProbeStep, WorkStep, StutterStep DEF Next

\* Along every behaviour all of it holds: the numbers of requests and registrations,
\* and what is known, asked and proved under them (registrationContext).
THEOREM SpecInd == Spec => []IndInv
  <1>1. Init => IndInv
    BY InitInd
  <1>2. IndInv /\ [Next]_vars => IndInv'
    BY NextInd
  <1> QED BY <1>1, <1>2, PTL DEF Spec

\* Every write that passes is judged by a context the APP gave after the write was
\* begun and no earlier than any proof of isolation given by then, and none passes
\* without a context on a managed socket, however requests, answers, failures and
\* changes of credentials interleave (assertNode, installCaptureContext).
THEOREM CaptureHolds == Spec => []CaptureInv
  <1>1. IndInv => CaptureInv
    BY DEF IndInv, CaptureInv
  <1> QED BY <1>1, SpecInd, PTL

\* No step takes a socket's context back: an answer that a later request has
\* overtaken is not installed (installCaptureContext, captureContextCurrent).
THEOREM ContextGoesForward == Spec => ContextForward
  <1>1. IndInv /\ [Next]_vars
        => [\A n \in DOMAIN regs :
              LET c == regs[n].context  d == regs'[n].context IN
              c # NoContext => d # NoContext /\ (c.session = d.session => d.at >= c.at /\ ~ Regresses(d, c))]_vars
    BY NextInd DEF Forward
  <1> QED BY <1>1, SpecInd, PTL DEF Spec, ContextForward

\* What ProofProgresses says of one step.
Progress ==
  \A i \in DOMAIN reqs : LET q == reqs[i] IN
    /\ q.kind = "observed" /\ q.pc \in {"answered", "observe"}
    /\ reqs'[i].pc = "done" /\ faults' = faults
    => q.session \in proved' \/ regs[q.sock].session # q.session

\* A request that is not worked on stays as it is; one that is, ends only so.
LEMMA OthersProgress ==
  ASSUME NEW i \in DOMAIN reqs, Others(i),
         LET q == reqs[i] IN
         /\ q.kind = "observed" /\ q.pc \in {"answered", "observe"}
         /\ reqs'[i].pc = "done" /\ faults' = faults
         => q.session \in proved' \/ regs[q.sock].session # q.session
  PROVE  Progress
  BY DEF Others, Progress

LEMMA StillProgress ==
  ASSUME \A i \in DOMAIN reqs : reqs'[i] = reqs[i]
  PROVE  Progress
  BY DEF Progress

LEMMA AskProgress ==
  ASSUME TypeOK, NEW n, NEW kind, NEW reg, Asked(n, kind, reg)
  PROVE  Progress
  <1>1. PICK q : reqs' = Append(reqs, q)
    BY DEF Asked
  <1>2. \A i \in DOMAIN reqs : reqs'[i] = reqs[i]
    BY <1>1, Elements
  <1> QED BY <1>2, StillProgress

LEMMA NextProgress ==
  ASSUME IndInv, [Next]_vars
  PROVE  Progress
  <1>1. ASSUME reqs' = reqs
        PROVE  Progress
    BY <1>1, StillProgress
  <1>2. ASSUME NEW s \in Sessions, Open(s) \/ OpenFails(s) \/ Pair(s)
        PROVE  Progress
    BY <1>1, <1>2, AskProgress DEF Open, OpenFails, Pair, IndInv
  <1>3. ASSUME NEW n \in DOMAIN regs, Observed(n) \/ Write(n)
        PROVE  Progress
    BY <1>1, <1>3, AskProgress DEF Observed, Write, IndInv
  <1>4. ASSUME Advance \/ Rebind \/ Probe
        PROVE  Progress
    BY <1>1, <1>4, AskProgress DEF Advance, Rebind, Probe, IndInv
  <1>5. ASSUME NEW i \in DOMAIN reqs, Work(i) \/ Fails(i)
        PROVE  Progress
    <2>1. CASE Answer(i)
      <3>1. Others(i)
        BY <2>1, AnswerShape, ClosedShape DEF Answer, IndInv
      <3>2. reqs[i].pc = "asked"
        BY <2>1 DEF Answer
      <3> QED BY <3>1, <3>2, OthersProgress
    <2>2. CASE Store(i)
      <3>1. CASE reqs[i].kind # "observed"
        <4>1. Others(i)
          BY <2>2, <3>1, ClosedShape, ToShape DEF Store, IndInv
        <4> QED BY <3>1, <4>1, OthersProgress
      <3>2. CASE reqs[i].kind = "observed" /\ regs[reqs[i].sock].session = reqs[i].session
        <4>1. To(i, "observe")
          BY <2>2, <3>2 DEF Store
        <4>2. Others(i) /\ reqs'[i].pc = "observe"
          BY <4>1, ToShape DEF IndInv
        <4> QED BY <4>2, OthersProgress
      <3>3. CASE reqs[i].kind = "observed" /\ regs[reqs[i].sock].session # reqs[i].session
        <4>1. Closed(i)
          BY <2>2, <3>3 DEF Store
        <4>2. Others(i)
          BY <4>1, ClosedShape DEF IndInv
        <4> QED BY <3>3, <4>2, OthersProgress
      <3> QED BY <3>1, <3>2, <3>3
    <2>3. CASE Observe(i)
      <3>1. Others(i) /\ reqs[i].session \in proved'
        BY <2>3, ClosedShape DEF Observe, IndInv
      <3> QED BY <3>1, OthersProgress
    <2>4. CASE Prove(i)
      <3>1. Others(i) /\ reqs[i].pc = "prove"
        BY <2>4, ClosedShape, ToShape DEF Prove, IndInv
      <3> QED BY <3>1, OthersProgress
    <2>5. CASE ProofEnds(i)
      <3>1. Others(i) /\ reqs[i].pc = "proving"
        BY <2>5, ClosedShape DEF ProofEnds, IndInv
      <3> QED BY <3>1, OthersProgress
    <2>6. CASE Fails(i)
      <3>1. faults' = faults + 1 /\ faults \in Nat
        BY <2>6 DEF Fails, Fault, IndInv, TypeOK
      <3>2. faults' # faults
        BY <3>1
      <3> QED BY <3>2 DEF Progress
    <2> QED BY <1>5, <2>1, <2>2, <2>3, <2>4, <2>5, <2>6 DEF Work
  <1>6. ASSUME UNCHANGED vars
        PROVE  Progress
    BY <1>1, <1>6 DEF vars
  <1> QED BY <1>2, <1>3, <1>4, <1>5, <1>6 DEF Next

\* An observed session whose context was answered is proved when its request ends,
\* whichever requests were installed meanwhile: only a failure or a change of the
\* credentials leaves it unproved (sessionObserved, refreshContext).
THEOREM ProofsProgress == Spec => ProofProgresses
  <1>1. IndInv /\ [Next]_vars
        => [\A i \in DOMAIN reqs : LET q == reqs[i] IN
              /\ q.kind = "observed" /\ q.pc \in {"answered", "observe"}
              /\ reqs'[i].pc = "done" /\ faults' = faults
              => q.session \in proved' \/ regs[q.sock].session # q.session]_vars
    BY NextProgress DEF Progress
  <1> QED BY <1>1, SpecInd, PTL DEF Spec, ProofProgresses

-----------------------------------------------------------------------------
(***************************************************************************)
(* Under the context of its socket every write is judged: RelayGate, here  *)
(* over constants and variables of its own, of which call c is relays[c].  *)
(* Its assumption on the constants is a hypothesis of its theorems.        *)
(***************************************************************************)
CONSTANTS Calls, Messages, NoMessage, Depth, Fanout
VARIABLES relays, session, mode, throws
Gate == INSTANCE RelayGate WITH at <- relays, faults <- throws

\* What a relay has encoded so far bears out what it is held for.
EncodedSound(r) ==
  /\ ~ r.direct /\ r.root \in Messages
  /\ r.purpose = "customer" => \A p \in r.payload : p.message.kind = "content"
  /\ r.internal => Gate!Marked(r.root, r.to) /\ \A p \in r.payload : p.message = r.root
  /\ ~ r.altered => \A p \in r.payload : p.message = r.root
  /\ ~ r.altered /\ r.patched # NoMessage => Gate!Same(r.patched, r.root)
  /\ ~ r.altered /\ r.control /\ Gate!Marked(r.root, r.to) => r.internal

\* A frame's proof is borne out by the frame.
ProofSound(r) ==
  /\ r.proof = "customer" => \A p \in r.fixed.payload : p.message.kind = "content"
  /\ r.proof = "internal_control" =>
       r.fixed.to = "own" /\ \A p \in r.fixed.payload : p.message.kind = "resend" /\ p.message.wraps = 0

\* The frame a caller handed over, or the one its message was made into.
FrameSound(r) ==
  ~ r.direct /\ ~ r.altered => \A p \in r.fixed.payload : p.message = r.root

\* The control that nobody altered.
Pristine(r) == r.control /\ r.encoded > 0 /\ ~ r.altered /\ Gate!Marked(r.root, r.to)

\* What a frame that passed is, WireJudged for one call.
Passing(r, f) ==
  f.tag = "message" /\ r.seen.mode # "legacy" /\ f.to # "group" =>
    /\ f.id # "foundation"
    /\ \/ r.seen.mode = "captured" /\ \A p \in f.payload : p.message.kind = "content"
       \/ /\ f.to = "own" /\ r.seen.session = r.session
          /\ \A p \in f.payload : p.message.kind = "resend" /\ p.message.wraps = 0

\* One call, with the session, the mode and the faults around it.
Sound(r, s, md, n) ==
  /\ r.pc = "idle" => r = Gate!Idle(r.session)
  /\ n = 0 /\ r.pc # "idle" /\ ~ r.direct => r.session = s
  /\ r.direct => ~ r.control
  /\ r.pc = "encoding" => EncodedSound(r)
  /\ r.pc \in {"lookup", "context"} =>
       /\ ProofSound(r) /\ FrameSound(r) /\ md # "legacy"
       /\ r.fixed.tag = "message" /\ r.fixed.id # "foundation"
       /\ n = 0 /\ Pristine(r) => r.proof = "internal_control"
  /\ r.pc = "context" => r.proof = "customer"
  /\ r.pc = "passed" => FrameSound(r) /\ Passing(r, r.fixed)
  /\ r.pc = "written" => r.out = r.fixed /\ FrameSound(r) /\ Passing(r, r.out)
  /\ r.pc = "denied" /\ n = 0 /\ r.id = "fresh" /\ r.fixed.id = "fresh" =>
       md # "legacy" /\ ~ Pristine(r)

GateInd ==
  Gate!RelayConstants /\ Gate!TypeOK /\ \A c \in Calls : Sound(relays[c], session, mode, throws)

-----------------------------------------------------------------------------
\* Direct frames are frames.
LEMMA DirectTyped == Gate!DirectFrames \subseteq Gate!Frames
  BY DEF Gate!DirectFrames, Gate!Frames

\* The purposes of messages, and of several of them.
LEMMA PurposeTyped ==
  ASSUME Gate!RelayConstants
  PROVE
  /\ \A m \in Messages : Gate!Purpose(m) \in Gate!Purposes /\ (Gate!Purpose(m) = "customer" => m.kind = "content")
  /\ \A p, q \in Gate!Purposes :
       Gate!Join(p, q) \in Gate!Purposes /\ (Gate!Join(p, q) = "customer" => p = "customer" /\ q = "customer")
  BY Gate!RelayConstants DEF Gate!Purpose, Gate!PurposeOfKind, Gate!Join, Gate!Purposes, Gate!AllMessages, Gate!Kinds

\* A call yet to be made is of its type.
LEMMA IdleTyped == \A s \in Sessions : Gate!Idle(s) \in Gate!Locals
  BY DEF Gate!Idle, Gate!Locals, Gate!Stages, Gate!Recipients, Gate!Ids, Gate!Purposes, Gate!Frames, Gate!NoFrame, Gate!Modes

\* Where one call goes, the others stay.
LEMMA Went ==
  ASSUME Gate!TypeOK, NEW c \in Calls, NEW r \in Gate!Locals, relays' = [relays EXCEPT ![c] = r]
  PROVE  /\ relays' \in [Calls -> Gate!Locals] /\ relays'[c] = r
         /\ \A d \in Calls \ {c} : relays'[d] = relays[d]
  BY DEF Gate!TypeOK

\* A call that stays is not disturbed by what the others, pairings and other
\* requests do.
LEMMA StaysSound ==
  ASSUME NEW r, NEW s, NEW t, NEW md, NEW me, NEW n \in Nat, NEW k \in Nat,
         Sound(r, s, md, n), (k = n /\ t = s) \/ k = n + 1, me = md \/ me # "legacy"
  PROVE  Sound(r, t, me, k)
  <1>1. k = 0 => n = 0 /\ t = s
    OBVIOUS
  <1> QED BY <1>1 DEF Sound

-----------------------------------------------------------------------------
LEMMA InitGateInd == Gate!RelayConstants /\ Gate!Init => GateInd
  <1> SUFFICES ASSUME Gate!RelayConstants, Gate!Init PROVE GateInd
    OBVIOUS
  <1>1. Gate!TypeOK
    BY IdleTyped DEF Gate!Init, Gate!TypeOK
  <1>2. ASSUME NEW c \in Calls PROVE Sound(relays[c], session, mode, throws)
    <2>1. relays[c] = Gate!Idle(session)
      BY DEF Gate!Init
    <2>2. relays[c].pc = "idle" /\ ~ relays[c].direct /\ relays[c] = Gate!Idle(relays[c].session)
      BY <2>1 DEF Gate!Idle
    <2> QED BY <2>2 DEF Sound
  <1> QED BY <1>1, <1>2 DEF GateInd

-----------------------------------------------------------------------------
\* Each step leaves its own call typed and sound.
LEMMA RelaySound ==
  ASSUME GateInd, NEW c \in Calls, NEW m \in Messages, NEW control \in BOOLEAN,
         NEW to \in Gate!Recipients, NEW id \in Gate!Ids, relays[c].pc = "idle",
         NEW b \in BOOLEAN, b <=> control /\ Gate!Marked(m, to),
         NEW r, r = [relays[c] EXCEPT !.pc = "encoding", !.control = control, !.to = to, !.id = id,
                       !.root = m, !.session = session, !.purpose = Gate!Purpose(m),
                       !.internal = b]
  PROVE  r \in Gate!Locals /\ Sound(r, session, mode, throws)
  <1>0. Gate!RelayConstants BY DEF GateInd
  <1>1. relays[c] \in Gate!Locals /\ session \in Sessions /\ relays[c] = Gate!Idle(relays[c].session)
    BY DEF GateInd, Gate!TypeOK, Sound
  <1>2. r \in Gate!Locals
    <2>1. Gate!Purpose(m) \in Gate!Purposes /\ "encoding" \in Gate!Stages /\ m \in Messages \cup {NoMessage}
      BY <1>0, PurposeTyped DEF Gate!Stages
    <2>2. ASSUME NEW d \in Gate!Locals, NEW u \in Gate!Purposes, NEW st \in Gate!Stages, NEW s \in Sessions,
                 NEW v \in Messages \cup {NoMessage}
          PROVE  [d EXCEPT !.pc = st, !.control = control, !.to = to, !.id = id,
                    !.root = v, !.session = s, !.purpose = u, !.internal = b] \in Gate!Locals
      <3>1. \A e \in Gate!Locals, x \in BOOLEAN : [e EXCEPT !.control = x] \in Gate!Locals /\ [e EXCEPT !.internal = x] \in Gate!Locals
        BY DEF Gate!Locals
      <3>2. ASSUME NEW e \in Gate!Locals
            PROVE  [e EXCEPT !.pc = st] \in Gate!Locals
        BY DEF Gate!Locals
      <3>2b. ASSUME NEW e \in Gate!Locals PROVE [e EXCEPT !.to = to, !.id = id] \in Gate!Locals
        BY DEF Gate!Locals
      <3>2a. ASSUME NEW e \in Gate!Locals
            PROVE  [e EXCEPT !.root = v, !.session = s, !.purpose = u] \in Gate!Locals
        BY DEF Gate!Locals
      <3> DEFINE e == [d EXCEPT !.pc = st, !.control = control]
                 h == [e EXCEPT !.to = to, !.id = id]
                 g == [h EXCEPT !.root = v, !.session = s, !.purpose = u]
      <3>3. e \in Gate!Locals /\ h \in Gate!Locals
        BY <3>1, <3>2, <3>2b
      <3>4. g \in Gate!Locals
        BY <3>2a, <3>3
      <3>5. [g EXCEPT !.internal = b] \in Gate!Locals
        BY <3>1, <3>4
      <3> QED BY <3>5
    <2> QED BY <1>1, <2>1, <2>2
  <1>3. /\ r.pc = "encoding" /\ ~ r.direct /\ r.root = m /\ r.session = session /\ r.payload = {}
        /\ r.patched = NoMessage /\ r.internal = (r.control /\ Gate!Marked(r.root, r.to))
    <2>1. DOMAIN relays[c] = DOMAIN Gate!Idle(relays[c].session)
      BY <1>1
    <2> QED BY <1>1 DEF Gate!Idle, Gate!Locals
  <1> QED BY <1>2, <1>3 DEF Sound, EncodedSound

LEMMA PatchSound ==
  ASSUME GateInd, NEW c \in Calls, NEW p \in Gate!Materials, NEW m, m = relays[c].root,
         relays[c].pc = "encoding", relays[c].patched = NoMessage,
         NEW b \in BOOLEAN, b <=> relays[c].altered \/ p.message # m \/ p.env = "else",
         NEW r, r = [relays[c] EXCEPT !.patched = p, !.altered = b]
  PROVE  r \in Gate!Locals /\ Sound(r, session, mode, throws)
  <1>1. relays[c] \in Gate!Locals /\ Sound(relays[c], session, mode, throws)
    BY DEF GateInd, Gate!TypeOK
  <1>2. r \in Gate!Locals
    <2>1. \A e \in Gate!Locals : [e EXCEPT !.patched = p] \in Gate!Locals
      BY DEF Gate!Locals
    <2>2. \A e \in Gate!Locals : [e EXCEPT !.altered = b] \in Gate!Locals
      BY DEF Gate!Locals
    <2> QED BY <1>1, <2>1, <2>2
  <1>3. EncodedSound(r)
    BY <1>1 DEF Sound, EncodedSound, Gate!Same, Gate!Locals
  <1>4. r.pc = "encoding" /\ r.session = relays[c].session /\ ~ r.direct
    BY <1>1 DEF Gate!Locals, Sound, EncodedSound
  <1> QED BY <1>1, <1>2, <1>3, <1>4 DEF Sound, EncodedSound

LEMMA EncodeSound ==
  ASSUME GateInd, NEW c \in Calls, relays[c].pc = "encoding", relays[c].patched # NoMessage,
         relays[c].session = session, NEW p, p = relays[c].patched,
         NEW b \in BOOLEAN, b <=> relays[c].internal /\ Gate!Same(p, relays[c].root),
         NEW r, r = [relays[c] EXCEPT !.patched = NoMessage, !.reused = FALSE, !.payload = @ \cup {p},
                       !.encoded = @ + 1, !.purpose = Gate!Join(@, Gate!Purpose(p.message)),
                       !.internal = b]
  PROVE  r \in Gate!Locals /\ Sound(r, session, mode, throws)
  <1>0. Gate!RelayConstants BY DEF GateInd
  <1>1. relays[c] \in Gate!Locals /\ Sound(relays[c], session, mode, throws)
    BY DEF GateInd, Gate!TypeOK
  <1>2. p \in Gate!Materials /\ p.message \in Messages
    BY <1>1 DEF Gate!Locals, Gate!Materials
  <1>3. Gate!Join(relays[c].purpose, Gate!Purpose(p.message)) \in Gate!Purposes
    BY <1>1, <1>2, <1>0, PurposeTyped DEF Gate!Locals
  <1>4. r \in Gate!Locals
    <2>1. ASSUME NEW d \in Gate!Locals, NEW u \in Gate!Purposes, NEW y \in SUBSET Gate!Materials, NEW k \in Nat
          PROVE  [d EXCEPT !.patched = NoMessage, !.reused = FALSE, !.payload = y,
                    !.encoded = k, !.purpose = u, !.internal = b] \in Gate!Locals
      <3> DEFINE e == [d EXCEPT !.patched = NoMessage, !.reused = FALSE, !.payload = y]
                 g == [e EXCEPT !.encoded = k, !.purpose = u]
      <3>1. e \in Gate!Locals
        BY DEF Gate!Locals
      <3>2. ASSUME NEW h \in Gate!Locals PROVE [h EXCEPT !.encoded = k, !.purpose = u] \in Gate!Locals
        BY DEF Gate!Locals
      <3>3. ASSUME NEW h \in Gate!Locals PROVE [h EXCEPT !.internal = b] \in Gate!Locals
        BY DEF Gate!Locals
      <3>4. [g EXCEPT !.internal = b] \in Gate!Locals
        BY <3>1, <3>2, <3>3
      <3> QED BY <3>4
    <2>2. relays[c].payload \cup {p} \in SUBSET Gate!Materials /\ relays[c].encoded + 1 \in Nat
      BY <1>1, <1>2 DEF Gate!Locals
    <2> QED BY <1>1, <1>3, <2>1, <2>2
  <1>5. EncodedSound(relays[c])
    BY <1>1 DEF Sound
  <1>6. r.purpose = "customer" => relays[c].purpose = "customer" /\ p.message.kind = "content"
    BY <1>1, <1>2, <1>0, PurposeTyped DEF Gate!Locals
  <1>7. EncodedSound(r)
    BY <1>1, <1>2, <1>5, <1>6 DEF EncodedSound, Gate!Same, Gate!Locals
  <1>8. r.pc = "encoding" /\ r.session = session /\ ~ r.direct
    BY <1>1, <1>5 DEF Gate!Locals, EncodedSound
  <1> QED BY <1>4, <1>7, <1>8 DEF Sound

\* A call refused where no step failed and the credentials stayed: not a
\* pristine control, and not on a legacy socket.
LEMMA DeniedSound ==
  ASSUME NEW r \in Gate!Locals, NEW s, NEW md, NEW n, r.pc = "denied", r.direct => ~ r.control,
         n = 0 /\ ~ r.direct => r.session = s,
         n = 0 /\ r.id = "fresh" /\ r.fixed.id = "fresh" => md # "legacy" /\ ~ Pristine(r)
  PROVE  Sound(r, s, md, n)
  BY DEF Sound

LEMMA EnterSound ==
  ASSUME GateInd, NEW q \in Gate!Locals, NEW f \in Gate!Frames,
         NEW r, r = [q EXCEPT !.pc = Gate!Entry(f), !.fixed = f, !.seen = Gate!Seen],
         throws = 0 /\ ~ r.direct => r.session = session, r.direct => ~ r.control,
         ProofSound(r), FrameSound(r), throws = 0 /\ Pristine(r) => r.proof = "internal_control"
  PROVE  r \in Gate!Locals /\ Sound(r, session, mode, throws)
  <1>1. Gate!Entry(f) \in {"passed", "denied", "lookup"} /\ Gate!Entry(f) \in Gate!Stages /\ Gate!Seen \in [mode : Gate!Modes, session : Sessions]
    BY DEF Gate!Entry, Gate!Stages, Gate!Seen, GateInd, Gate!TypeOK
  <1>2. r \in Gate!Locals
    BY <1>1 DEF Gate!Locals
  <1>3. /\ r.pc = Gate!Entry(f) /\ r.fixed = f /\ r.seen = Gate!Seen /\ r.seen.mode = mode
        /\ r.direct = q.direct /\ r.control = q.control
    BY <1>1 DEF Gate!Locals, Gate!Seen
  <1>4. r.pc = "passed" => Passing(r, r.fixed)
    BY <1>3 DEF Passing, Gate!Entry
  <1>5. r.pc = "lookup" => mode # "legacy" /\ r.fixed.tag = "message" /\ r.fixed.id # "foundation"
    BY <1>3 DEF Gate!Entry
  <1>6. r.pc = "denied" => r.fixed.id # "fresh"
    BY <1>3 DEF Gate!Entry
  <1> QED BY <1>1, <1>2, <1>3, <1>4, <1>5, <1>6 DEF Sound

-----------------------------------------------------------------------------
\* A step of one call that leaves it sound leaves everything sound.
LEMMA Combine ==
  ASSUME GateInd, NEW c \in Calls, NEW r \in Gate!Locals, relays' = [relays EXCEPT ![c] = r],
         session' \in Sessions, mode' \in Gate!Modes, throws' \in Nat, Sound(r, session', mode', throws'),
         (throws' = throws /\ session' = session) \/ throws' = throws + 1, mode' = mode \/ mode' # "legacy"
  PROVE  GateInd'
  <1>1. Gate!TypeOK /\ throws \in Nat
    BY DEF GateInd, Gate!TypeOK
  <1>2. relays' \in [Calls -> Gate!Locals] /\ relays'[c] = r /\ \A d \in Calls \ {c} : relays'[d] = relays[d]
    BY <1>1, Went
  <1>3. ASSUME NEW d \in Calls PROVE Sound(relays'[d], session', mode', throws')
    <2>1. CASE d = c
      BY <2>1, <1>2
    <2>2. CASE d # c
      <3>1. relays'[d] = relays[d] /\ Sound(relays[d], session, mode, throws)
        BY <2>2, <1>2 DEF GateInd
      <3> QED BY <3>1, <1>1, StaysSound
    <2> QED BY <2>1, <2>2
  <1> QED BY <1>2, <1>3 DEF GateInd, Gate!TypeOK

LEMMA RelayStep ==
  ASSUME GateInd, NEW c \in Calls, NEW m \in Messages, NEW control \in BOOLEAN,
         NEW to \in Gate!Recipients, NEW id \in Gate!Ids, Gate!Relay(c, m, control, to, id)
  PROVE  GateInd'
  <1> DEFINE b == control /\ Gate!Marked(m, to)
             r == [relays[c] EXCEPT !.pc = "encoding", !.control = control, !.to = to, !.id = id,
                     !.root = m, !.session = session, !.purpose = Gate!Purpose(m), !.internal = b]
  <1>1. relays[c].pc = "idle" /\ relays' = [relays EXCEPT ![c] = r] /\ UNCHANGED <<session, mode, throws>>
    BY DEF Gate!Relay
  <1>2. b \in BOOLEAN /\ (b <=> control /\ Gate!Marked(m, to))
    OBVIOUS
  <1> HIDE DEF b
  <1>3. r = [relays[c] EXCEPT !.pc = "encoding", !.control = control, !.to = to, !.id = id,
               !.root = m, !.session = session, !.purpose = Gate!Purpose(m), !.internal = b]
    OBVIOUS
  <1> HIDE DEF r
  <1>4. r \in Gate!Locals /\ Sound(r, session, mode, throws)
    BY <1>1, <1>2, <1>3, RelaySound, ZenonT(30)
  <1> QED BY <1>1, <1>4, Combine DEF GateInd, Gate!TypeOK

LEMMA PatchStep ==
  ASSUME GateInd, NEW c \in Calls, NEW p \in Gate!Materials, Gate!Patch(c, p)
  PROVE  GateInd'
  <1> DEFINE b == relays[c].altered \/ p.message # relays[c].root \/ p.env = "else"
             r == [relays[c] EXCEPT !.patched = p, !.altered = b]
  <1>1. /\ relays[c].pc = "encoding" /\ relays[c].patched = NoMessage /\ relays' = [relays EXCEPT ![c] = r]
        /\ UNCHANGED <<session, mode, throws>>
    BY DEF Gate!Patch, Gate!Root
  <1>2. b \in BOOLEAN /\ (b <=> relays[c].altered \/ p.message # relays[c].root \/ p.env = "else")
    OBVIOUS
  <1> HIDE DEF b
  <1>3. r \in Gate!Locals /\ Sound(r, session, mode, throws)
    BY <1>1, <1>2, PatchSound
  <1> HIDE DEF r
  <1> QED BY <1>1, <1>3, Combine DEF GateInd, Gate!TypeOK

\* Only the stage changes, and what the judgement was made of.
LEMMA StageTyped ==
  ASSUME NEW r \in Gate!Locals, NEW st \in Gate!Stages, NEW v \in [mode : Gate!Modes, session : Sessions]
  PROVE  /\ [r EXCEPT !.pc = st, !.seen = v] \in Gate!Locals /\ [r EXCEPT !.pc = st] \in Gate!Locals
  BY DEF Gate!Locals

LEMMA EncodeStep ==
  ASSUME GateInd, NEW c \in Calls, Gate!Encode(c)
  PROVE  GateInd'
  <1> DEFINE p == relays[c].patched
             b == relays[c].internal /\ Gate!Same(p, relays[c].root)
             r == [relays[c] EXCEPT !.patched = NoMessage, !.reused = FALSE, !.payload = @ \cup {p},
                     !.encoded = @ + 1, !.purpose = Gate!Join(@, Gate!Purpose(p.message)), !.internal = b]
             x == [relays[c] EXCEPT !.pc = "denied"]
  <1>1. /\ relays[c] \in Gate!Locals /\ Sound(relays[c], session, mode, throws) /\ "denied" \in Gate!Stages
        /\ session \in Sessions /\ mode \in Gate!Modes /\ throws \in Nat
    BY DEF GateInd, Gate!TypeOK, Gate!Stages
  <1>2. /\ relays[c].pc = "encoding" /\ p # NoMessage /\ UNCHANGED <<session, mode, throws>>
        /\ relays' = IF relays[c].session # session THEN [relays EXCEPT ![c] = x] ELSE [relays EXCEPT ![c] = r]
    BY DEF Gate!Encode, Gate!Bytes
  <1>3. CASE relays[c].session # session
    <2>1. x \in Gate!Locals
      BY <1>1 DEF Gate!Locals
    <2>2. x.pc = "denied" /\ x.direct = relays[c].direct /\ x.control = relays[c].control /\ x.session = relays[c].session
      BY <1>1 DEF Gate!Locals
    <2>3. ~ relays[c].direct /\ throws # 0
      BY <1>1, <1>2, <1>3 DEF Sound, EncodedSound
    <2>4. Sound(x, session, mode, throws)
      <3> HIDE DEF x
      <3> QED BY <2>1, <2>2, <2>3, DeniedSound, <1>1 DEF Gate!Locals, Sound
    <2>5. relays' = [relays EXCEPT ![c] = x]
      BY <1>2, <1>3
    <2> HIDE DEF x
    <2> QED BY <1>1, <1>2, <2>1, <2>4, <2>5, Combine
  <1>4. CASE relays[c].session = session
    <2>1. b \in BOOLEAN /\ (b <=> relays[c].internal /\ Gate!Same(p, relays[c].root))
      OBVIOUS
    <2>2. relays' = [relays EXCEPT ![c] = r]
      BY <1>2, <1>4
    <2> HIDE DEF b
    <2>3. r \in Gate!Locals /\ Sound(r, session, mode, throws)
      BY <1>2, <1>4, <2>1, EncodeSound
    <2> HIDE DEF r
    <2> QED BY <1>1, <1>2, <2>2, <2>3, Combine
  <1> QED BY <1>3, <1>4

LEMMA BindStep ==
  ASSUME GateInd, NEW c \in Calls, Gate!Bind(c)
  PROVE  GateInd'
  <1> DEFINE k == IF Gate!BoundInternal(c) THEN "internal_control" ELSE relays[c].purpose
             f == [tag |-> "message", to |-> relays[c].to, id |-> relays[c].id, payload |-> relays[c].payload]
             q == [relays[c] EXCEPT !.proof = k]
             r == [q EXCEPT !.pc = Gate!Entry(f), !.fixed = f, !.seen = Gate!Seen]
  <1>1. /\ relays[c] \in Gate!Locals /\ Sound(relays[c], session, mode, throws)
        /\ session \in Sessions /\ mode \in Gate!Modes /\ throws \in Nat
    BY DEF GateInd, Gate!TypeOK
  <1>2. relays[c].pc = "encoding" /\ UNCHANGED <<session, mode, throws>> /\ relays' = [relays EXCEPT ![c] = r]
    BY DEF Gate!Bind, Gate!Enter
  <1>3. EncodedSound(relays[c]) /\ (throws = 0 => relays[c].session = session)
    BY <1>1, <1>2 DEF Sound, EncodedSound
  <1>4. k \in Gate!Purposes \cup {"internal_control"}
    BY <1>1 DEF Gate!Locals
  <1>5. q \in Gate!Locals /\ f \in Gate!Frames
    <2> HIDE DEF k
    <2> QED BY <1>1, <1>4 DEF Gate!Locals, Gate!Frames
  <1>6. /\ r.proof = k /\ r.fixed = f /\ r.direct = relays[c].direct /\ r.altered = relays[c].altered
        /\ r.root = relays[c].root /\ r.control = relays[c].control /\ r.encoded = relays[c].encoded
        /\ r.to = relays[c].to /\ r.session = relays[c].session
    <2> HIDE DEF k, f
    <2> QED BY <1>1, <1>4 DEF Gate!Locals
  <1>7. ProofSound(r)
    <2> HIDE DEF r
    <2>1. k = "customer" => relays[c].purpose = "customer"
      OBVIOUS
    <2>2. k = "internal_control" => relays[c].internal
      BY <1>1 DEF Gate!BoundInternal, Gate!Locals, Gate!Purposes
    <2> HIDE DEF k
    <2> QED BY <1>3, <1>6, <2>1, <2>2 DEF ProofSound, EncodedSound, Gate!Marked
  <1>8. FrameSound(r)
    <2> HIDE DEF r, k
    <2> QED BY <1>3, <1>6 DEF FrameSound, EncodedSound
  <1>9. throws = 0 /\ Pristine(r) => r.proof = "internal_control"
    <2> HIDE DEF r
    <2> QED BY <1>3, <1>6 DEF Pristine, EncodedSound, Gate!BoundInternal
  <1>10. r \in Gate!Locals /\ Sound(r, session, mode, throws)
    <2>1. (throws = 0 /\ ~ r.direct => r.session = session) /\ (r.direct => ~ r.control)
      <3> HIDE DEF r, k
      <3> QED BY <1>1, <1>3, <1>6 DEF Sound
    <2> HIDE DEF q, f, k
    <2> QED BY <1>5, <1>7, <1>8, <1>9, <2>1, EnterSound
  <1> HIDE DEF r
  <1> QED BY <1>1, <1>2, <1>10, Combine

LEMMA DirectStep ==
  ASSUME GateInd, NEW c \in Calls, NEW f \in Gate!DirectFrames, Gate!Direct(c, f)
  PROVE  GateInd'
  <1> DEFINE q == [relays[c] EXCEPT !.direct = TRUE]
             r == [q EXCEPT !.pc = Gate!Entry(f), !.fixed = f, !.seen = Gate!Seen]
  <1>1. /\ relays[c] \in Gate!Locals /\ Sound(relays[c], session, mode, throws)
        /\ session \in Sessions /\ mode \in Gate!Modes /\ throws \in Nat
    BY DEF GateInd, Gate!TypeOK
  <1>2. relays[c].pc = "idle" /\ UNCHANGED <<session, mode, throws>> /\ relays' = [relays EXCEPT ![c] = r]
    BY DEF Gate!Direct, Gate!Enter
  <1>3. q \in Gate!Locals /\ f \in Gate!Frames
    BY <1>1, DirectTyped DEF Gate!Locals
  <1>4. relays[c].proof = "unresolved" /\ ~ relays[c].control
    BY <1>1, <1>2 DEF Sound, Gate!Idle
  <1>5. r.direct /\ r.proof = "unresolved" /\ ~ r.control
    BY <1>1, <1>4 DEF Gate!Locals
  <1>6. r \in Gate!Locals /\ Sound(r, session, mode, throws)
    <2> HIDE DEF q
    <2>1. ProofSound(r) /\ FrameSound(r) /\ ~ Pristine(r)
      <3> HIDE DEF r
      <3> QED BY <1>5 DEF ProofSound, FrameSound, Pristine
    <2> QED BY <1>3, <1>5, <2>1, EnterSound
  <1> HIDE DEF r
  <1> QED BY <1>1, <1>2, <1>6, Combine

\* What a lookup finds decides.
LEMMA JudgeStep ==
  ASSUME GateInd, NEW c \in Calls, Gate!Judge(c)
  PROVE  GateInd'
  <1> DEFINE v == Gate!Verdict(c)
             r == [relays[c] EXCEPT !.pc = v, !.seen = Gate!Seen]
  <1>1. /\ relays[c] \in Gate!Locals /\ Sound(relays[c], session, mode, throws)
        /\ session \in Sessions /\ mode \in Gate!Modes /\ throws \in Nat
    BY DEF GateInd, Gate!TypeOK
  <1>2. relays[c].pc = "lookup" /\ UNCHANGED <<session, mode, throws>> /\ relays' = [relays EXCEPT ![c] = r]
    BY DEF Gate!Judge, Gate!To
  <1>3. /\ ProofSound(relays[c]) /\ FrameSound(relays[c]) /\ mode # "legacy"
        /\ relays[c].fixed.tag = "message" /\ relays[c].fixed.id # "foundation"
        /\ throws = 0 /\ Pristine(relays[c]) => relays[c].proof = "internal_control" /\ relays[c].session = session
    BY <1>1, <1>2 DEF Sound, Pristine
  <1>4. /\ v \in {"passed", "denied", "context"} /\ v \in Gate!Stages
        /\ v = "passed" =>
             \/ relays[c].proof = "internal_control" /\ relays[c].session = session
             \/ relays[c].fixed.to = "group"
        /\ v = "denied" => ~ (relays[c].proof = "internal_control" /\ relays[c].session = session)
        /\ v = "context" => relays[c].proof = "customer"
    BY DEF Gate!Verdict, Gate!StillInternal, Gate!Stages
  <1>5. Gate!Seen \in [mode : Gate!Modes, session : Sessions] /\ Gate!Seen.mode = mode /\ Gate!Seen.session = session
    BY <1>1 DEF Gate!Seen
  <1> HIDE DEF v
  <1>6. r \in Gate!Locals
    BY <1>1, <1>4, <1>5, StageTyped
  <1>7. /\ r.pc = v /\ r.seen = Gate!Seen /\ r.proof = relays[c].proof /\ r.fixed = relays[c].fixed
        /\ r.direct = relays[c].direct /\ r.altered = relays[c].altered
        /\ r.root = relays[c].root /\ r.control = relays[c].control /\ r.encoded = relays[c].encoded
        /\ r.to = relays[c].to /\ r.session = relays[c].session
    BY <1>1 DEF Gate!Locals
  <1> HIDE DEF r
  <1>8. /\ ProofSound(r) /\ FrameSound(r) /\ (Pristine(r) => Pristine(relays[c]))
        /\ (r.direct => ~ r.control) /\ (throws = 0 /\ ~ r.direct => r.session = session)
    BY <1>1, <1>2, <1>3, <1>7 DEF ProofSound, FrameSound, Pristine, Sound
  <1>9. r.pc = "passed" => Passing(r, r.fixed)
    BY <1>3, <1>4, <1>5, <1>7, <1>8 DEF Passing, ProofSound
  <1>10. Sound(r, session, mode, throws)
    BY <1>3, <1>4, <1>7, <1>8, <1>9 DEF Sound
  <1> QED BY <1>1, <1>2, <1>6, <1>10, Combine

LEMMA RefreshStep ==
  ASSUME GateInd, NEW c \in Calls, Gate!Refresh(c)
  PROVE  GateInd'
  <1>1. /\ relays[c] \in Gate!Locals /\ Sound(relays[c], session, mode, throws)
        /\ session \in Sessions /\ mode \in Gate!Modes /\ throws \in Nat
    BY DEF GateInd, Gate!TypeOK
  <1>2. PICK m \in {"captured", "cutover"} :
          /\ mode' = m /\ UNCHANGED <<session, throws>>
          /\ relays' = [relays EXCEPT ![c] = [@ EXCEPT !.pc = IF m = "cutover" THEN "denied" ELSE "passed",
                                          !.seen = [mode |-> m, session |-> session]]]
    BY DEF Gate!Refresh
  <1> DEFINE v == IF m = "cutover" THEN "denied" ELSE "passed"
             w == [mode |-> m, session |-> session]
             r == [relays[c] EXCEPT !.pc = v, !.seen = w]
  <1>3. relays' = [relays EXCEPT ![c] = r] /\ relays[c].pc = "context"
    BY <1>2 DEF Gate!Refresh
  <1>4. /\ ProofSound(relays[c]) /\ FrameSound(relays[c]) /\ relays[c].proof = "customer" /\ relays[c].fixed.id # "foundation"
        /\ throws = 0 /\ Pristine(relays[c]) => FALSE
    BY <1>1, <1>3 DEF Sound
  <1>5. /\ v \in Gate!Stages /\ w \in [mode : Gate!Modes, session : Sessions] /\ m # "legacy" /\ m \in Gate!Modes
        /\ w.mode = m /\ v \in {"denied", "passed"} /\ (v = "passed" => m = "captured")
    BY <1>1 DEF Gate!Stages, Gate!Modes
  <1> HIDE DEF v, w
  <1>6. r \in Gate!Locals
    BY <1>1, <1>5, StageTyped
  <1>7. /\ r.pc = v /\ r.seen = w /\ r.proof = relays[c].proof /\ r.fixed = relays[c].fixed
        /\ r.direct = relays[c].direct /\ r.altered = relays[c].altered
        /\ r.root = relays[c].root /\ r.control = relays[c].control /\ r.encoded = relays[c].encoded
        /\ r.to = relays[c].to /\ r.session = relays[c].session
    BY <1>1 DEF Gate!Locals
  <1> HIDE DEF r
  <1>8. /\ ProofSound(r) /\ FrameSound(r) /\ (Pristine(r) => Pristine(relays[c]))
        /\ (r.direct => ~ r.control) /\ (throws = 0 /\ ~ r.direct => r.session = session)
    BY <1>1, <1>3, <1>4, <1>7 DEF ProofSound, FrameSound, Pristine, Sound
  <1>9. r.pc = "passed" => Passing(r, r.fixed)
    BY <1>4, <1>5, <1>7, <1>8 DEF Passing, ProofSound
  <1>10. Sound(r, session, m, throws)
    BY <1>4, <1>5, <1>7, <1>8, <1>9 DEF Sound
  <1> QED BY <1>1, <1>2, <1>3, <1>5, <1>6, <1>10, Combine

LEMMA GateWriteStep ==
  ASSUME GateInd, NEW c \in Calls, Gate!Write(c)
  PROVE  GateInd'
  <1> DEFINE r == [relays[c] EXCEPT !.pc = "written", !.out = relays[c].fixed]
  <1>1. /\ relays[c] \in Gate!Locals /\ Sound(relays[c], session, mode, throws)
        /\ session \in Sessions /\ mode \in Gate!Modes /\ throws \in Nat
    BY DEF GateInd, Gate!TypeOK
  <1>2. relays[c].pc = "passed" /\ UNCHANGED <<session, mode, throws>> /\ relays' = [relays EXCEPT ![c] = r]
    BY DEF Gate!Write, Gate!Outgoing
  <1>3. r \in Gate!Locals
    BY <1>1 DEF Gate!Locals, Gate!Stages
  <1>4. /\ r.pc = "written" /\ r.out = relays[c].fixed /\ r.seen = relays[c].seen /\ r.fixed = relays[c].fixed
        /\ r.direct = relays[c].direct /\ r.altered = relays[c].altered
        /\ r.root = relays[c].root /\ r.control = relays[c].control /\ r.session = relays[c].session
    BY <1>1 DEF Gate!Locals
  <1> HIDE DEF r
  <1>5. Sound(r, session, mode, throws)
    BY <1>1, <1>2, <1>4 DEF Sound, FrameSound, Passing
  <1> QED BY <1>1, <1>2, <1>3, <1>5, Combine

LEMMA ThrowsStep ==
  ASSUME GateInd, NEW c \in Calls, Gate!Throws(c)
  PROVE  GateInd'
  <1> DEFINE r == [relays[c] EXCEPT !.pc = "denied", !.seen = Gate!Seen]
  <1>1. /\ relays[c] \in Gate!Locals /\ Sound(relays[c], session, mode, throws)
        /\ session \in Sessions /\ mode \in Gate!Modes /\ throws \in Nat
    BY DEF GateInd, Gate!TypeOK
  <1>2. /\ relays[c].pc # "idle" /\ UNCHANGED <<session, mode>> /\ throws' = throws + 1
        /\ relays' = [relays EXCEPT ![c] = r]
    BY DEF Gate!Throws, Gate!Fault, Gate!To
  <1>3. Gate!Seen \in [mode : Gate!Modes, session : Sessions] /\ "denied" \in Gate!Stages
    BY <1>1 DEF Gate!Seen, Gate!Stages
  <1>4. r \in Gate!Locals
    BY <1>1, <1>3, StageTyped
  <1>5. r.pc = "denied" /\ r.direct = relays[c].direct /\ r.control = relays[c].control
    BY <1>1 DEF Gate!Locals
  <1> HIDE DEF r
  <1>6. throws' # 0 /\ throws' \in Nat
    BY <1>1, <1>2
  <1>7. Sound(r, session', mode', throws')
    BY <1>1, <1>4, <1>5, <1>6, DeniedSound DEF Sound
  <1> QED BY <1>1, <1>2, <1>4, <1>6, <1>7, Combine

\* Nothing that is known of a call speaks of what others still hold.
LEMMA HeldSound ==
  ASSUME GateInd, NEW c \in Calls, relays[c].pc # "idle", NEW x \in BOOLEAN, NEW y \in BOOLEAN,
         NEW r, r = [relays[c] EXCEPT !.touched = x, !.reused = y]
  PROVE  r \in Gate!Locals /\ Sound(r, session, mode, throws)
  <1>1. relays[c] \in Gate!Locals /\ Sound(relays[c], session, mode, throws)
    BY DEF GateInd, Gate!TypeOK
  <1>2. r \in Gate!Locals
    BY <1>1 DEF Gate!Locals
  <1>3. /\ r.pc = relays[c].pc /\ r.direct = relays[c].direct /\ r.control = relays[c].control /\ r.to = relays[c].to
        /\ r.id = relays[c].id /\ r.root = relays[c].root /\ r.session = relays[c].session /\ r.purpose = relays[c].purpose
        /\ r.internal = relays[c].internal /\ r.encoded = relays[c].encoded /\ r.patched = relays[c].patched
        /\ r.payload = relays[c].payload /\ r.altered = relays[c].altered /\ r.proof = relays[c].proof
        /\ r.fixed = relays[c].fixed /\ r.out = relays[c].out /\ r.seen = relays[c].seen
    BY <1>1 DEF Gate!Locals
  <1>4. /\ (EncodedSound(relays[c]) => EncodedSound(r)) /\ (ProofSound(relays[c]) => ProofSound(r))
        /\ (FrameSound(relays[c]) => FrameSound(r)) /\ (Pristine(r) <=> Pristine(relays[c]))
        /\ \A f : Passing(relays[c], f) => Passing(r, f)
    BY <1>3 DEF EncodedSound, ProofSound, FrameSound, Pristine, Passing
  <1>5. Sound(r, session, mode, throws)
    BY <1>1, <1>3, <1>4 DEF Sound
  <1> QED BY <1>2, <1>5

LEMMA MutatesStep ==
  ASSUME GateInd, NEW c \in Calls, Gate!CallerMutates(c) \/ Gate!CallbackMutates(c)
  PROVE  GateInd'
  <1>1. /\ relays[c] \in Gate!Locals /\ session \in Sessions /\ mode \in Gate!Modes /\ throws \in Nat
    BY DEF GateInd, Gate!TypeOK
  <1>2. relays[c].pc # "idle" /\ UNCHANGED <<session, mode, throws>>
    BY DEF Gate!CallerMutates, Gate!CallbackMutates
  <1>3. \E x, y \in BOOLEAN : relays' = [relays EXCEPT ![c] = [relays[c] EXCEPT !.touched = x, !.reused = y]]
    <2>1. CASE Gate!CallerMutates(c)
      <3>1. [relays[c] EXCEPT !.touched = TRUE] = [relays[c] EXCEPT !.touched = TRUE, !.reused = relays[c].reused]
        BY <1>1 DEF Gate!Locals
      <3>2. relays' = [relays EXCEPT ![c] = [relays[c] EXCEPT !.touched = TRUE]] /\ relays[c].reused \in BOOLEAN
        BY <2>1, <1>1 DEF Gate!CallerMutates, Gate!Locals
      <3> QED BY <3>1, <3>2
    <2>2. CASE Gate!CallbackMutates(c)
      <3>1. [relays[c] EXCEPT !.reused = TRUE] = [relays[c] EXCEPT !.touched = relays[c].touched, !.reused = TRUE]
        BY <1>1 DEF Gate!Locals
      <3>2. relays' = [relays EXCEPT ![c] = [relays[c] EXCEPT !.reused = TRUE]] /\ relays[c].touched \in BOOLEAN
        BY <2>2, <1>1 DEF Gate!CallbackMutates, Gate!Locals
      <3> QED BY <3>1, <3>2
    <2> QED BY <2>1, <2>2
  <1>4. PICK x \in BOOLEAN, y \in BOOLEAN : relays' = [relays EXCEPT ![c] = [relays[c] EXCEPT !.touched = x, !.reused = y]]
    BY <1>3
  <1> DEFINE r == [relays[c] EXCEPT !.touched = x, !.reused = y]
  <1>5. r \in Gate!Locals /\ Sound(r, session, mode, throws)
    BY <1>2, HeldSound
  <1>6. relays' = [relays EXCEPT ![c] = r]
    BY <1>4
  <1> HIDE DEF r
  <1> QED BY <1>1, <1>2, <1>5, <1>6, Combine

\* Pairings and other requests touch no call.
LEMMA AroundStep ==
  ASSUME GateInd, Gate!Pair \/ Gate!Reclassify \/ UNCHANGED Gate!vars
  PROVE  GateInd'
  <1>1. Gate!TypeOK /\ throws \in Nat
    BY DEF GateInd, Gate!TypeOK
  <1>2. /\ relays' = relays /\ session' \in Sessions /\ mode' \in Gate!Modes /\ throws' \in Nat
        /\ (throws' = throws /\ session' = session) \/ throws' = throws + 1
        /\ mode' = mode \/ mode' # "legacy"
    BY <1>1 DEF Gate!TypeOK, Gate!Pair, Gate!Reclassify, Gate!Fault, Gate!vars, Gate!Modes
  <1>3. ASSUME NEW d \in Calls PROVE Sound(relays'[d], session', mode', throws')
    <2>1. Sound(relays[d], session, mode, throws)
      BY DEF GateInd
    <2> QED BY <2>1, <1>1, <1>2, StaysSound
  <1> QED BY <1>1, <1>2, <1>3 DEF GateInd, Gate!TypeOK

LEMMA StepGateInd == GateInd /\ [Gate!Next]_(Gate!vars) => GateInd'
  <1> SUFFICES ASSUME GateInd, [Gate!Next]_(Gate!vars) PROVE GateInd'
    OBVIOUS
  <1>1. ASSUME NEW c \in Calls, NEW m \in Messages, NEW control \in BOOLEAN, NEW to \in Gate!Recipients,
               NEW id \in Gate!Ids, Gate!Relay(c, m, control, to, id)
        PROVE  GateInd'
    BY <1>1, RelayStep
  <1>2. ASSUME NEW c \in Calls, NEW p \in Gate!Materials, Gate!Patch(c, p) PROVE GateInd'
    BY <1>2, PatchStep
  <1>3. ASSUME NEW c \in Calls, NEW f \in Gate!DirectFrames, Gate!Direct(c, f) PROVE GateInd'
    BY <1>3, DirectStep
  <1>4. ASSUME NEW c \in Calls, Gate!Steps(c) \/ Gate!CallerMutates(c) \/ Gate!CallbackMutates(c) PROVE GateInd'
    BY <1>4, EncodeStep, BindStep, JudgeStep, RefreshStep, GateWriteStep, ThrowsStep, MutatesStep DEF Gate!Steps
  <1>5. CASE Gate!Pair \/ Gate!Reclassify \/ UNCHANGED Gate!vars
    BY <1>5, AroundStep
  <1> QED BY <1>1, <1>2, <1>3, <1>4, <1>5 DEF Gate!Next

-----------------------------------------------------------------------------
\* What has been encoded, what a frame is held for and what was judged bear
\* each other out in every state.
THEOREM SpecGateInd == Gate!RelayConstants /\ Gate!Spec => []GateInd
  <1> QED BY InitGateInd, StepGateInd, PTL DEF Gate!Spec

\* What passed the gate is what WireJudged says of the wire, since the proof a
\* frame carries was made of every device's encoding and judged in its own session.
LEMMA WireSound == GateInd => Gate!WireJudged
  BY DEF GateInd, Gate!WireJudged, Sound, Passing

\* What is written is what was handed over, whatever callers and callbacks do
\* meanwhile to the objects they still hold.
LEMMA HandedSound == GateInd => Gate!HandedIsWritten
  BY DEF GateInd, Gate!HandedIsWritten, Sound, FrameSound

\* Without failures and pairings, the gate refuses neither a legacy socket nor
\* an unaltered control.
LEMMA RefusedSound == GateInd => Gate!DeniedForCause
  BY DEF GateInd, Gate!DeniedForCause, Sound, Pristine

\* In every state: frames are judged for what they are, written as they were
\* handed over, and refused for a cause.
THEOREM SpecRelayInv == Gate!RelayConstants /\ Gate!Spec => []Gate!RelayInv
  <1>1. GateInd => Gate!RelayInv
    BY WireSound, HandedSound, RefusedSound DEF GateInd, Gate!RelayInv
  <1> QED BY <1>1, SpecGateInd, PTL
=============================================================================
