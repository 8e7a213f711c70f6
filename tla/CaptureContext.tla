----------------------------- MODULE CaptureContext -----------------------------
(***************************************************************************)
(* The attendance context each socket captures receipts and judges writes  *)
(* under (nexi-attendance: configure, sessionObserved, refreshContext,     *)
(* registrationContext, installCaptureContext, assertNode, and the writer  *)
(* probe of nexi-attendance-authority).  Requests for the context overlap; *)
(* their answers arrive in any order; the sequence number of the socket's  *)
(* registration decides which one is installed.                            *)
(***************************************************************************)
EXTENDS Naturals, Sequences

CONSTANTS
  Sessions,     \* identities of credentials
  NoContext,
  MaxSockets, MaxAsks, \* bounds on sockets and requests
  MaxAt,        \* bound on changes of the APP's context
  MaxFaults     \* bound on failures

ASSUME CaptureConstants ==
  MaxSockets \in Nat \ {0} /\ MaxAsks \in Nat /\ MaxAt \in Nat /\ MaxFaults \in Nat

VARIABLES
  app,        \* the APP's context, and how often it changed
  bound,      \* the instance's webhook is the APP's
  contexts,   \* contexts in the database, by creation
  regs,       \* registrations of the sockets, the last one current
  reqs,       \* requests for the context, with their local variables
  proved,     \* sessions with an attendance.session.proved event
  proofs,     \* [sock, at]: writer proofs given
  passed,     \* the independent write let through last
  faults

vars == <<app, bound, contexts, regs, reqs, proved, proofs, passed, faults>>

\* Barrier stages, as far as the order matters: up to fencing, and fencing.
Stages  == 1 .. 2
Fencing == 2
Times   == 0 .. MaxAt
Content == [epoch : 1 .. 2, stage : Stages, cutover : BOOLEAN, at : Times]
Context == [epoch : 1 .. 2, stage : Stages, cutover : BOOLEAN, at : Times, session : Sessions]

Kinds == {"configure", "observed", "write", "probe"}
Reg   == [rev : Nat, context : Context \cup {NoContext}, ambiguous : BOOLEAN, ready : BOOLEAN,
          session : Sessions, managed : BOOLEAN]
Req   == [pc : {"asked", "answered", "observe", "prove", "proving", "done"}, kind : Kinds,
          sock : 1 .. MaxSockets, rev : Nat, session : Sessions, context : Context \cup {NoContext}, asked : Times]

\* What a socket without a context has in its place.
ASSUME NoContextIsNone == NoContext \notin Context

TypeOK ==
  /\ app \in Content /\ bound \in BOOLEAN /\ contexts \in Seq(Context)
  /\ regs \in Seq(Reg) /\ Len(regs) <= MaxSockets /\ reqs \in Seq(Req)
  /\ proved \subseteq Sessions /\ proofs \subseteq [sock : 1 .. MaxSockets, at : Times]
  /\ passed \subseteq [at : Times, asked : Times, proofs : SUBSET Times, astray : BOOLEAN]
  /\ faults \in Nat

Init ==
  /\ app = [epoch |-> 1, stage |-> 1, cutover |-> FALSE, at |-> 0] /\ bound \in BOOLEAN
  /\ contexts = <<>> /\ regs = <<>> /\ reqs = <<>>
  /\ proved = {} /\ proofs = {} /\ passed = {} /\ faults = 0

Fault == faults < MaxFaults /\ faults' = faults + 1

\* installCaptureContext: an earlier stage of the epoch, or an earlier epoch.
Regresses(c, d) == c.epoch < d.epoch \/ (c.epoch = d.epoch /\ c.stage < d.stage)

-----------------------------------------------------------------------------
\* The APP moves on, or comes back from a backup.
Advance ==
  /\ app.at < MaxAt
  /\ \E e \in 1 .. 2, s \in Stages, cut \in BOOLEAN :
       LET c == [epoch |-> e, stage |-> s, cutover |-> cut, at |-> app.at + 1] IN
       /\ app' = c /\ (IF Regresses(c, app) THEN Fault ELSE UNCHANGED faults)
  /\ UNCHANGED <<bound, contexts, regs, reqs, proved, proofs, passed>>

Rebind ==
  /\ bound' = ~ bound /\ Fault
  /\ UNCHANGED <<app, contexts, regs, reqs, proved, proofs, passed>>

\* classification is not legacy.
Managed == bound \/ contexts # <<>>

NewReg(s, context, ambiguous, ready) ==
  [rev |-> 0, context |-> context, ambiguous |-> ambiguous, ready |-> ready, session |-> s, managed |-> Managed]

\* registrationContext, up to its request.
NewReq(n, kind, reg) ==
  [pc |-> "asked", kind |-> kind, sock |-> n, rev |-> reg.rev, session |-> reg.session,
   context |-> NoContext, asked |-> app.at]
Asked(n, kind, reg) ==
  LET r == [reg EXCEPT !.rev = @ + 1] IN
  /\ Len(reqs) < MaxAsks /\ regs' = IF n \in DOMAIN regs THEN [regs EXCEPT ![n] = r] ELSE Append(regs, r)
  /\ reqs' = Append(reqs, NewReq(n, kind, r))

\* The newest context of the session in the database, for provenance.
Historical(s) ==
  LET of == {i \in DOMAIN contexts : contexts[i].session = s} IN
  IF of = {} THEN NoContext ELSE contexts[CHOOSE i \in of : \A j \in of : j <= i]

\* A socket replaces the current one: configure, up to its request.
Open(s) ==
  LET n == Len(regs) + 1 IN
  /\ n <= MaxSockets
  /\ IF Managed THEN Asked(n, "configure", NewReg(s, Historical(s), TRUE, FALSE))
     ELSE regs' = Append(regs, NewReg(s, NoContext, FALSE, TRUE)) /\ UNCHANGED reqs
  /\ UNCHANGED <<app, bound, contexts, proved, proofs, passed, faults>>

\* classification, or what follows it, throws.
OpenFails(s) ==
  /\ Len(regs) < MaxSockets /\ Fault
  /\ regs' = Append(regs, NewReg(s, NoContext, TRUE, TRUE))
  /\ UNCHANGED <<app, bound, contexts, reqs, proved, proofs, passed>>

\* Pairing changes the credentials in this very socket.
Pair(s) ==
  /\ regs # <<>> /\ regs[Len(regs)].session # s
  /\ regs' = [regs EXCEPT ![Len(regs)].session = s]
  /\ UNCHANGED <<app, bound, contexts, reqs, proved, proofs, passed, faults>>

\* sessionObserved, writer_probe and assertNode ask for a context of their own.
Observed(n) ==
  /\ regs[n].ready /\ Managed /\ Asked(n, "observed", regs[n])
  /\ UNCHANGED <<app, bound, contexts, proved, proofs, passed, faults>>

Probe ==
  /\ regs # <<>> /\ regs[Len(regs)].ready /\ Asked(Len(regs), "probe", regs[Len(regs)])
  /\ UNCHANGED <<app, bound, contexts, proved, proofs, passed, faults>>

ProofsOf(n) == {p.at : p \in {q \in proofs : q.sock = n}}
Passes(n, at, asked, astray) ==
  passed' = {[at |-> at, asked |-> asked, proofs |-> ProofsOf(n), astray |-> astray]}

\* What-if variant: the captured context is good enough for a write.
WriteCached(n) ==
  LET r == regs[n] IN
  /\ r.ready /\ r.context # NoContext /\ ~ r.ambiguous /\ ~ r.context.cutover
  /\ Passes(n, r.context.at, app.at, FALSE)
  /\ UNCHANGED <<app, bound, contexts, regs, reqs, proved, proofs, faults>>

\* assertNode: a legacy socket's write passes, one without class is refused.
Write(n) ==
  LET r == regs[n] IN
  /\ r.ready /\ ~ r.ambiguous
  /\ IF r.context = NoContext
     THEN Passes(n, app.at, app.at, r.managed) /\ UNCHANGED <<regs, reqs>>
     ELSE Asked(n, "write", r) /\ UNCHANGED passed
  /\ UNCHANGED <<app, bound, contexts, proved, proofs, faults>>

-----------------------------------------------------------------------------
To(i, pc) == reqs' = [reqs EXCEPT ![i].pc = pc]
Closed(i) == reqs' = [reqs EXCEPT ![i] = [@ EXCEPT !.pc = "done", !.context = NoContext, !.asked = 0]]
\* configure comes to its end: the socket is made.
Readied(i) == IF reqs[i].kind = "configure" THEN [regs EXCEPT ![reqs[i].sock].ready = TRUE] ELSE regs

\* What-if variant: an answer is as good as any other.
CurrentUnsequenced(i) ==
  LET q == reqs[i]  r == regs[q.sock] IN
  /\ q.context # NoContext /\ q.session = r.session
  /\ q.kind = "probe" => q.sock = Len(regs)

\* captureContextCurrent.
Current(i) ==
  LET q == reqs[i]  r == regs[q.sock] IN
  /\ r.rev = q.rev /\ q.context # NoContext /\ q.session = r.session
  /\ q.kind = "probe" => q.sock = Len(regs)

Installs(i) ==
  LET q == reqs[i]  c == regs[q.sock].context IN
  Current(i) /\ ~ (c # NoContext /\ c.session = q.session /\ Regresses(q.context, c))

Installed(i) == [Readied(i) EXCEPT ![reqs[i].sock].context = reqs[i].context, ![reqs[i].sock].ambiguous = FALSE]

\* The authenticated answer, for this request and its session.
Answer(i) ==
  /\ reqs[i].pc = "asked"
  /\ IF bound
     THEN /\ reqs' = [reqs EXCEPT ![i].pc = "answered",
                        ![i].context = [epoch |-> app.epoch, stage |-> app.stage, cutover |-> app.cutover,
                                        at |-> app.at, session |-> reqs[i].session]]
          /\ UNCHANGED regs
     ELSE Closed(i) /\ regs' = Readied(i)
  /\ UNCHANGED <<app, bound, contexts, proved, proofs, passed, faults>>

Known(c) == \E i \in DOMAIN contexts : [contexts[i] EXCEPT !.at = c.at] = c

\* refreshContext stores the context once; an independent write and configure go
\* on with it at once, the others by way of the database.
Store(i) ==
  LET q == reqs[i] IN
  /\ q.pc = "answered"
  /\ contexts' = IF Known(q.context) THEN contexts ELSE Append(contexts, q.context)
  /\ \/ /\ q.kind \in {"configure", "write"} /\ Closed(i)
        /\ regs' = IF Installs(i) THEN Installed(i) ELSE Readied(i)
        /\ IF q.kind = "write" /\ Installs(i) /\ ~ q.context.cutover
           THEN Passes(q.sock, q.context.at, q.asked, FALSE) ELSE UNCHANGED passed
     \/ /\ q.kind = "observed" /\ UNCHANGED <<regs, passed>>
        /\ IF regs[q.sock].session = q.session THEN To(i, "observe") ELSE Closed(i)
     \/ /\ q.kind = "probe" /\ UNCHANGED <<regs, passed>>
        /\ IF q.context.stage = Fencing THEN To(i, "prove") ELSE Closed(i)
  /\ UNCHANGED <<app, bound, proved, proofs, faults>>

\* What-if variant: the session's event waits for the installation.
ObserveInstalled(i) ==
  /\ reqs[i].pc = "observe" /\ Closed(i)
  /\ IF Installs(i) THEN regs' = Installed(i) /\ proved' = proved \cup {reqs[i].session}
     ELSE UNCHANGED <<regs, proved>>
  /\ UNCHANGED <<app, bound, contexts, proofs, passed, faults>>

\* observe, then the installation, which may have been superseded.
Observe(i) ==
  /\ reqs[i].pc = "observe" /\ Closed(i) /\ proved' = proved \cup {reqs[i].session}
  /\ regs' = IF Installs(i) THEN Installed(i) ELSE regs
  /\ UNCHANGED <<app, bound, contexts, proofs, passed, faults>>

\* The probe's transaction, on the current socket only.
Prove(i) ==
  /\ reqs[i].pc = "prove"
  /\ IF Installs(i) THEN To(i, "proving") /\ regs' = Installed(i) ELSE Closed(i) /\ UNCHANGED regs
  /\ UNCHANGED <<app, bound, contexts, proved, proofs, passed, faults>>

\* Its commit, the check after it, and the proof.
ProofEnds(i) ==
  LET q == reqs[i] IN
  /\ q.pc = "proving" /\ Closed(i)
  /\ proofs' = IF Current(i) /\ regs[q.sock].context = q.context
               THEN proofs \cup {[sock |-> q.sock, at |-> q.context.at]} ELSE proofs
  /\ UNCHANGED <<app, bound, contexts, regs, proved, passed, faults>>

\* A request or a statement fails.
Fails(i) ==
  /\ reqs[i].pc # "done" /\ Fault /\ Closed(i) /\ regs' = Readied(i)
  /\ UNCHANGED <<app, bound, contexts, proved, proofs, passed>>

Work(i) == Answer(i) \/ Store(i) \/ Observe(i) \/ Prove(i) \/ ProofEnds(i)

Next ==
  \/ Advance \/ Rebind \/ Probe
  \/ \E s \in Sessions : Open(s) \/ OpenFails(s) \/ Pair(s)
  \/ \E n \in DOMAIN regs : Observed(n) \/ Write(n)
  \/ \E i \in DOMAIN reqs : Work(i) \/ Fails(i)

Spec == Init /\ [][Next]_vars

-----------------------------------------------------------------------------
\* The context of a socket never goes back to what the APP held before, nor to
\* an earlier stage or epoch, in whatever order the answers arrive: "An older
\* response cannot replace a context installed by a later request"
\* (nexi-attendance.cjs:1101).
ContextForward ==
  [][\A n \in DOMAIN regs :
       LET c == regs[n].context  d == regs'[n].context IN
       c # NoContext => d # NoContext /\ (c.session = d.session => d.at >= c.at /\ ~ Regresses(d, c))]_vars

\* "A cached pre-activation context cannot authorize an independent writer"
\* (nexi-attendance.cjs:1476): a write that passes was judged by a context the
\* APP gave after it was begun, and not before a proof of isolation that was
\* given by then; and no failure makes a managed socket one that needs none.
WritesJudged ==
  \A p \in passed : p.at >= p.asked /\ (\A t \in p.proofs : p.at >= t) /\ ~ p.astray

\* The types of the state hold along with it.
CaptureInv == TypeOK /\ WritesJudged

\* "Session proof must progress even when a concurrent writer refresh wins
\* installation" (nexi-attendance.cjs:1091): an observed session whose context
\* was answered is proved when its request ends, unless a step failed or the
\* credentials changed, whichever other requests were installed meanwhile.
ProofProgresses ==
  [][\A i \in DOMAIN reqs : LET q == reqs[i] IN
       /\ q.kind = "observed" /\ q.pc \in {"answered", "observe"}
       /\ reqs'[i].pc = "done" /\ faults' = faults
       => q.session \in proved' \/ regs[q.sock].session # q.session]_vars
=============================================================================
