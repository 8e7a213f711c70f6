# A verification project for the Evolution overlay

The repository is an overlay over the Evolution API: JavaScript modules
(`src/nexi-*.cjs`) that are copied into the image, patchers (`src/patch-*.mjs`)
that make the vendored provider call them, and migrations with database
triggers. Together they put *at most once* and *who may send* around a WhatsApp
library that promises neither. This directory holds TLA+ modules of that code,
TLC configurations that check them on small instances, and theorems proved with
TLAPS for every value of the constants.

Contents: [inventory](#inventory) · [plan](#plan) · [modules](#modules-and-the-code)
· [runs](#runs) · [fairness](#fairness) · [proofs](#proofs) ·
[assumptions](#assumptions) · [finding](#a-finding) · [limits](#what-is-not-shown)

## Inventory

Line numbers are in `src/`. "Row" is a row of the SQL database, "the APP" the
application that signs authorities and keeps the business state, "the ledger"
the shared Redis.

| Component | State it keeps | Operations | Interacts with |
|---|---|---|---|
| Replay ledger and Chatwoot delivery, `nexi-transport.cjs` 11-139, 185-303 | one Redis record per delivery identity: state, body hash, owner token, lease, TTL | `claim`, `beginDispatch`, `finish` (Lua); `verifyChatwootWebhook`, `processChatwootWebhook` | Chatwoot (retries webhooks), Baileys (writes), every Evolution replica through Redis |
| Financial delivery, `nexi-financial-transport.cjs` | the same ledger, consumed on claim; per-call `recipientContext` (`crossed`) | `withRecipient`, `resolutionInput`, `assertRecipient`, `beginRelay`, `assertWireRecipient` | the patched `sendMessageWithTyping`, the socket's credentials |
| Attendance authority and dispatch, `nexi-attendance-authority.cjs`, `nexi-attendance-dispatch.cjs` | the preparation row (state, consumption, start and return marks, revision), guarded by a trigger | `consumption`, `expiryReadback`, `dispatch`, `dispatchStart`, `transportReturned` | the APP, the capture context, the registered socket owner in `Instance` |
| Attendance preparation, `nexi-attendance.cjs` 1156-1298, 1648-1659 | the same row, before a release | `prepare`, `draft`, `replacementDraft`, `closeCollision`, `recoverPreparation` | the APP (reserve, close) |
| Attendance event outbox, 814-827, 1563-1688 | outbox rows; timer, running flag, wake-ups | `enqueue`, `drain`, `wakeOutbox`, `installOutboxDrainer` | the APP, other replicas |
| Receipt worker, 872-1026 | a bounded queue in memory, receipt rows | `append`, `capture`, the worker loop | Baileys callbacks, the outbox |
| Capture context, 711-738, 1041-1139 | the context installed per socket; the revision last asked for | `configure`, `sessionObserved`, `registrationContext`, `installCaptureContext` | the APP, `dispatchStart` |
| Relay gate, 1311-1479 | per relay: private root, purpose, mark of a control; per frame: its proof | `beginRelay`, `patchEncoding`, `encodeMessage`, `bindStanza`, `snapshotFrame`, `assertNode` | callers of the socket, the patching callback, the capture context |
| Groups socket lifecycle, `nexi-groups.cjs` 18-433 | owner token in `Instance`; pending tokens, timers, suspension, epoch in memory | `installAdmissionSocket`, `manualLifecycle`, `resolveManualRegistration`, `recordSuspension`, `recoverAdmission`, `probeStorage` | Baileys sockets, the database, every handler that asks `lifecycleCurrent` |
| Groups control and admission, 573-610, 764-996 | binding, control revision and catalog of an instance | `admit`, `control`, `interceptEvents`, `ingest` | the APP, the group outbox |
| Groups outbox, 434-436, 780-811, 997-1040 | outbox rows with attempts, due time, age | `enqueue`, `expireOutbox`, `drain` | the APP |
| Chatwoot context isolation, `nexi-transport.cjs` 152-172 | properties of the shared provider, per asynchronous call | `isolateChatwoot` | every webhook |
| Event signing, retry policy, 1-10, 300-417 | none | pure functions | the event webhook |
| Identity, canonical JSON, snapshots | none | pure functions | all of the above: equality of what they return |
| Storage guard and migrations | trigger and catalog fingerprints | `assertStorage…` inside transactions | authority, preparation, outbox |
| Build-time patchers | none at run time | text rewriting, checked by digests and anchors | create the call sites of the helpers |

Everything runs in Node: code between two `await`s is atomic, everything else
interleaves, and several replicas share Redis and the database. What is hard:

- **interleaving and atomicity.** A check is followed by an `await`, and what it
  checked (a lease, a session, an owner token, a context) changes before it is used;
- **crash and lost replies.** Redis or the database applied a command whose reply
  never came; a process dies between a durable marker and the side effect;
- **timeouts.** An operation that timed out may still write afterwards;
- **retention.** A TTL, a lease or a deadline runs out under a stalled handler;
- **replays.** Chatwoot, the APP and operators retry, also at other replicas and
  with different bodies or authorities;
- **bounded queues, backoff and timers** in the two outboxes and the receipt worker.

What makes each part correct: the ledger never lets a delivery cross twice and
never forgets it while it can be replayed; a financial message leaves only by a
socket of the session that was signed, behind a check that found session, instance and
time as signed; an attendance message starts only for
the registered socket, durably before the write, and never after its expiry was
reported; an outbox sends each event in counted, bounded attempts, settles it as the
APP answered and strands none (it promises no order: a failed event is overtaken
while it backs off); a socket that was stopped, replaced or suspended can no longer act.
`PROJECT.json` lists the hazards one by one, at their lines, with the property
that covers each.

## Plan

Ordered by what it costs when it goes wrong: writing to somebody twice first.

1. `LedgerScripts`, `DeliveryOnce`, `ChatwootDispatch` — modelled, checked and proved.
2. `FinancialDelivery` over the same ledger — modelled, checked and proved.
3. `ReleasePromise`, `AttendanceDispatch` — modelled, checked and proved.
4. `AttendancePreparation`: draft, reserve at the APP, freeze, collision and its
   replacement, recovery — modelled, checked and proved.
5. `OutboxPromise`, `AttendanceOutbox` — modelled, checked and proved.
6. `ReceiptWorker`: queue, overflow, trip, recovery — modelled, checked and proved.
7. `CaptureContext`: answers out of order, what a write is judged by — modelled, checked
   and proved.
8. `GroupsLifecycle`: registration, pending tokens and their refund, stop by hand,
   suspension across restarts — modelled, checked and proved.
9. `GroupsControl`: control revisions, admission, the packet lane — modelled, checked and
   proved.
10. `GroupsOutbox`: attempts, age, expiry — modelled, checked and proved; it implements
    `OutboxPromise` too, with events that grow old.
11. `RelayGate`: what a socket writes against what it was handed — modelled, checked and proved.
12. `ChatwootIsolation` and the clamping of `retryPolicy` turned out not to be worth a
    module: see [limits](#what-is-not-shown).

Runs stay small (two or three actors, clocks of a few ticks, chosen so that each
timer can run out before and after the step it races with). Invariants are
conjunctions of named parts, so that the inductive one can be proved part by part,
and no module declares a RECURSIVE operator.

## Modules and the code

### LedgerScripts
The three Lua scripts (`nexi-transport.cjs` 11-68) as a reply and a record, at
Redis's own clock. Redis runs a script atomically. A record is absent until
claimed and again once its TTL is over (`Live`). `initial` is what tells the two
users apart: `reserved` (Chatwoot) may be reclaimed after its lease,
`dispatching` (financial) is consumed by the claim itself. The replies for
records that cannot be decoded are left out: only these scripts write the keys.

### ChatwootDispatch
`pc[r]` is the handler of request `r` between two awaits: `verified` after the
timestamp check (187-204), `claimed`, `crossed` after `beginDispatch`,
`executing` inside `receiveWebhook`, `returned` or `threw`, `answered`. `store`
is Redis, `wire[r]` says whether Baileys may still write for `r`: a message that
timed out may be written after the handler answered, so `WriteWire` is an action
of its own. Requests carry a delivery identity and a body; `Init` lets them share
either. `Crash` kills a handler anywhere, `StoreUnavailable`, `Finish(r, FALSE)`
and `FinishUnreachable` are Redis failing before or after it applied the command.

### DeliveryOnce
What the ledger promises, without Redis, clocks, leases or crashes: each
delivery crosses once, is written at most once and only after crossing, and is
settled once. `ChatwootDispatch` implements it under the mapping `Once` (a
delivery without a record, or merely reserved, is "open").

### FinancialDelivery
`withRecipient` and the checks that the patched send asks for at each await: on
the way to the number lookup, on its result, before the relay, and last on the final
stanza (`AssertWireRecipient`). That check is not the write: the patched `sendNode`
(`patch-attendance-source.mjs` 119-122) awaits `assertNode` between them, which may read
the database and ask the APP (the gate itself is in `RelayGate` and `CaptureContext`).
A stanza is `cleared` meanwhile, and `WriteWire` asks nothing again, nor does the code.
`session` and `bound` are what `currentBinding` and the credentials say at any moment:
`Relink` and `Rebind` change them between any two steps, these two included. A relay
whose call threw stays `open` or `cleared`: the write may still come.

### AttendanceDispatch
One preparation row and the requests for it. `row` holds what the properties
tell apart (state, consumption, revision); `lockRow` and `lockInstance` are the
locks that a transaction keeps until it commits, rolls back or dies; `seen[r]` is
the revision that the guarded updates compare. `consumption` is `ConsumeRead` and
`ConsumeWrite`; `dispatch` goes `DispatchRead`, `ExpiryReadback`, `Content`,
`ReleasedGrantCapability`; the send then reaches the gate: `AssertNode`,
`ContextReply`, and the transaction of `dispatchStart`: `LockSocket` (the update
of `Instance` only the registered owner can make), `LockRow`, `StartUpdate` (with
the trigger's deadline), `StartCommit`; `CaptureContextCurrent` and `WriteWire`
follow in the gate, `NoteRead` and `NoteWrite` are `transportReturned`. The
environment registers and publishes new sockets (two steps: the database first),
stops them, asks for newer contexts, and moves the clock. `Clock(r)` is the
transaction's begin or now: PostgreSQL's CURRENT_TIMESTAMP is the former, MySQL's
the latter; the trigger compares the deadline with its own clock. `WaitsFor(r)` is the
transaction that holds what the next statement of `r` needs: the row for every guarded
update and every `FOR UPDATE`, `Instance` for the update in `dispatchStart`. The actions of those
statements have `WaitsFor(r) = NoRequest` as their guard; no other continuation waits for a lock.

### ReleasePromise
What a preparation promises to the APP with no database in sight: consumed once,
started at most once and never after the expiry was told, written at most once
behind the start, evidenced once and truly. `AttendanceDispatch` implements it
(`Promise`).

### AttendanceOutbox
`row[e]` is the outbox row of an event, `at[p]` the drainer of process `p` with the
local variables it carries over its awaits, `ready[p]` its map of hints in order,
`binding[i]` what the webhook of an instance says. `WakeOutbox` (1664-1671) drops a hint
that finds the map full; `Poll` (1742-1760) takes at most `Window` of the instances with
due work, in no order, and wakes as many as fit. A drainer then goes through the awaits
of `drain` (1563-1648), one stage each: `TakeHint`, `Boundary`, then either `Unbind`, or
`Sweep` (give up events whose last attempt nobody settled), and per turn `Find`,
`Discard` or `Claim`, `Post`, `Response`, and `Settle` or `Release`. `clock` and `asked`
are the times its statements carry, taken when they were issued and not when they reach the
database; `seen` is the attempt count `findFirst` returned, on which `Release` decides
whether this attempt was the last. A statement may fail (`Fails`), or work and lose its
reply (`ReplyLost`); only a failed settling falls through to the release, everything
else ends the drain. `Crash` loses drainer and hints, `Rebind` changes the webhook, and
`Take` is the APP persisting an event, maybe long after the request timed out.
The lease token is the name of the process: a fresh UUID per claim in the code, but a drainer
claims one event at a time and gives up all others before.

### OutboxPromise
What an outbox promises about one event with no rows, leases or drainers: recorded
before it is attempted, sent only in counted attempts, settled once, as acknowledged only if the
APP took it, and given up only when its attempts (or its time) are spent.
`AttendanceOutbox` implements it (`Promise`, with no event ever old).

### AttendancePreparation
`row[k]` is the k-th preparation of one unit, under its own request id; `app[k]` is what
the APP knows of its candidate message id: nothing, a registered attempt, a reservation, or
the final fence after a collision. `at[w]` is an exchange of the prepare route or a recovery
of the timer with what it carries over its awaits: the row as it was `seen`, its predecessor,
and where it goes next. `Exchange`, `Find`, `Context`, `Create` are `draft`; `Ask`,
`AskFails` are the requests to the APP, where each loses the question or the answer;
`Update` is `compareUpdate`, which compares state and revision, passes the trigger (`Guarded`)
and is followed by `AfterUpdate`, a read of its own that returns whatever is there by then;
`Readback` is what decides after an error of the reservation; `Recover`, `Failed` are
`recoverPreparation` with its counted tries. `Consume` stands for the authority, which may take
a prepared row on (`AttendanceDispatch`). The APP is external: idempotent by request id.

### ReceiptWorker
`worker` is the object of that name in one process: `queue`, `active` and the `recovery`
buffer with their byte counters. `Capture` submits the receipts of one packet (`Submit` asks
`Saturated`), `Turn` and `Pump` start what has a slot, `Expire` is the deadline of a job,
which resolves its promise but keeps its place or its slot, `Appended` and `AppendFailed`
end an append, `Return` lets the handler go on once all its promises are resolved.
`Recover` is the timer's turn. `trip` is the `gap` of these operations: it makes the worker
unhealthy for good and starts a health write unless one is under way (`HealthWritten`,
`HealthFails`). `Blind` is a capture that finds no context, repository or limits. `Crash`
loses everything in memory. What an append writes in one transaction is `journal`.

### CaptureContext
`regs` are the registrations of the sockets, with the sequence number of the request asked
last and the context installed; `reqs` the requests for a context, each with its kind:
`configure` of a new socket, the observation of a session, a write, the writer probe. `Answer`
is the APP's answer arriving, `Store` the row of the context and, for writes and `configure`,
the installation; `Observe` goes by way of the database first; `Prove` and `ProofEnds` are
the probe's transaction and the check after it. `Pair` changes the credentials in a socket,
`Advance` what the APP would answer, `Rebind` whether the instance is managed at all.
`Current` is `captureContextCurrent`, `Installs` is `installCaptureContext`.

### RelayGate
`at[c]` is one call of the socket with what it carries over its awaits: a relay, from the
message to the stanza, or a frame handed to `sendNode` as it is (`Direct`). A message is how
deep it is wrapped and what it is in the end; `Purpose` is `semanticPurpose`. `Relay` copies
and classifies it (`beginRelay`, and `markInternalControl` in `Marked`); each encoding is a
`Patch`, whose callback may return anything, and an `Encode`, which joins its purpose to what
is known (`Join`); `Bind` is `bindStanza` with the entry into the gate in the same tick. `Judge`
and `Refresh` are `assertNode` after each of its awaits, and `Write` hands the frame on. Callers
and callbacks keep references: `CallerMutates` and `CallbackMutates` say that a read of
what they hold may give anything from now on, and `Root`, `Bytes`, `Outgoing` say
that the code reads copies of its own. The fields `altered`, `touched`, `reused` and `seen` are history.

### GroupsLifecycle
`db` is the `Instance` row (owner token, status, why it is disconnected); `own[p]` what the
service of process `p` holds: published socket, its token, suspension, retirement, the epoch
that every stop and cleanup moves on. Four tasks interleave, each with its stage: `conn[p]`
connects (asks, registers with a pending token, makes the socket, publishes it, or refunds
the token), `rec[p]` records a suspension, `heal[p]` probes the storage after a failure, and
`man[p]` is a manual stop or the cleanup of a failed connect, which waits for the connect it
found while a connect waits for the cleanup it found. `Boot` reads the row back after a
restart; `Recover` and `Reconnect` are the timers. `ClaimElsewhere` is another process
claiming the registration.

### GroupsControl
`ctl` is the binding row of an instance: generation, control revision, session, catalog and
the rooms with their own generations, authorizations and metadata revisions. `wire[n]` is a
packet on its way: sent, its lane of handlers, answered; `keys` are the Signal keys, whose
commit makes a packet undecryptable the second time. `Deliver`, `Publish`, `Handle` are the
patched receive path with `admit`, `interceptEvents` and `ingest`: the event is committed
before the keys, and the keys before the answer. `Request` and `Serve` are `control` for
bootstrap, catalog and room, compared by revision; a room request reads, fetches what
WhatsApp says, and writes if nothing moved in between. `Pair` changes the session, `Disconnect`,
`Reconnect`, `Crash` the lane. `steady` and `snaps` are history: packets of rooms enabled
all along, and what the application was told of a room.

### GroupsOutbox
The counterpart of `AttendanceOutbox`, with sweeps instead of hints: `Timer` begins one
whether or not the one before it has ended, `ExpireOutbox` puts aside what is old or spent,
`TakeInstance`, `Endpoint`, `Find`, `Claim`, `Post`, `Response`, `Settle`, `Release` are
`expireOutbox` and `drain`, with the clock and the row that each statement was issued with.
Events come to an age here, and `Terminal` decides on the age as well.

The modules keep *what-if variants* of some definitions next to them: the same
operation with a dropped guard, a missing lock or a wrong order. Nothing uses them;
substituting one breaks the property that `PROJECT.json` names for it, which shows
that the property depends on that line of the code.

## Runs

| Run | Question | Instance |
|---|---|---|
| `ChatwootReplay` | can any schedule of replays, lease expiries and crashes write twice, act on a record it does not own, or report a success that was none; does the handler implement `DeliveryOnce` and answer every request? | two deliveries, two requests of any of them, a message, a managed history and an invalid one, lease 1, TTL 4, skew 1, clock to 5 |
| `FinancialOnce` | is a delivery written once, by a socket of the signed session and behind a check made in time, while tokens are re-signed and the instance is re-linked? | one delivery, two tokens (deadlines 2 and 3, two sessions), two calls, clock to 4, TTL 3 |
| `AttendanceRelease` | is every write evident, every return true, is each request told of its own material, does nobody start for a socket that was replaced or after its expiry was told, is nobody stuck on locks, and does the row implement `ReleasePromise`? | a dispatch and a readback of one material at a process, a competing material that is not for physical dispatch at another one, a socket each, deadline 1, clock to 1 |
| `AttendanceCapturedSocket` | is the socket of the start the socket of the send? No: see [the finding](#a-finding) | one process, a socket and its replacement |
| `OutboxLive` | does every schedule keep leases and `OutboxPromise`, and is every due event leased again or settled? | one process, two instances with an event each, one of them unreadable, poll window 1, one fault; or two processes and one event; two attempts, lease 1, clock to 2 |
| `Preparation` | does the APP ever hold two candidates, is what it reserved frozen with its event, and is a drafted unit prepared in the end? | two workers and the timer, one unit and one replacement, an exchange, one fault |
| `Receipt` | is memory bounded and counted right, is no loss silent, does every handler return? | packets of one and two receipts, one of them large, two of them in work, a queue of two and three bytes, one slot, a buffer of two, one fault |
| `Capture` | can an older answer win, a write pass on a captured context, or an observed session remain unproved? | one socket, two sessions, three overlapping requests, one change at the APP, one fault |
| `Relay` | is what a socket writes what it was handed, judged for what it is in all of its encodings, and refused only for a cause? | one call, four messages, wrappers looked through to depth 2, two encodings, two sessions, one fault or pairing |
| `GroupsLifecycle` | does a stop by hand hold, does a task it overtook publish a socket, does a task wait for ever, is a recorded suspension recovered? | one process and claims by another one, three tokens, one stop, two faults |
| `GroupsControl` | is a packet ever answered without its event, an event admitted against the authority, a catalog or snapshot stale and called current? | a message and a removal in one room, one lane, two control calls, requests for catalog and bootstrap of two generations and to enable, refresh and disable the room, a pairing, control revisions to 3, one fault |
| `GroupsOutbox` | do overlapping sweeps keep leases and `OutboxPromise`, and does no event stay past its time? | two sweeps, one event, two attempts, age 2, lease 1, clock to 3, one fault |

The bounds are chosen so that each race can go both ways. In `ChatwootReplay` the
lease (1) runs out before and after `beginDispatch` and the clock passes the skew
window of a timestamp and the TTL of a record claimed at 0; two requests are the
fewest in which a reservation is reclaimed under its owner. In
`FinancialOnce` the clock passes both deadlines and the retention of the first
claim, also between the clearing of a message and its write, when the record may already be
another call's. In `AttendanceRelease` the deadline falls before, between and after the
checks; two sockets are the fewest for a takeover, three requests for a race of the same and of
another material.
In both outbox runs a lease runs out under a stalled holder and is given to another one, who
may be about to settle, release or give up the event when the first one does; two
attempts are the fewest with a last one that is not the first; the one fault may
be of any kind and at any stage. `OutboxLive` is two instances in one specification
(`CrewSpec` in `MCAttendanceOutbox`), since together they are too large: which processes run
is chosen once. Where one runs, the poll looks at one of two instances at a time, so that it
matters which, and a fault occurs. Where two run there is one event and no fault: what passes
a lease on is a stall and the clock. In `GroupsOutbox` the age (2) lies beyond two leases of an
event recorded at 0, and beyond its backoff (1): the second attempt may begin under the stalled
first one or after its release, is the last, and ends before or after the age, so that
an event is given up for either reason. Its one instance is loaded; that retention serves instances that are
not loaded is in `ExpireOutbox`, but not exercised apart from webhooks that are taken away.
Its hint map holds both instances: with a map that is kept full by hints for
one instance the poll never gets a hint in for the other, and the code, whose map holds
1000, promises nothing then. `NoEventStranded` also excludes (`Hindered`) malformed webhooks,
for which `boundary` throws at every drain while the poll keeps counting the instance in,
and leases that end after the bounded clock has stopped. `RetentionKept` excludes the latter too.

In `Preparation` the tries of the recovery (6) exceed what conflicts and faults can use up,
so that a unit given up after all of them, which the code allows, does not occur; the last
candidate never collides. In `Receipt` the limits are below what two packets bring, so
that the queue refuses, the buffer overflows, and a large receipt is dropped where a small
one fits; deadlines pass at any moment. In `Capture` three requests are the fewest
in which the one in the middle is neither the oldest nor the newest. In `Relay` one call is
enough, since calls share only the session and the classification, which change at any time; two
encodings are the fewest of which the later can contradict the earlier, and depth 2 stands for the code's 8. In `GroupsLifecycle` three tokens
allow a published, a pending and a recovered one; when all tokens are used the process can
connect no more, which its liveness properties except (`Fresh = {}`). In `GroupsControl` the binding
starts absent or bootstrapped, so that three revisions reach an authorization and its
revocation. The theorems that are proved hold for any bounds.

`CHECK_DEADLOCK FALSE` is set where the system is done once the bounded inputs are used up
and answered. The outboxes never stop: their polls, hints and sweeps go on. Where stopping
early would be wrong, a liveness property says so.

## Fairness

The `FairSpec` of `ChatwootDispatch` adds weak fairness of `Progress(r)` for each request and nothing else:
Node runs the continuations of a request whose awaits settle, and `Progress`
contains exactly those continuations with Redis, the database and the APP
answering, or (`StoreUnavailable` on a verified request) failing for good. Nobody
must send a request, no clock must tick, no process must crash, no late write
must happen. Under it `EveryRequestEnds` says that a handler never waits for
ever, not even on a reservation that was taken over. `AttendanceDispatch` claims
no liveness but the two facts it would rest on, which need no fairness: `NoDeadlock` (whoever holds
a lock is under way, and whoever waits for a lock waits for one that waits for nobody), which
is checked and proved, and that each step of a request leads forward, which is proved
(`SpecMovesForward`).

The `FairSpec` of `AttendanceOutbox` adds weak fairness of `Progress(p)` (Node runs the
drainer; a request is answered or times out), of `Poll(p)` (`setInterval` fires), and of
`Tick`, since leases and backoffs end by time alone. Hints, faults and the APP owe nothing.

The newer modules follow the same rule. `GroupsOutbox`: the clock, the timer of each sweep and
its continuations. `GroupsLifecycle`: each task of a process, and the timers `Recover` and
`Reconnect`; nobody must connect, stop or fail. `AttendancePreparation`: the continuations of each worker,
and strong fairness of the recovery of each row, since the timer's query takes it again and again
between the moments at which all workers are busy. `ReceiptWorker`: only deadlines (`Expire`)
and returns; that appends end at all (`AppendsEnd`) is a hypothesis inside the second half of `EvidenceEnds`
and not assumed for the first, where the database may hang for ever. `CaptureContext`, `RelayGate` and `GroupsControl` claim safety only: whether a
packet is delivered again is for WhatsApp to decide.

## Proofs

`ChatwootDispatch_proofs`, `FinancialDelivery_proofs`, `AttendanceDispatch_proofs`,
`AttendanceOutbox_proofs`, `GroupsOutbox_proofs`, `GroupsControl_proofs`, `GroupsLifecycle_proofs` and
`CaptureContext_proofs` prove, for every value of the
constants that meets the named assumptions, every safety property that the runs of
these eight modules, of `AttendancePreparation`, of `RelayGate` and of `ReceiptWorker` check except the one that fails (`StartedOnTransportSocket`); that
includes all four refinements (of `DeliveryOnce`, of `ReleasePromise` and, by two
modules, of `OutboxPromise`). They also prove some that no run lists any more, since
they follow: `AtMostOnce` of `AttendanceDispatch`, `WriterOwnsDelivery` and type correctness of each module, `PostsBounded`,
`GivenUpExhausted`. The theorems about `AttendancePreparation` are the second part of
`AttendanceDispatch_proofs`, about an instance of it (`Prep`) that has constants and variables of
its own beside those of the dispatch; the assumption on its constants, `PreparationConstants`, is a
hypothesis there. In the same way the theorems about `RelayGate` are the second part of
`CaptureContext_proofs` (`Gate`, with `RelayConstants`), and those about `ReceiptWorker` the second part
of `AttendanceOutbox_proofs` (`Worker`, with `ReceiptConstants`): the receipts are journaled with the
events that the outbox then delivers.

Each follows the same argument. None of the properties is inductive, so each
module defines an inductive invariant (`IndInv` in most, `PrepIndInv` for the preparation, `GateInd` for
the relay gate, `WorkerInd` for the receipt worker, `LifeInd` for the lifecycle), and its proof has one step per action:

- **ChatwootDispatch.** Two facts carry it. `HolderIsOwner`: who has passed
  `beginDispatch` and may still act is the owner of the record, which is then in a
  state no script gives to anybody else. `Retained` with `FreshWhenChecked`: a
  request that can still reach the claim carries a timestamp that a stored record
  outlives, so a claim never finds the record of a written delivery expired. That
  second half uses `RetentionCoversReplay`: with a TTL shorter than the replay
  window the module is wrong, and `ChatwootReplay` finds it.
- **FinancialDelivery.** The claim consumes, so there is no lease to argue about;
  but a call may stall longer than the ledger remembers. `RunnerIsOwner` therefore
  says that a running call owns its record *or every token of the delivery is past its
  deadline*, and then no wire check passes any more. `Retained` and
  `VerifiedInWindow` with `RetentionCoversTokens` keep the record alive until
  then. Between the wire check and the write the deadline protects nothing; what does is
  `ClearedAlone`: when a message is cleared its call is the one running owner, and whoever
  claims the delivery after that comes too late to be cleared himself. So at most one message is
  ever cleared per delivery, however late it is written. Action properties (`WrittenAsSigned`,
  `ConsumedForGood`) follow from the same invariant.
- **AttendanceDispatch.** `RequestSound` ties the stage of one request to the row
  and the locks: between `LockRow` and the commit it holds the row lock and the
  row is not started, and its owner token is the one in the database as long as it
  holds the instance lock. `AnswerSound` makes answers stable, and `PairSound`
  relates two requests: only one comes to send, and nobody is about to commit a
  start once another was told of the expiry (the expiry is read under the same row
  lock, and a start passes the trigger before the deadline).
  `NoDeadlock` needs the converse as well, that a lock is held in those stages only: who holds the
  row also holds `Instance` and has all it needs, so whoever holds `Instance` and still needs the row
  finds it free, and a chain of waiting ends after one link. It is stated on the locks rather than
  with ENABLED, which the prover does not have; that a request under way which waits for nobody can
  step is read off the guards, each stage having a continuation for every outcome of what it read.
  `SpecMovesForward` measures a request by `Position`: no fault, retry or interference ever takes
  it to an earlier stage, so it ends after at most 20 steps of its own.
- **AttendancePreparation.** Workers hold rows that others change, so the argument is about what
  never goes back (`Onward`): a row that is there stays, a closed one stays closed, and what the APP
  reserved or fenced stays so. `Fit` says what a worker relies on at each stage, all of it of that
  kind, so a step of another worker cannot spoil it (`FitOnward`). `RowOK` ties a row to its event
  and to the APP, and needs `Fit` where an update writes what an earlier answer said, and the
  trigger where a stale worker would write. `ChainInv`, that a row exists only behind closed ones,
  is what makes a second reservation impossible: the first one's row would have to be closed, hence
  fenced.
- **AttendanceOutbox.** Attempts never decrease, so what a drainer once saw of its event
  stays a lower bound (`DrainerSound`): a drainer that releases on the count it read
  gives up only an event whose attempts are spent. `RowSound` counts: posts made and
  drainers about to post (a finite set, since `Procs` is finite) together never exceed
  the attempts, because each claim adds one to both sides and each post moves one over.
  `LeaseRespected` needs that the times statements carry are never ahead of the clock:
  a running lease is then never seen as expired. That no attempt passes `MAX_ATTEMPTS` is part of
  the type, hence of every step.
- **ReceiptWorker.** What is in work is known by `Tag`: call, place, key and whether it expired. `Firm` says
  that the three byte counters are the sums over what is there and that all limits hold. `Covered`, the keys
  journaled, let go, retained or in work, never shrinks, and `Gapped`, that a gap is known or was forgotten,
  never ends; so it is enough that a receipt is covered when it is captured, and journaled or a gap when its
  promise is resolved. That takes three facts. An expired job may leave the queue at any pump, so its
  key is retained or let go already (`ExpiredKept`). A deadline marks every job of its id but retains one
  key, so an id names one key (`OneKey`). And the id under which a call waits is that of its own receipt
  (`OfPackets`), or the append that settles it would journal another one. `Pump`, `Capture` and the
  totals are folds over sequences. What a fold computes is an induction over its length, which no
  installed prover does by a rule; it is done here by the least length at which it would fail (`Least`, from
  the well-foundedness of the numbers): a fold is the last value of a function from 0 on (`SumFold`,
  `TurnFold`, `SubmitFold`), and each value keeps what the one before kept (`TurnedNext`, `CapturedNext`).
- **GroupsOutbox.** The same two halves, `SweepSound` and `EventSound`, with what age
  adds: a sweep's clock is never ahead of the time and the birth of an event never
  changes, so what a sweep or the expiry gives up as too old has reached `MaxAge`, as
  `OutboxPromise` demands. A sweep of the timer works through several instances with
  one set of locals; between them it holds nothing (`Between`).
- **GroupsControl.** The row moves under the feet of handlers and requests, so most of `IndInv`
  says what a copy read earlier still tells. `Version`: a row ever read is an earlier version of
  the present one, whose generation, revision and rooms only move on (`Ordered` for a room's
  request between its reads). `HandlerInv` ties a stage of a handler to its packet and session.
  `SeenInv` is what makes a catalog or snapshot current: as long as the row is the one a request
  read, what the request has fetched includes every packet answered or past its last check
  (`Passed`); a packet can pass only by moving the row, or by finding that its room is disabled.
  `CatalogInv` and `FollowedInv` carry that over to the row and the snapshots, and `SteadyInv`
  follows a packet of a room enabled all along from delivery to its event. They are one
  induction: each is needed for another one's step.
- **CaptureContext.** `ReqInv` is the argument of one number per registration: a request in work
  was asked after everything its socket knows, unless a later request has taken its number;
  `Numbered`: no two requests in work of a socket share a number, so the installation of one
  makes no claim about another. What is installed is thus asked after what it replaces, and
  answered after it was asked. `ProofsInv` adds that a proof never says more than its socket
  knows, so that a write whose own request was installed is judged later than every proof; and
  `RegInv` that a managed socket without a context is ambiguous, so that its write is refused.
- **GroupsLifecycle.** A step moves one process, and takes nothing back that the others count on: a
  token once made stays made, a lock of another process stays its own (`Moves`). So every action is
  looked at for the one process that takes it, and `Fit` says of a process how its owner, socket,
  connect, stop, suspension and recovery stand to each other. Its heart is what a cleanup may rely on: no
  connect is under way but one that waits behind it, and the owner it cleans is
  cancelled unless its id changed. `StopsHold` adds what the row says of a stopped
  process (`Settled`); `StopOvertakes` follows because a stop raises the epoch that the connect noted
  before its first await and compares with before it publishes. What `StopHolds` says of the row it
  says of a process that registers alone (`Procs = {p}`, with claims from elsewhere still possible). A
  first form, that only excepted processes sharing a token at that moment, is false for two
  processes and three faults: the second adopts the token of the first's suspended
  registration, is stopped and cleans up; the first then records its next suspension under that token and dies.
- **RelayGate.** `Sound` speaks of one call at a time. While a relay encodes, `EncodedSound`
  holds: if its purpose is still `customer`, so is all it encoded, and if it is still marked as a
  control, everything it encoded is its root. Binding turns that into `ProofSound`, the frame
  bears out its proof, which outlives every await since the frame is a private copy. Both halves
  are needed: `DeniedForCause` uses the converse, that an unaltered control keeps its mark.

All refinement proofs map the initial state and then each action to one abstract
action or a stutter, from `IndInv`. Liveness (`EveryRequestEnds`, `NoEventStranded`,
`RetentionKept` and those of the other modules) is only model-checked. Of `EveryRequestEnds` the part
that needs no fairness is proved: `SpecMovesForward`, a handler never goes back to a stage, and
`SpecAlwaysResumable`, none is past the dispatch boundary with a body it has no operation for, the one
stage whose continuations do not cover every body.

## Assumptions

- `GroupsControlStart`: the row a history of `GroupsControl` begins with is of the present pairing
  or of an earlier one, and no room of it is enabled yet. `GroupsControlConstants`: a request names
  a room's generation and metadata revision from 1, as `control` demands.
- One clock for hosts, Redis and the database; `MaxStall` bounds the time from the
  timestamp check to the arrival of the claim in Redis (0 and 1 in the runs, any
  value in the proofs, within `RetentionCoversReplay`).
- `RetentionCoversReplay`: the TTL (30 days) outlives every moment at which a
  signature made for the delivery is still fresh (five minutes around it).
  `RetentionCoversTokens`: the backend signs no token for a delivery whose deadline
  exceeds the earliest token's by more than the TTL less the verification window.
- Redis keeps what it acknowledged (the README of the repository makes
  durable, non-evicting Redis a deployment gate).
- An operation that returned normally writes nothing afterwards; one that threw may.
- A row read under its lock shows the latest commit. The update of a consumption and
  its commit are one step: nothing is awaited between them that another could see.
- The sockets of `AttendanceDispatch` belong to the session of the row; contexts of the
  APP are a sequence of revisions, and a context that does not match fails the
  request. Losing contenders may record `succeeded: false` before the writer's
  write: the code allows it and so does the model.
- In `AttendanceOutbox` a statement of a dead process took effect before the death or
  never, a failed statement had its effect when it failed or never, all processes run
  one build and so agree on what is readable, and the trigger that makes event rows
  immutable never rejects the updates modelled.

## A finding

`dispatchStart` must, says the comment at `nexi-attendance-authority.cjs` 231-232,
install in capture "the same socket/authority used by the transport". It captures the
lifecycle owner of `source.service` when the stanza is at the gate (198), while the
message is being sent on the client that `dispatch` took earlier. `assertNode`
(`nexi-attendance.cjs` 1444-1446) compares instance id and session fingerprint, not the
socket. If the socket is replaced while the send is being prepared, the start is committed for the
replacement. `AttendanceCapturedSocket` is that schedule. The promises to the APP
still hold (`KeepsPromise`): at most one message is written, and the start is evident.

## What is not shown

- Liveness is checked on small instances only: temporal proofs under fairness and ENABLED are out of
  the prover's reach. For `AttendanceDispatch` no termination property is stated; what is proved is
  that requests cannot wait in a circle and cannot go back.
- Cryptography, canonical bytes, field-by-field comparison of bindings and header
  syntax are one equality or one refusal.
- `AttendanceDispatch` leaves out `preparationReadback` and `writer_probe`, which
  do not change the row (the probe is in `CaptureContext`), the expiry of the signed envelope, and the
  refund of pending tokens; socket registration is the success path of `installAdmissionSocket`,
  whose other paths are in `GroupsLifecycle`.
- Native retries of Baileys and their denial by message id.
- That a financial message is written before its deadline and while the service is still the instance
  it was signed for: the code checks both before the gate of `sendNode` and not after it, so
  `WrittenAsSigned` promises them for the check only.
- What an event of an outbox is about, its signature headers and tracing.
- `AttendancePreparation`: digests of messages and stanzas, and the unit's position in its chain
  beyond predecessor and successor.
- `ReceiptWorker`: one worker at a time; the append's transaction is one step that carries whether it
  found its key when it began; the limits are constants and the deadline may pass at any time.
- `CaptureContext`: barrier stages are two, before fencing and fencing; `passed` keeps the last write
  that passed; capability sends are in `AttendanceDispatch`, internal control messages in `RelayGate`. That the
  APP goes back to an earlier epoch or stage is a fault.
- `RelayGate`: a message is its wrappers, its kind and a body; fingerprints are equality; that a copy is refused
  (size, depth, accessors) is a failure of the step; the encodings of a relay come one after the other, which their
  join makes equivalent; frames to a group are left to the groups guard, and raw bytes (`externalRaw`) are not modelled.
- `GroupsLifecycle`: the growing delay of the reconnect timer is any delay; deleting an instance and
  ending its session are part of the manual stop; one recovery at a time; the cleanup transactions
  of a disconnect are one step; operation checks and profile changes are left out. Of the row `StopHolds` speaks only when
  one process registers (see [Proofs](#proofs)): two that share a token cannot be told apart by it. A recovery probe (`probeStorage`, `nexi-groups.cjs:394`)
  that overlaps a connect may forget the pending token of that connect, which is then left to the next stop or
  claim; this was seen while modelling and is stated as no property.
- `GroupsControl`: the nonce of a generation is the generation; account and channel do not change;
  `interceptEvents` is kept as far as it makes the catalog stale or moves the revision; a
  transaction is one step at its first update, which locks the row; the age at which a catalog is
  fetched again is nondeterministic; tombstones of older generations and the
  metadata watermark are left out; packets of a lane are handled one after the other. A packet whose event was recorded but not
  answered before its room is authorized in the next generation meets its own event as a
  conflict (`nexi-groups.cjs:808`): seen while modelling; that a packet is answered in the end is not stated.
- Isolation of the Chatwoot provider per request is what Node's AsyncLocalStorage
  promises: a model would assume its conclusion. Event signing, the clamping of `retryPolicy`, identity and
  canonical JSON are pure functions without state.
- Build-time patchers (text rewriting checked by digests) and the storage guard's catalog comparison;
  the patched receive path of Baileys is modelled in `GroupsControl`.
