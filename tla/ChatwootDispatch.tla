-------------------------- MODULE ChatwootDispatch ---------------------------
(***************************************************************************)
(* processChatwootWebhook over the shared replay ledger                    *)
(* (nexi-transport.cjs): signed Chatwoot webhooks, possibly the same       *)
(* delivery many times and at several Evolution replicas, are verified,    *)
(* claimed in Redis, moved over the dispatch boundary, executed and        *)
(* settled.  Every await is a step boundary, so requests interleave        *)
(* freely, a reservation may run out while its owner waits, a process may  *)
(* die anywhere, and a Redis command may fail before or after it took      *)
(* effect.                                                                 *)
(***************************************************************************)
EXTENDS LedgerScripts

CONSTANTS
  Requests,     \* HTTP requests; a request's claim carries a fresh ownerToken
  Deliveries,   \* ledger keys: instance, account, inbox and delivery UUID
  Bodies,       \* raw bodies (their SHA-256)
  Kind,         \* Kind[b]: "message", "history" or "invalid_history"
  SignedAt,     \* SignedAt[d]: the timestamps under which d is ever signed
  Skew,         \* MAX_SKEW_MS
  MaxStall,     \* longest time from the timestamp check to the claim in Redis
  MaxNow        \* bound on the clock

Kinds == {"message", "history", "invalid_history"}

ASSUME DispatchConstants ==
  /\ Skew \in Nat /\ MaxStall \in Nat /\ MaxNow \in Nat
  /\ Kind \in [Bodies -> Kinds]
  /\ SignedAt \in [Deliveries -> SUBSET Nat]
  /\ NoRecord \notin Records(Bodies, Requests)

\* The deployment condition behind the 30-day retention: a delivery identity
\* outlives every moment at which a request carrying it can still be claimed.
ASSUME RetentionCoversReplay ==
  \A d \in Deliveries : \A s, t \in SignedAt[d] :
    t + 2 * Skew + MaxStall < s + Ttl

VARIABLES
  now,        \* one clock for hosts and Redis
  store,      \* Redis: delivery -> record
  pc,         \* where each request is
  delivery,   \* its delivery identity
  body,       \* its body
  checked,    \* when its timestamp was checked
  answer,     \* the HTTP answer it got
  wire,       \* "closed", "open" (may write to WhatsApp) or "written"
  writes,     \* WhatsApp messages written, per delivery
  returned    \* deliveries whose operation returned normally

request == <<delivery, body, checked>>
effects == <<wire, writes, returned>>
vars    == <<now, store, pc, request, answer, effects>>

None == "none"
Stages == {"idle", "verified", "claimed", "crossed", "executing", "returned",
           "threw", "answered", "crashed"}
Answers == {None, "auth_failed", "delivery_completed", "delivery_in_progress",
            "dispatch_outcome_unknown", "delivery_identity_conflict",
            "managed_financial_history_invalid", "store_unavailable", "ok",
            "error"}

TypeOK ==
  /\ now \in Nat
  /\ store \in [Deliveries -> Records(Bodies, Requests) \cup {NoRecord}]
  /\ pc \in [Requests -> Stages]
  /\ delivery \in [Requests -> Deliveries]
  /\ body \in [Requests -> Bodies]
  /\ checked \in [Requests -> Nat]
  /\ answer \in [Requests -> Answers]
  /\ wire \in [Requests -> {"closed", "open", "written"}]
  /\ writes \in [Deliveries -> Nat]
  /\ returned \in SUBSET Deliveries

Init ==
  /\ now = 0
  /\ store = [d \in Deliveries |-> NoRecord]
  /\ pc = [r \in Requests |-> "idle"]
  /\ delivery \in [Requests -> Deliveries]
  /\ body \in [Requests -> Bodies]
  /\ checked = [r \in Requests |-> 0]
  /\ answer = [r \in Requests |-> None]
  /\ wire = [r \in Requests |-> "closed"]
  /\ writes = [d \in Deliveries |-> 0]
  /\ returned = {}

Reply(r, a) ==
  /\ pc' = [pc EXCEPT ![r] = "answered"]
  /\ answer' = [answer EXCEPT ![r] = a]

GoTo(r, stage) ==
  /\ pc' = [pc EXCEPT ![r] = stage]
  /\ UNCHANGED answer

-----------------------------------------------------------------------------
\* verifyChatwootWebhook up to its first await: the freshness check.
Receive(r) ==
  /\ pc[r] = "idle"
  /\ \E s \in SignedAt[delivery[r]] : now <= s + Skew /\ s <= now + Skew
  /\ GoTo(r, "verified")
  /\ checked' = [checked EXCEPT ![r] = now]
  /\ UNCHANGED <<now, store, delivery, body, effects>>

\* A stale timestamp, an unreachable or unknown inbox, a signature that does
\* not match, or a body for another inbox: refused without touching Redis.
Refuse(r) ==
  /\ pc[r] \in {"idle", "verified"}
  /\ Reply(r, "auth_failed")
  /\ UNCHANGED <<now, store, request, effects>>

\* What-if variant: every settled delivery counts as done.
ClaimAnswerOfSettled(reply) ==
  CASE reply \in {"completed", "ambiguous"} -> "delivery_completed"
    [] reply = "active_reserved"           -> "delivery_in_progress"
    [] reply = "identity_conflict"         -> "delivery_identity_conflict"
    [] OTHER                               -> "dispatch_outcome_unknown"

\* ledger.claim reaches Redis, and what the caller makes of its reply.
ClaimAnswer(reply) ==
  CASE reply = "completed"         -> "delivery_completed"
    [] reply = "active_reserved"   -> "delivery_in_progress"
    [] reply = "identity_conflict" -> "delivery_identity_conflict"
    [] OTHER                       -> "dispatch_outcome_unknown"

Claim(r) ==
  LET d == delivery[r]
      reply == ClaimReply(store[d], body[r], now, "reserved")
  IN
  /\ pc[r] = "verified"
  /\ now <= checked[r] + MaxStall
  /\ IF reply = "claimed"
     THEN /\ GoTo(r, "claimed")
          /\ store' = [store EXCEPT
                         ![d] = ClaimRecord(@, body[r], r, now, "reserved")]
     ELSE /\ Reply(r, ClaimAnswer(reply))
          /\ UNCHANGED store
  /\ UNCHANGED <<now, request, effects>>

\* Managed financial history whose own metadata does not match is answered
\* 422 after the claim; its reservation is left to run out.
RejectHistory(r) ==
  /\ pc[r] = "claimed"
  /\ Kind[body[r]] = "invalid_history"
  /\ Reply(r, "managed_financial_history_invalid")
  /\ UNCHANGED <<now, store, request, effects>>

\* What-if variants: the reply of the script is not looked at; a lost
\* reservation is waited for instead of answered.
BeginDispatchUnchecked(r) ==
  LET d == delivery[r] IN
  /\ pc[r] = "claimed"
  /\ Kind[body[r]] # "invalid_history"
  /\ GoTo(r, "crossed")
  /\ store' = IF BeginReply(store[d], body[r], r, now) = "dispatching"
              THEN [store EXCEPT ![d] = BeginRecord(@)] ELSE store
  /\ UNCHANGED <<now, request, effects>>

BeginDispatchWaiting(r) ==
  LET d == delivery[r] IN
  /\ pc[r] = "claimed"
  /\ Kind[body[r]] # "invalid_history"
  /\ BeginReply(store[d], body[r], r, now) = "dispatching"
  /\ GoTo(r, "crossed")
  /\ store' = [store EXCEPT ![d] = BeginRecord(@)]
  /\ UNCHANGED <<now, request, effects>>

\* ledger.beginDispatch: the durable marker that precedes every side effect.
BeginDispatch(r) ==
  LET d == delivery[r] IN
  /\ pc[r] = "claimed"
  /\ Kind[body[r]] # "invalid_history"
  /\ IF BeginReply(store[d], body[r], r, now) = "dispatching"
     THEN /\ GoTo(r, "crossed")
          /\ store' = [store EXCEPT ![d] = BeginRecord(@)]
     ELSE /\ Reply(r, "store_unavailable")
          /\ UNCHANGED store
  /\ UNCHANGED <<now, request, effects>>

\* The claim or beginDispatch command, or only its reply, is lost.
StoreUnavailable(r) ==
  /\ pc[r] \in {"verified", "claimed", "crossed"}
  /\ Reply(r, "store_unavailable")
  /\ UNCHANGED <<now, store, request, effects>>

-----------------------------------------------------------------------------
\* Valid managed history is acknowledged without an outbound operation.
AcceptHistory(r) ==
  /\ pc[r] = "crossed"
  /\ Kind[body[r]] = "history"
  /\ GoTo(r, "returned")
  /\ returned' = returned \cup {delivery[r]}
  /\ UNCHANGED <<now, store, request, wire, writes>>

Execute(r) ==
  /\ pc[r] = "crossed"
  /\ Kind[body[r]] = "message"
  /\ GoTo(r, "executing")
  /\ wire' = [wire EXCEPT ![r] = "open"]
  /\ UNCHANGED <<now, store, request, writes, returned>>

\* Baileys writes the message.  An operation that threw (a timeout, say) may
\* still do so afterwards.
WriteWire(r) ==
  /\ wire[r] = "open"
  /\ wire' = [wire EXCEPT ![r] = "written"]
  /\ writes' = [writes EXCEPT ![delivery[r]] = @ + 1]
  /\ UNCHANGED <<now, store, pc, request, answer, returned>>

ExecuteReturns(r) ==
  /\ pc[r] = "executing"
  /\ GoTo(r, "returned")
  /\ wire' = [wire EXCEPT ![r] = IF @ = "open" THEN "closed" ELSE @]
  /\ returned' = returned \cup {delivery[r]}
  /\ UNCHANGED <<now, store, request, writes>>

ExecuteThrows(r) ==
  /\ pc[r] = "executing"
  /\ GoTo(r, "threw")
  /\ UNCHANGED <<now, store, request, effects>>

-----------------------------------------------------------------------------
\* What-if variant: an operation that threw is settled as completed too.
TargetCompleted(r) == "completed"

Target(r) == IF pc[r] = "returned" THEN "completed" ELSE "ambiguous"

\* What the caller answers when finish succeeded, and when it did not: the
\* error of the operation is rethrown either way.
FinishAnswer(r, settled) ==
  IF pc[r] = "threw" THEN "error"
  ELSE IF settled THEN "ok" ELSE "dispatch_outcome_unknown"

\* ledger.finish; 'heard' is FALSE when Redis applied it but the reply is lost.
Finish(r, heard) ==
  LET d == delivery[r]
      applied == FinishReply(store[d], body[r], r, Target(r), now) = Target(r)
  IN
  /\ pc[r] \in {"returned", "threw"}
  /\ store' = IF applied
              THEN [store EXCEPT ![d] = FinishRecord(@, Target(r))]
              ELSE store
  /\ Reply(r, FinishAnswer(r, applied /\ heard))
  /\ UNCHANGED <<now, request, effects>>

FinishUnreachable(r) ==
  /\ pc[r] \in {"returned", "threw"}
  /\ Reply(r, FinishAnswer(r, FALSE))
  /\ UNCHANGED <<now, store, request, effects>>

\* The process serving r dies.
Crash(r) ==
  /\ pc[r] \notin {"idle", "answered", "crashed"}
  /\ GoTo(r, "crashed")
  /\ wire' = [wire EXCEPT ![r] = IF @ = "open" THEN "closed" ELSE @]
  /\ UNCHANGED <<now, store, request, writes, returned>>

Tick ==
  /\ now < MaxNow
  /\ now' = now + 1
  /\ UNCHANGED <<store, pc, request, answer, effects>>

-----------------------------------------------------------------------------
\* The continuations a request's own process runs when nothing fails, or when
\* Redis did not take its claim in time.
Progress(r) ==
  \/ Claim(r) \/ (pc[r] = "verified" /\ StoreUnavailable(r))
  \/ RejectHistory(r) \/ BeginDispatch(r) \/ AcceptHistory(r) \/ Execute(r)
  \/ ExecuteReturns(r) \/ ExecuteThrows(r) \/ Finish(r, TRUE)

\* What its surroundings may do to it.
Disturb(r) ==
  \/ Receive(r) \/ Refuse(r) \/ StoreUnavailable(r) \/ WriteWire(r)
  \/ Finish(r, FALSE) \/ FinishUnreachable(r) \/ Crash(r)

Next == Tick \/ \E r \in Requests : Progress(r) \/ Disturb(r)

Spec == Init /\ [][Next]_vars

\* Node runs a request's continuations until it is answered; nothing obliges
\* Chatwoot to send, a late write to happen, a process to crash or Redis to fail.
FairSpec == Spec /\ \A r \in Requests : WF_vars(Progress(r))

-----------------------------------------------------------------------------
\* No delivery is written to WhatsApp twice, however often it is replayed,
\* whoever reclaims it and whatever crashes (README: at-most-once dispatch).
AtMostOnce == \A d \in Deliveries : writes[d] <= 1

\* A reserved record proves that no WhatsApp side effect has started, also
\* for the former owners whose lease it outlived: that is what makes
\* reclaiming it after a crash safe.
ReservedProvesUntouched ==
  \A d \in Deliveries :
    (store[d] # NoRecord /\ store[d].state = "reserved") =>
      /\ writes[d] = 0
      /\ \A r \in Requests :
           delivery[r] = d => wire[r] = "closed" /\ pc[r] # "crossed"

\* Whoever may write to WhatsApp is the owner the ledger names, with the body
\* the ledger pinned, on a record that no retry can claim again.
SideEffectOwned ==
  \A r \in Requests : wire[r] # "closed" =>
    LET rec == store[delivery[r]] IN
    /\ rec # NoRecord
    /\ rec.owner = r /\ rec.hash = body[r] /\ rec.state \in CrossedStates

\* HTTP 200, to the first attempt or to a replay, is only ever given when the
\* operation itself returned: an ambiguous delivery is never called completed.
SuccessIsReal ==
  \A r \in Requests :
    answer[r] \in {"ok", "delivery_completed"} => delivery[r] \in returned

\* A delivery identity is bound to its first body for good, a crossed record
\* to its owner, and a settled record never changes again.
Onward(old, new) ==
  /\ new # NoRecord /\ new.hash = old.hash
  /\ old.state \in CrossedStates => new.state # "reserved" /\ new.owner = old.owner
  /\ old.state \in {"completed", "ambiguous"} => new = old

LedgerNeverRegresses ==
  [][\A d \in Deliveries : store[d] # NoRecord => Onward(store[d], store'[d])]_store

-----------------------------------------------------------------------------
\* The inductive invariant behind all of the above.

\* A request that passed the boundary and may still act, or has acted.
Holds(r) ==
  pc[r] \in {"crossed", "executing", "returned", "threw"} \/ wire[r] # "closed"

\* No request that can still reach the claim finds its record expired.
Retained ==
  \A d \in Deliveries : store[d] # NoRecord =>
    \A t \in SignedAt[d] : t + Skew + MaxStall < store[d].expires

FreshWhenChecked ==
  \A r \in Requests : pc[r] = "verified" =>
    /\ checked[r] <= now
    /\ \E t \in SignedAt[delivery[r]] :
         checked[r] <= t + Skew /\ t <= checked[r] + Skew

HolderIsOwner ==
  \A r \in Requests : Holds(r) =>
    LET rec == store[delivery[r]] IN
    /\ rec # NoRecord
    /\ rec.owner = r /\ rec.hash = body[r] /\ rec.state \in CrossedStates
    /\ pc[r] \in {"crossed", "executing", "returned", "threw"} =>
         rec.state = "dispatching"

\* Effects exist only behind the boundary, and are not repeated.
EffectsCrossed ==
  \A d \in Deliveries :
    /\ writes[d] # 0 \/ d \in returned =>
         store[d] # NoRecord /\ store[d].state \in CrossedStates
    /\ store[d] # NoRecord /\ store[d].state = "completed" => d \in returned
    /\ writes[d] <= 1

HolderNotDone ==
  \A r \in Requests :
    /\ pc[r] \in {"idle", "verified", "claimed", "crossed"} => wire[r] = "closed"
    /\ wire[r] = "open" \/ pc[r] = "crossed" => writes[delivery[r]] = 0
    /\ wire[r] = "open" \/ pc[r] \in {"crossed", "executing", "threw"} =>
         delivery[r] \notin returned
    /\ pc[r] = "returned" => delivery[r] \in returned

IndInv ==
  /\ TypeOK /\ Retained /\ FreshWhenChecked /\ HolderIsOwner
  /\ EffectsCrossed /\ HolderNotDone /\ SuccessIsReal

-----------------------------------------------------------------------------
\* The ledger and its clients implement the abstract at-most-once delivery.
Once == INSTANCE DeliveryOnce WITH
  phase <- [d \in Deliveries |->
              IF store[d] = NoRecord THEN "open"
              ELSE IF store[d].state = "reserved" THEN "open"
              ELSE store[d].state]

ImplementsOnce == Once!OnceSpec

\* Every accepted request is answered unless its process dies, also one whose
\* reservation was taken over while it waited.
EveryRequestEnds ==
  \A r \in Requests :
    pc[r] = "verified" ~> pc[r] \in {"answered", "crashed"}
=============================================================================
